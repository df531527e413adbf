SPECIFICATION LiveSpec
CONSTANTS
    Word = 3
    Header = 2
    MaxData = 6
    Declared = 6
    Lengths <- MCLengths
    Buffer = 4
    Events = {"metadata", "producer", "revoke", "abort", "cut", "shutdown"}
CHECK_DEADLOCK FALSE
INVARIANTS WordsInPlace TruthfulOutcome
PROPERTIES Released

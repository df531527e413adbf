SPECIFICATION LiveSpec
CONSTANTS
    c1 = c1
    c2 = c2
    a = a
    b = b
    Client = {c1, c2}
    Run = {c1, c2}
    Content = {a, b}
    Versions = 2
    ContentOf <- MCContentOf
    Outcome <- MCOutcome
    Uses <- MCUses
    Startup = Startup
    Nobody = Nobody
    None = None
CHECK_DEADLOCK FALSE
INVARIANTS ToldOfItsContent OnePreparation OwnCleanWeights
PROPERTIES NothingAfterClose ExitCompletes

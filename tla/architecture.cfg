SPECIFICATION Spec
CONSTANTS
    NoFamily = 0
    Cost = 1
    MaxBytes = 1000
    Checkpoint <- MCCheckpoint
    Description <- MCDescription
INVARIANTS GraphSound BodiesTile AnnotationsAreFree
CHECK_DEADLOCK FALSE

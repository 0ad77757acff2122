CONSTANTS
    RecHdr = 4
    Captures <- McCaptures
SPECIFICATION Spec
INVARIANT CutFilesNeverAbort
CHECK_DEADLOCK FALSE

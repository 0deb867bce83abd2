CONSTANTS
    Records = 2
    Pieces = 2
SPECIFICATION LiveStreamSpec
INVARIANT ReadsBeginAtRecords
CHECK_DEADLOCK FALSE

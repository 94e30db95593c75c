SPECIFICATION FairSpec
CONSTANTS
    Drives = {d1, d2}
    Settings <- GraphsToEnd
    Absent = Absent
    Unknown = Unknown
INVARIANTS
    RoundsArePaidAndHadOnce
    
PROPERTIES
    RefusalIsFinal
    GatesComeToAnEnd
CONSTRAINT
    GatedOnce
CHECK_DEADLOCK FALSE

SPECIFICATION Spec
CONSTANTS
    Drives = {d1, d2}
    Settings <- OneCriterion
    Absent = Absent
    Unknown = Unknown
PROPERTIES
    EndIsEnd
CHECK_DEADLOCK FALSE

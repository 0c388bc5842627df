SPECIFICATION Spec
CONSTANTS
    None = None
    Absent = Absent
    MaxVersion = 1
    MaxStarts = 1
    MaxFaults = 1
    Races = FALSE
    Outlasts = FALSE
PROPERTIES ResultIsKept
CHECK_DEADLOCK FALSE

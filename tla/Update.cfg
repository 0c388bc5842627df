SPECIFICATION FairSpec
CONSTANTS
    None = None
    Absent = Absent
    MaxVersion = 2
    MaxStarts = 2
    MaxFaults = 2
    Races = FALSE
    Outlasts = FALSE
INVARIANTS OneInstaller OverMeansOver NothingComesBack
PROPERTIES InstallEnds
CHECK_DEADLOCK FALSE

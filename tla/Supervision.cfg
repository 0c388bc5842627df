SPECIFICATION WatchFairSpec
CONSTANTS
    launcher = launcher
    main = main
    other = other
    Programs <- Named
    Runnable <- Both
    Target = launcher
    Pointable <- Named
    Confirming = 2
    Interval = 2
    Blind = TRUE
    Unreadable = FALSE
    MaxRuns = 3
    MaxReloads = 1
    MaxRefused = 1
INVARIANTS SeenWasSeen
PROPERTIES EndsOnProof EndsWithGame StaysSupervised
CHECK_DEADLOCK FALSE

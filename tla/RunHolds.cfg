SPECIFICATION Spec
CONSTANTS
    Apps = {a1}
    Programs = {game}
    Main = game
    Starts = {s1, s2}
    Stops = {t1}
    Nobody = nobody
    MaxRuns = 1
    Unproven = FALSE
    Retries = FALSE
    Transient = FALSE
    Returns = FALSE
    Fails = FALSE
    Forgets = FALSE
SYMMETRY Symmetry
INVARIANTS LeftIsHeld NothingRunsIntoInstall
PROPERTIES NoForkOverLeft
CHECK_DEADLOCK FALSE

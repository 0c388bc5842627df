SPECIFICATION FairSpec
CONSTANTS
    Apps = {a1}
    Programs = {game, other}
    Main = game
    Starts = {s1}
    Stops = {t1}
    Nobody = nobody
    MaxRuns = 0
    Unproven = TRUE
    Retries = TRUE
    Transient = TRUE
    Returns = TRUE
    Fails = TRUE
    Forgets = TRUE
PROPERTIES ConsentedAtFork StopSettles
CHECK_DEADLOCK FALSE

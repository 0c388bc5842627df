SPECIFICATION Spec
CONSTANTS
    Apps = {a1, a2}
    Test = test
    Starts = {s1, s2}
    Nobody = nobody
    Invalid = invalid
    Corrupts = TRUE
SYMMETRY Symmetry
INVARIANTS OneAtATime NoneUnowned ExitsAreReal NoGameInRebuild
CHECK_DEADLOCK FALSE

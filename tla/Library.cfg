SPECIFICATION Spec
CONSTANTS
    Apps = {a1}
    Tables = {t1, t2, t3}
    Targets = {p1}
    None = None
    MaxHistory = 1
    MaxLibrary = 2
    MaxDamage = 1
    MidLaunch = FALSE
INVARIANTS SettingsFollowTheTable BlobsAreListed
PROPERTIES KeepsThePromise
CHECK_DEADLOCK FALSE
SYMMETRY Alike

SPECIFICATION Spec
CONSTANTS
    Tables = {t1, t2}
    Rows = {r1}
    None = None
    MaxMarks = 2
    MaxEpochs = 1
    MaxTokens = 2
    MaxSessions = 2
    MaxCommands = 3
INVARIANTS EvidenceIsFresh
PROPERTIES ConfirmedWasOn
CHECK_DEADLOCK FALSE
SYMMETRY Alike

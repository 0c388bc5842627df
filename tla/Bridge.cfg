SPECIFICATION BridgeFairSpec
CONSTANTS
    script = script
    flag = flag
    Records <- MCRecords
    Sessions <- DrivenOrTroubled
    Nil = Nil
    MaxWait = 1
    MaxGrace = 2
    MaxQuiesce = 3
    MaxSettle = 1
    MaxSweeps = 1
INVARIANTS CleanInTime
PROPERTIES ProvenMeansRestored StartupConcludes QuiesceAnswers
CHECK_DEADLOCK FALSE

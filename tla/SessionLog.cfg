SPECIFICATION FairSpec
CONSTANTS
    home = home
    other = other
    third = third
    panel = panel
    stop = stop
    Clients <- MCClients
    Programs <- Three
    Home = home
    None = None
    Quiesce = Quiesce
    Survives = FALSE
    Window = 2
    History = 3
    StartupResults = 1
    Batches <- Paired
    MaxCommands = 3
INVARIANTS NothingDropped RunsWhatWasIssued StatusReadable
PROPERTIES EveryCommandRuns
CHECK_DEADLOCK FALSE

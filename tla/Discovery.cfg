\* The forum and one source that links it, whose downloads are served one at a time.
SPECIFICATION Spec
CONSTANTS
  None = None
  NoItem = NoItem
  Forum = fearless
  Linking = {playground}
  Plain = {}
  Exclusive = {playground}
  Shared = {}
  MaxKept = 1
  MaxWrites = 2
  MaxItems = 2
  Budgets <- MCBudgets
  MaxWaits = 1
  Overlap = FALSE
  Restages = FALSE
INVARIANTS WrittenLoads MarkerIsOnDisk StagingIsOwned DeletedStaysDeleted ClosedIsOver
CHECK_DEADLOCK FALSE

\* Two installs, two panels, one import of the user's own, and one of: a restart, a
\* tree gone bad, a lost call.
SPECIFICATION FairSpec
CONSTANTS
  None = None
  Starting = Starting
  MaxOps = 2
  MaxFaults = 1
  MaxImports = 1
  Threads = FALSE
  MaxMounts = 2
INVARIANTS OneIsKept SaidIsSo
PROPERTIES IdentityStands SetupEnds
CHECK_DEADLOCK FALSE

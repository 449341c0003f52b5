CONSTANTS
  L1 = L1
  L2 = L2
  Other = Other
  None = None
  NoBlock = NoBlock
  Deleted = Deleted
  InitLocks <- MCLocks
  Locks = {}
  RemovableLocks = {}
  Blocks <- SyncBlocks
  Genesis = "G"
  Parent <- SyncParent
  Difficulty <- SyncDifficulty
  Body <- ReincludeBody
  IndexFrom = {0}
  MaxCrashes = 2
  MaxCommitFailures = 0

SPECIFICATION Spec
 
INVARIANT IdleIndexExact
PROPERTY LockIndexRefinement
INVARIANT LiveMatchesTransactions
INVARIANT IndexedCellsHaveOutPoint
PROPERTY EventuallyCaughtUp
CHECK_DEADLOCK FALSE

CONSTANTS
  L1 = L1
  L2 = L2
  Other = Other
  None = None
  NoBlock = NoBlock
  Deleted = Deleted
  InitLocks = {}
  Locks = {L1}
  RemovableLocks = {}
  Blocks <- SyncBlocks
  Genesis = "G"
  Parent <- SyncParent
  Difficulty <- SyncDifficulty
  Body <- SpendForkBody
  IndexFrom = {0}
  MaxCrashes = 0
  MaxCommitFailures = 0

SPECIFICATION Spec
INVARIANT IdleIndexExact
CHECK_DEADLOCK FALSE

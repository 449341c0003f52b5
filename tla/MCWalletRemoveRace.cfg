CONSTANTS
  L1 = L1
  L2 = L2
  Other = Other
  None = None
  NoBlock = NoBlock
  Deleted = Deleted
  InitLocks = {L1}
  Locks = {}
  RemovableLocks = {L1}
  Blocks <- LinearBlocks
  Genesis = "G"
  Parent <- LinearParent
  Difficulty <- LinearDifficulty
  Body <- LinearBody
  IndexFrom = {0}
  MaxCrashes = 0
  MaxCommitFailures = 0

SPECIFICATION Spec
INVARIANT IdleIndexExact
CHECK_DEADLOCK FALSE

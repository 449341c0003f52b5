CONSTANTS
  L1 = L1
  L2 = L2
  Other = Other
  None = None
  NoBlock = NoBlock
  Deleted = Deleted
  InitLocks = {L1, L2}
  Locks = {}
  RemovableLocks = {}
  Blocks <- LinearBlocks
  Genesis = "G"
  Parent <- LinearParent
  Difficulty <- LinearDifficulty
  Body <- LinearBody
  IndexFrom = {0}
  MaxCrashes = 0
  MaxCommitFailures = 1

SPECIFICATION Spec
INVARIANT CheckpointBacksRows
CHECK_DEADLOCK FALSE

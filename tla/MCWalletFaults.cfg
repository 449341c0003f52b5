CONSTANTS
  L1 = L1
  L2 = L2
  Other = Other
  None = None
  NoBlock = NoBlock
  Deleted = Deleted
  InitLocks = {}
  Locks = {L1, L2}
  RemovableLocks = {L1, L2}
  Blocks <- LinearBlocks
  Genesis = "G"
  Parent <- LinearParent
  Difficulty <- LinearDifficulty
  Body <- LinearBody
  IndexFrom = {0}
  MaxCrashes = 1
  MaxCommitFailures = 1

SPECIFICATION Spec
 
INVARIANT IndexedCellsHaveOutPoint

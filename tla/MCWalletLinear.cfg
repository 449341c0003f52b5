CONSTANTS
  L1 = L1
  L2 = L2
  Other = Other
  None = None
  NoBlock = NoBlock
  Deleted = Deleted
  InitLocks = {}
  Locks <- MCLocks
  RemovableLocks = {}
  Blocks <- LinearBlocks
  Genesis = "G"
  Parent <- LinearParent
  Difficulty <- LinearDifficulty
  Body <- LinearBody
  IndexFrom = {0}
  MaxCrashes = 1
  MaxCommitFailures = 0

SPECIFICATION Spec
INVARIANT TypeOK
INVARIANT IdleIndexExact
INVARIANT LiveMatchesTransactions
PROPERTY EventuallyCaughtUp
INVARIANT UnitTestsHold

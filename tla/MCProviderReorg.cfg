CONSTANTS
  None = None
  NoBlock = NoBlock
  Panic = Panic
  InvalidInput = InvalidInput
  InvalidOutput = InvalidOutput
  Overflow = Overflow
  P1 = P1
  P2 = P2
  P3 = P3
  Genesis = "G"
  Blocks <- ReorgBlocks
  Parent <- ReorgParent
  Difficulty <- ReorgDifficulty
  UncleCount <- ReorgUncles
  Proposals <- ReorgProposals
  UncleProposals <- ReorgUncleProposals
  Targets = {0, 1, 2, 3}
  Interval = 2
  OrphanRateInv = 5
  MinDifficulty = 1
  Windows <- Windows4
  PrevTx <- StoredTxs
  FeeTxs <- FeeCases
  CapacityBits = 4
  CellBody <- NoCells
  CellPoints = {}

SPECIFICATION Spec
INVARIANT DifficultyAsSpecified
CHECK_DEADLOCK FALSE

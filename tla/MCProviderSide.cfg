CONSTANTS
  None = None
  NoBlock = NoBlock
  Panic = Panic
  InvalidInput = InvalidInput
  InvalidOutput = InvalidOutput
  Overflow = Overflow
  P1 = P1
  P2 = P2
  P3 = P3
  Genesis = "G"
  Blocks <- SideBlocks
  Parent <- SideParent
  Difficulty <- SideDifficulty
  UncleCount <- SideUncles
  Proposals <- SideProposals
  UncleProposals <- SideUncleProposals
  Targets = {0, 1, 2, 3}
  Interval = 2
  OrphanRateInv = 5
  MinDifficulty = 1
  Windows <- Windows4
  PrevTx <- StoredTxs
  FeeTxs <- FeeCases
  CapacityBits = 4
  CellBody <- SideCells
  CellPoints <- SideCellPoints

SPECIFICATION Spec
INVARIANT TypeOK
INVARIANT DifficultyAsSpecified
INVARIANT FeeAsSpecified
PROPERTY ProposalWindowExact
CHECK_DEADLOCK FALSE

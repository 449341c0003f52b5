----------------------------- MODULE ChainIndex -----------------------------
(***************************************************************************)
(* The part of the chain store the wallet index and the chain provider     *)
(* read: a fixed tree of stored blocks (blocks are stored once and never   *)
(* mutated, detached blocks stay addressable by hash) and the canonical    *)
(* index, which is the path from genesis to the current tip.               *)
(*                                                                         *)
(* A block is identified by its hash; Parent gives the parent hash of      *)
(* every block but genesis.  The canonical index (COLUMN_INDEX) maps each  *)
(* number in 0..Height(tip) to the one block of that height on the path   *)
(* to the tip, and a hash has a number in the index only when its block    *)
(* is on that path.                                                        *)
(***************************************************************************)
EXTENDS Naturals, Sequences, FiniteSets, SequencesExt

CONSTANTS
  Blocks,     \* hashes of all stored blocks
  Genesis,    \* hash of the genesis block
  Parent,     \* Parent[b]: the parent hash of block b # Genesis
  Difficulty, \* Difficulty[b]: the difficulty in block b's header
  NoBlock     \* the answer "no block" of an index lookup (Option::None)

ASSUME Genesis \in Blocks /\ NoBlock \notin Blocks

\* Block number of a stored block: its distance from genesis along parents.
RECURSIVE Height(_)
Height(b) == IF b = Genesis THEN 0 ELSE Height(Parent[b]) + 1

\* BlockExt.total_difficulty: the difficulties on the path to b, summed.
RECURSIVE TotalDifficulty(_)
TotalDifficulty(b) ==
  IF b = Genesis THEN Difficulty[b] ELSE Difficulty[b] + TotalDifficulty(Parent[b])

\* The blocks on the path from genesis to b, b included.
RECURSIVE Ancestry(_)
Ancestry(b) == IF b = Genesis THEN {b} ELSE {b} \cup Ancestry(Parent[b])

\* The blocks of a set in ascending and in descending block-number order.
OldestFirst(S) == SetToSortSeq(S, LAMBDA x, y : Height(x) < Height(y))
NewestFirst(S) == SetToSortSeq(S, LAMBDA x, y : Height(x) > Height(y))

\* ChainProvider::block_hash: the canonical hash at a number, given the tip.
BlockHash(tip, n) ==
  IF \E b \in Ancestry(tip) : Height(b) = n
  THEN CHOOSE b \in Ancestry(tip) : Height(b) = n
  ELSE NoBlock

\* ChainProvider::block_number: Some(number) only for a canonical hash.
IsCanonical(tip, b) == b \in Ancestry(tip)

\* The canonical blocks with numbers lo..hi, oldest first (the range loops
\* of insert_lock_hash and sync_index_states).
CanonicalRange(tip, lo, hi) ==
  OldestFirst({b \in Ancestry(tip) : Height(b) >= lo /\ Height(b) <= hi})

\* The chain service makes b the tip only when its total difficulty exceeds
\* the current tip's.
Heavier(b, tip) == TotalDifficulty(b) > TotalDifficulty(tip)

\* The notification the chain service publishes when the tip moves from
\* old to new: the blocks of the old branch newest first, then the blocks
\* of the new branch oldest first.
TipChange(old, new) ==
  [detached |-> NewestFirst(Ancestry(old) \ Ancestry(new)),
   attached |-> OldestFirst(Ancestry(new) \ Ancestry(old))]
=============================================================================

---------------------------- MODULE ChainProvider ----------------------------
(***************************************************************************)
(* The read facade of src/shared/src/shared.rs (Shared as ChainProvider)  *)
(* used by one caller while the chain service writes.                      *)
(*                                                                         *)
(* The chain service stores a block and, when it is heavier than the tip, *)
(* moves the canonical index to it; it then replaces the shared TipHeader *)
(* in a second step (block data is durable before the tip names it).      *)
(* The caller's operations read the index, the TipHeader and the          *)
(* immutable headers and BlockExts in several steps, one per read whose   *)
(* result can change between reads:                                       *)
(*   get_ancestor: block_number(base), then either the TipHeader or       *)
(*                 block_hash(number) with its header, or the parent walk  *)
(*                 over immutable headers;                                 *)
(*   calculate_difficulty: get_ancestor(last, start), then the BlockExts.  *)
(***************************************************************************)
EXTENDS Naturals, Sequences, FiniteSets, Functions

CONSTANTS
  Blocks, Genesis, Parent, Difficulty, NoBlock,
  UncleCount,     \* UncleCount[b]: the number of uncles block b includes
  None,           \* Option::None
  Panic,          \* the caller's thread panicked (an overflow in a debug build)
  Targets,        \* the numbers get_ancestor is asked for
  Interval,       \* consensus.difficulty_adjustment_interval
  OrphanRateInv,  \* (1.0 / consensus.orphan_rate_target) as u64
  MinDifficulty,  \* consensus.min_difficulty
  Proposals,      \* Proposals[b]: block b's proposal short ids
  UncleProposals, \* UncleProposals[b]: the proposal short ids of each uncle of b
  Windows,        \* the (bn, n) arguments of union_proposal_ids_n
  PrevTx,         \* PrevTx[h]: output capacities of stored transaction h
  FeeTxs,         \* transactions [inputs, outputs] given to calculate_transaction_fee
  CapacityBits,   \* the width of Capacity (64 in the code)
  InvalidInput, InvalidOutput,  \* SharedError values
  Overflow,       \* the error the spec asks for on a Capacity overflow
  CellBody,       \* CellBody[b]: block b's transactions [hash, inputs, outputs]
  CellPoints      \* the out points cell and cell_at are asked for

ASSUME Interval \in Nat \ {0} /\ OrphanRateInv \in Nat /\ MinDifficulty \in Nat

LOCAL Chain == INSTANCE ChainIndex
Height(b) == Chain!Height(b)

\* BlockExt.total_uncles_count: the uncles on the path to b, summed.
RECURSIVE TotalUncles(_)
TotalUncles(b) ==
  IF b = Genesis THEN UncleCount[b] ELSE UncleCount[b] + TotalUncles(Parent[b])

VARIABLES
  stored,     \* the blocks the chain store holds
  index,      \* the block the canonical index (COLUMN_INDEX) ends at
  tipHeader,  \* the shared TipHeader
  pending,    \* a tip stored in the index whose TipHeader is not yet replaced
  rd          \* the caller: [op, pc, base, number, n, result]

vars == <<stored, index, tipHeader, pending, rd>>

Idle == [op |-> "none", pc |-> "done", base |-> Genesis, number |-> 0, result |-> None]

-----------------------------------------------------------------------------
\* Fault variant of Init: the TipHeader is genesis but init(genesis) never
\* wrote it to the store.
InitStoreUninitialised ==
  /\ stored = {}
  /\ index = Genesis
  /\ tipHeader = Genesis
  /\ pending = NoBlock
  /\ rd = Idle

\* Shared::new on an empty store: init(genesis) writes the genesis block and
\* makes it the tip of the store and of the TipHeader.
Init ==
  /\ stored = {Genesis}
  /\ index = Genesis
  /\ tipHeader = Genesis
  /\ pending = NoBlock
  /\ rd = Idle

\* The chain service stores a block whose parent is stored; a heavier one
\* becomes the tip of the canonical index.
StoreBlock(b) ==
  /\ pending = NoBlock
  /\ b \notin stored /\ Parent[b] \in stored
  /\ stored' = stored \cup {b}
  /\ IF Chain!Heavier(b, index)
     THEN index' = b /\ pending' = b
     ELSE UNCHANGED <<index, pending>>
  /\ UNCHANGED <<tipHeader, rd>>

\* The chain service replaces the TipHeader with the new tip.
PublishTip ==
  /\ pending # NoBlock
  /\ tipHeader' = pending
  /\ pending' = NoBlock
  /\ UNCHANGED <<stored, index, rd>>

-----------------------------------------------------------------------------
\* Fault variant of UnionProposalIds: the uncles' proposals are left out.
UnionProposalIdsNoUncles(tip, bn, n) ==
  LET m == IF bn > n THEN n ELSE bn
      h == Chain!BlockHash(tip, bn)
      Back[i \in 0..m] == IF i = 0 THEN h ELSE Parent[Back[i - 1]]
  IN  IF h = NoBlock THEN <<>> ELSE [i \in 1..m |-> Proposals[Back[i - 1]]]

\* union_proposal_ids_n(bn, n) against the index ending at tip: min(n, bn)
\* sets from block_hash(bn) back along parents, each the block's own
\* proposals with its uncles' added; empty when bn is not in the index.
UnionProposalIds(tip, bn, n) ==
  LET m == IF bn > n THEN n ELSE bn
      h == Chain!BlockHash(tip, bn)
      Back[i \in 0..m] == IF i = 0 THEN h ELSE Parent[Back[i - 1]]
  IN  IF h = NoBlock THEN <<>>
      ELSE [i \in 1..m |-> Proposals[Back[i - 1]] \cup UNION UncleProposals[Back[i - 1]]]

(***************************************************************************)
(* calculate_transaction_fee in Capacity arithmetic.  fee += capacity and  *)
(* the outputs' sum overflow silently (wrap) in a release build and panic *)
(* in a debug build; the outcomes are those of both builds.  A missing    *)
(* previous transaction or output index is InvalidInput, outputs above    *)
(* the inputs InvalidOutput.                                               *)
(***************************************************************************)
CapLimit == 2 ^ CapacityBits

\* A running sum of capacities, added one at a time as the loop and
\* Iterator::sum do: the partial sums only grow, so one overflows exactly
\* when the whole sum reaches CapLimit, and wrapping each step gives the
\* whole sum modulo CapLimit.
SumCapacities(caps, wrap) ==
  LET s == SumFunction(caps)
  IN  IF s < CapLimit THEN s ELSE IF wrap THEN s % CapLimit ELSE Panic

InputCapacities(tx) ==
  [j \in 1..Len(tx.inputs) |-> PrevTx[tx.inputs[j][1]][tx.inputs[j][2] + 1]]

InputsFound(tx) ==
  \A j \in 1..Len(tx.inputs) :
     tx.inputs[j][1] \in DOMAIN PrevTx /\ tx.inputs[j][2] < Len(PrevTx[tx.inputs[j][1]])

\* The first missing input ends the loop; in a debug build an overflow
\* among the inputs before it panics first.
FirstMissing(tx) ==
  CHOOSE j \in 1..Len(tx.inputs) :
    ~InputsFound([tx EXCEPT !.inputs = SubSeq(@, 1, j)])
    /\ InputsFound([tx EXCEPT !.inputs = SubSeq(@, 1, j - 1)])

\* Fault variant of FeeInBuild: outputs equal to the inputs are rejected.
FeeInBuildStrict(tx, wrap) ==
  IF ~InputsFound(tx)
  THEN LET before == InputCapacities([tx EXCEPT !.inputs = SubSeq(@, 1, FirstMissing(tx) - 1)])
       IN  IF SumCapacities(before, wrap) = Panic THEN Panic ELSE InvalidInput
  ELSE LET fee   == SumCapacities(InputCapacities(tx), wrap)
           spent == SumCapacities(tx.outputs, wrap)
       IN  CASE fee = Panic \/ spent = Panic -> Panic
             [] spent >= fee                -> InvalidOutput
             [] OTHER                       -> fee - spent

FeeInBuild(tx, wrap) ==
  IF ~InputsFound(tx)
  THEN LET before == InputCapacities([tx EXCEPT !.inputs = SubSeq(@, 1, FirstMissing(tx) - 1)])
       IN  IF SumCapacities(before, wrap) = Panic THEN Panic ELSE InvalidInput
  ELSE LET fee   == SumCapacities(InputCapacities(tx), wrap)
           spent == SumCapacities(tx.outputs, wrap)
       IN  CASE fee = Panic \/ spent = Panic -> Panic
             [] spent > fee                 -> InvalidOutput
             [] OTHER                       -> fee - spent

FeeOutcomes(tx) == {FeeInBuild(tx, TRUE), FeeInBuild(tx, FALSE)}

(***************************************************************************)
(* calculate_difficulty's arithmetic once the window start is resolved.   *)
(* last_total_uncles_count - start_total_uncles_count is u64 arithmetic:  *)
(* below zero it panics in a debug build and wraps to at least 2^64 - k   *)
(* in a release build, which the U256 product turns into a value above    *)
(* the 2 * last.difficulty clamp.                                          *)
(***************************************************************************)
\* Fault variant of Retarget: no upper clamp.
RetargetNoMaxClamp(last, u) ==
  LET difficulty == (Difficulty[last] * u * OrphanRateInv) \div Interval
  IN  IF difficulty < MinDifficulty THEN MinDifficulty ELSE difficulty

Retarget(last, u) ==
  LET difficulty == (Difficulty[last] * u * OrphanRateInv) \div Interval
  IN  CASE difficulty > 2 * Difficulty[last] -> 2 * Difficulty[last]
        [] difficulty < MinDifficulty        -> MinDifficulty
        [] OTHER                             -> difficulty

DifficultyOutcomes(last, start) ==
  IF start = None THEN {None}
  ELSE IF TotalUncles(last) >= TotalUncles(start)
       THEN {Retarget(last, TotalUncles(last) - TotalUncles(start))}
       ELSE {Panic, 2 * Difficulty[last]}

(***************************************************************************)
(* Cell lookup (CellProvider for Shared).  The TransactionMeta stored      *)
(* under the output root of block b has one bit per output of a            *)
(* transaction created on the chain ending at b, set for the outputs spent *)
(* on that chain.  get_transaction goes through TRANSACTION_ADDR, which    *)
(* the chain service keeps for the canonical chain; whether the address   *)
(* of a transaction only on another branch is kept is not specified, so   *)
(* both outcomes are possible.                                             *)
(***************************************************************************)
CellCurrent(p) == <<"current", p>>
CellOld == <<"old">>
CellUnknown == <<"unknown">>

TxsOn(b) == UNION {{CellBody[a][i] : i \in DOMAIN CellBody[a]} : a \in Chain!Ancestry(b)}

\* store.get_transaction_meta(output_root(b), h).
TransactionMetaAt(b, h) ==
  LET created == {tx \in TxsOn(b) : tx.hash = h}
      spends  == UNION {{tx.inputs[j] : j \in DOMAIN tx.inputs} : tx \in TxsOn(b)}
  IN  IF created = {} THEN None
      ELSE [len   |-> (CHOOSE tx \in created : TRUE).outputs,
            spent |-> {q[2] : q \in {q \in spends : q[1] = h}}]

\* Whether store.get_transaction(h) finds the transaction's address.
AddressOutcomes(h) ==
  IF \E tx \in TxsOn(index) : tx.hash = h THEN {TRUE} ELSE {TRUE, FALSE}

\* output_root(hash): the store keeps an output root for every stored
\* block; the block stands for its root.
OutputRoot(b) == IF b \in stored THEN b ELSE NoBlock

\* get_transaction_meta(hash): the meta at the TipHeader's output root,
\* read under the TipHeader's read lock.
GetTransactionMeta(h) == TransactionMetaAt(tipHeader, h)

\* get_transaction_meta_at(hash, parent): output_root(parent), then the
\* meta at that root.
GetTransactionMetaAt(h, parent) ==
  IF OutputRoot(parent) = NoBlock THEN None ELSE TransactionMetaAt(parent, h)

\* Fault variant of CellBegin: an index equal to meta.len counts as an output.
CellBeginPastEnd(r, meta) ==
  CASE meta = None             -> [r EXCEPT !.pc = "done", !.result = CellUnknown]
    [] r.base[2] > meta.len    -> [r EXCEPT !.pc = "done", !.result = CellUnknown]
    [] r.base[2] \in meta.spent -> [r EXCEPT !.pc = "done", !.result = CellOld]
    [] OTHER                   -> [r EXCEPT !.pc = "readTx"]

\* cell and cell_at on the meta they read: Unknown without meta or past
\* its length, Old for a spent output; an unspent output goes on to
\* get_transaction.
CellBegin(r, meta) ==
  CASE meta = None             -> [r EXCEPT !.pc = "done", !.result = CellUnknown]
    [] r.base[2] >= meta.len   -> [r EXCEPT !.pc = "done", !.result = CellUnknown]
    [] r.base[2] \in meta.spent -> [r EXCEPT !.pc = "done", !.result = CellOld]
    [] OTHER                   -> [r EXCEPT !.pc = "readTx"]

\* The caller's operation completes with header h as get_ancestor's answer.
Complete(r, h) ==
  IF r.op = "ancestor"
  THEN {[r EXCEPT !.pc = "done", !.result = h]}
  ELSE {[r EXCEPT !.pc = "done", !.result = v] : v \in DifficultyOutcomes(r.base, h)}

\* get_ancestor(base, number), first read: block_number(base) from the index.
\* A canonical base answers None above its number, goes on to the TipHeader
\* at its number and to the index below it; any other base is walked back
\* along its immutable parent headers (block_header is None when unstored).
AncestorBegin(r) ==
  LET base == r.base
      num  == r.number
  IN  IF base \in stored /\ Chain!IsCanonical(index, base)
      THEN CASE num > Height(base) -> Complete(r, None)
             [] num = Height(base) -> {[r EXCEPT !.pc = "readTip"]}
             [] OTHER              -> {[r EXCEPT !.pc = "readIndex"]}
      ELSE IF base \notin stored \/ num > Height(base) THEN Complete(r, None)
      ELSE Complete(r, CHOOSE a \in Chain!Ancestry(base) : Height(a) = num)

\* The caller calls get_ancestor(base, number).
GetAncestor(base, number) ==
  /\ rd.pc = "done"
  /\ \E r \in AncestorBegin([op |-> "ancestor", pc |-> "begin", base |-> base,
                             number |-> number, result |-> None]) :
       rd' = r
  /\ UNCHANGED <<stored, index, tipHeader, pending>>

\* The caller calls calculate_difficulty(last): no retarget unless last
\* ends an interval, else get_ancestor(last, last.number - interval)
\* (saturating).
CalculateDifficulty(last) ==
  /\ rd.pc = "done"
  /\ last \in stored
  /\ IF (Height(last) + 1) % Interval # 0
     THEN rd' = [op |-> "difficulty", pc |-> "done", base |-> last,
                 number |-> Height(last), result |-> Difficulty[last]]
     ELSE \E r \in AncestorBegin([op |-> "difficulty", pc |-> "begin", base |-> last,
                                  number |-> IF Height(last) > Interval
                                             THEN Height(last) - Interval ELSE 0,
                                  result |-> None]) :
            rd' = r
  /\ UNCHANGED <<stored, index, tipHeader, pending>>

\* The caller calls union_proposal_ids_n(bn, n); the block_hash read and the
\* walk over immutable headers form one step.
UnionProposalIdsN(bn, n) ==
  /\ rd.pc = "done"
  /\ rd' = [op |-> "union", pc |-> "done", base |-> bn, number |-> n,
            result |-> UnionProposalIds(index, bn, n)]
  /\ UNCHANGED <<stored, index, tipHeader, pending>>

\* The caller calls calculate_transaction_fee(tx).
CalculateTransactionFee(tx) ==
  /\ rd.pc = "done"
  /\ \E v \in FeeOutcomes(tx) :
       rd' = [op |-> "fee", pc |-> "done", base |-> tx, number |-> 0, result |-> v]
  /\ UNCHANGED <<stored, index, tipHeader, pending>>

\* The caller calls cell(p): get_transaction_meta, at the TipHeader's
\* output root (recorded as the root the answer is as of).
Cell(p) ==
  /\ rd.pc = "done"
  /\ rd' = CellBegin([op |-> "cell", pc |-> "begin", base |-> p,
                      number |-> tipHeader, result |-> None],
                     GetTransactionMeta(p[1]))
  /\ UNCHANGED <<stored, index, tipHeader, pending>>

\* The caller calls cell_at(p, parent): get_transaction_meta_at, at
\* parent's output root (NoBlock when there is none).
CellAt(p, parent) ==
  /\ rd.pc = "done"
  /\ rd' = CellBegin([op |-> "cellAt", pc |-> "begin", base |-> p,
                      number |-> OutputRoot(parent), result |-> None],
                     GetTransactionMetaAt(p[1], parent))
  /\ UNCHANGED <<stored, index, tipHeader, pending>>

\* The second read of cell and cell_at: get_transaction(p.hash), whose
\* expect("transaction must exist") panics when no address is found.
ReadTx ==
  /\ rd.pc = "readTx"
  /\ \E found \in AddressOutcomes(rd.base[1]) :
       rd' = [rd EXCEPT !.pc = "done",
                        !.result = IF found THEN CellCurrent(rd.base) ELSE Panic]
  /\ UNCHANGED <<stored, index, tipHeader, pending>>

\* get_ancestor at the base's own number answers the TipHeader.
ReadTip ==
  /\ rd.pc = "readTip"
  /\ \E r \in Complete(rd, tipHeader) : rd' = r
  /\ UNCHANGED <<stored, index, tipHeader, pending>>

\* get_ancestor below the base's number: block_hash(number), then its header.
ReadIndex ==
  /\ rd.pc = "readIndex"
  /\ LET h == Chain!BlockHash(index, rd.number)
     IN  \E r \in Complete(rd, IF h = NoBlock THEN None ELSE h) : rd' = r
  /\ UNCHANGED <<stored, index, tipHeader, pending>>

Next ==
  \/ \E b \in Blocks : StoreBlock(b)
  \/ PublishTip
  \/ \E b \in Blocks, n \in Targets : GetAncestor(b, n)
  \/ \E b \in Blocks : CalculateDifficulty(b)
  \/ \E w \in Windows : UnionProposalIdsN(w[1], w[2])
  \/ \E tx \in FeeTxs : CalculateTransactionFee(tx)
  \/ \E p \in CellPoints : Cell(p) \/ \E b \in Blocks : CellAt(p, b)
  \/ ReadTip
  \/ ReadIndex
  \/ ReadTx

Spec == Init /\ [][Next]_vars

-----------------------------------------------------------------------------
(***************************************************************************)
(* The answers the spec (section 4.4) gives for each operation.           *)
(***************************************************************************)
\* get_ancestor(base, number): the ancestor of base along parent links
\* whose number is number; None for an unknown base or a number above it.
AncestorSpec(base, number) ==
  IF base \notin stored \/ number > Height(base) THEN None
  ELSE CHOOSE a \in Chain!Ancestry(base) : Height(a) = number

\* calculate_difficulty(last) with the window start resolved along last's
\* own chain, clamped first to 2 * last.difficulty, then up to the minimum.
DifficultySpec(last) ==
  IF (Height(last) + 1) % Interval # 0 THEN Difficulty[last]
  ELSE LET start == AncestorSpec(last, IF Height(last) > Interval
                                       THEN Height(last) - Interval ELSE 0)
           new   == (Difficulty[last] * (TotalUncles(last) - TotalUncles(start))
                       * OrphanRateInv) \div Interval
           capped == IF new > 2 * Difficulty[last] THEN 2 * Difficulty[last] ELSE new
       IN  IF capped < MinDifficulty THEN MinDifficulty ELSE capped

\* union_proposal_ids_n(bn, n): one set per canonical block of the window
\* (bn - n, bn], newest first, clipped to bn sets; empty for an unknown bn.
UnionSpec(tip, bn, n) ==
  LET Props(b) == Proposals[b] \cup UNION UncleProposals[b]
  IN  IF Chain!BlockHash(tip, bn) = NoBlock THEN <<>>
      ELSE [i \in 1..(IF bn < n THEN bn ELSE n) |-> Props(Chain!BlockHash(tip, bn - i + 1))]

\* calculate_transaction_fee(tx): inputs minus outputs, InvalidInput for a
\* missing previous output, an error on overflow, InvalidOutput when the
\* outputs exceed the inputs.
FeeSpec(tx) ==
  IF ~InputsFound(tx) THEN InvalidInput
  ELSE LET in  == SumFunction(InputCapacities(tx))
           out == SumFunction(tx.outputs)
       IN  CASE in >= CapLimit \/ out >= CapLimit -> Overflow
             [] out > in                          -> InvalidOutput
             [] OTHER                             -> in - out

-----------------------------------------------------------------------------
TypeOK ==
  /\ stored \subseteq Blocks /\ Genesis \in stored
  /\ index \in stored /\ tipHeader \in stored
  /\ pending \in stored \cup {NoBlock}
  /\ rd.op \in {"none", "ancestor", "difficulty", "union", "fee", "cell", "cellAt"}
  /\ rd.pc \in {"done", "readTip", "readIndex", "readTx"}

\* Every answer of get_ancestor is the ancestor of its base at the
\* requested number (spec property 4), against the blocks stored when it
\* answers, whatever the chain service did since the call: the tip
\* short-cut, the index lookup and the parent walk.
GetAncestorCorrect ==
  [][rd' # rd /\ rd'.op = "ancestor" /\ rd'.pc = "done" =>
       rd'.result = AncestorSpec(rd'.base, rd'.number)]_vars

\* calculate_difficulty returns the spec's retarget of last: the window
\* start on last's own chain, the uncle count difference, the truncated
\* orphan-rate factor and the clamp (spec property 3 and section 4.4.4).
DifficultyAsSpecified ==
  rd.op = "difficulty" /\ rd.pc = "done" => rd.result = DifficultySpec(rd.base)

\* Every union_proposal_ids_n call answers the spec's window for the
\* canonical chain it reads.
ProposalWindowExact ==
  [][\A w \in Windows : UnionProposalIdsN(w[1], w[2]) =>
                         rd'.result = UnionSpec(index, w[1], w[2])]_vars

\* calculate_transaction_fee answers the spec's fee or error, in every build.
FeeAsSpecified ==
  rd.op = "fee" => rd.result = FeeSpec(rd.base)

=============================================================================

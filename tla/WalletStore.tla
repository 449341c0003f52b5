----------------------------- MODULE WalletStore -----------------------------
(***************************************************************************)
(* The lock-hash wallet index of src/wallet/src/store.rs (DefaultWallet-   *)
(* Store) together with the chain it follows.                              *)
(*                                                                         *)
(* The wallet database has four columns, each modelled as a partial        *)
(* function (a function whose domain is the set of stored keys):           *)
(*   state : lock hash      -> checkpoint block   (LOCK_HASH_INDEX_STATE)  *)
(*   live  : LockHashIndex  -> CellOutput         (LOCK_HASH_LIVE_CELL)    *)
(*   tx    : LockHashIndex  -> Option<TxPoint>    (LOCK_HASH_TRANSACTION)  *)
(*   out   : CellOutPoint   -> LockHashCellOutput (CELL_OUT_POINT_LOCK_HASH)*)
(* A LockHashIndex is <<lock, block number, tx hash, index>>, a            *)
(* CellOutPoint <<tx hash, index>> and a TransactionPoint                  *)
(* <<block number, tx hash, index>>.  The CellOutput created at out point  *)
(* p is abstracted to p itself.  A checkpoint stores the block hash only:  *)
(* every writer stores the number and hash of one block, so the pair is    *)
(* always the block's own.                                                 *)
(*                                                                         *)
(* A write batch records, per column, the last write to every key (a       *)
(* value or Deleted); reads made while a batch is built go to the          *)
(* committed database and never see the batch, as with the RocksDB batch   *)
(* the code uses.                                                          *)
(*                                                                         *)
(* Actors: the chain service (moves the tip, publishes a TipChange), the   *)
(* wallet update thread (one notification at a time, built then committed, *)
(* the commit may fail), users calling insert_lock_hash and                *)
(* remove_lock_hash, and the process, which may crash and restarts with    *)
(* sync_index_states.                                                      *)
(***************************************************************************)
EXTENDS Naturals, Sequences, FiniteSets, SequencesExt, TLC

CONSTANTS
  InitLocks,         \* lock hashes registered (index_from Some(0)) at genesis
  Locks,             \* lock hashes users may register while the chain runs
  RemovableLocks,    \* lock hashes users may remove (a subset of Locks)
  Blocks, Genesis, Parent, Difficulty,
  Body,              \* Body[b]: the transactions of block b, in order
  IndexFrom,         \* index_from arguments of insert_lock_hash (None or a number)
  None,              \* Option::None
  NoBlock,
  Deleted,           \* a delete recorded in a write batch
  MaxCrashes,        \* bound on process crashes
  MaxCommitFailures  \* bound on failed wallet batch commits

ASSUME RemovableLocks \subseteq Locks \cup InitLocks
ASSUME MaxCrashes \in Nat /\ MaxCommitFailures \in Nat

LOCAL Chain == INSTANCE ChainIndex
Height(b) == Chain!Height(b)
Ancestry(b) == Chain!Ancestry(b)

VARIABLES
  stored,     \* the blocks the chain store holds
  tip,        \* the chain state's tip block
  chan,       \* the new-tip notification channel to the wallet, FIFO
  db,         \* the committed wallet database: [state, live, tx, out]
  upd,        \* the update thread: [phase |-> "idle" | "built", batch]
  rmv,        \* a remove_lock_hash call: [phase |-> "idle" | "live", lock, batch]
  panicked,   \* the update thread died on an expect()
  up,         \* the process is running
  crashes, failures   \* bound counters

vars == <<stored, tip, chan, db, upd, rmv, panicked, up, crashes, failures>>

Cols == {"state", "live", "tx", "out"}
Empty == [k \in {} |-> None]
EmptyBatch == [c \in Cols |-> Empty]

\* The CellOutput created at out point <<h, i>>.
Output(h, i) == <<h, i>>

\* FoldValues(op, acc, s), with each intermediate accumulator bound as a value
\* (through the singleton {acc}) so that a step that reads its accumulator
\* several times does not evaluate the steps before it again.
RECURSIVE FoldValues(_, _, _)
FoldValues(op(_, _), acc, s) ==
  IF s = <<>> THEN acc
  ELSE FoldValues(op, CHOOSE r \in {op(a, Head(s)) : a \in {acc}} : TRUE, Tail(s))

(***************************************************************************)
(* Write batches (WalletStoreBatch) and their commit.                      *)
(***************************************************************************)
\* Record the writes g (a partial function key -> value or Deleted) in
\* column c of batch b; later writes win.
WriteAll(b, c, g) == [b EXCEPT ![c] = g @@ @]
Write(b, c, k, v) == WriteAll(b, c, k :> v)

\* The column col after the batch writes w have been applied.
ApplyCol(col, w) ==
  LET keys == {k \in DOMAIN col : k \notin DOMAIN w}
                \cup {k \in DOMAIN w : w[k] # Deleted}
  IN  [k \in keys |-> IF k \in DOMAIN w THEN w[k] ELSE col[k]]

\* WalletStoreBatch::commit: every column at once.
Commit(d, b) == [c \in Cols |-> ApplyCol(d[c], b[c])]

\* get_lock_hash_cell_output: the committed out-point entry of p, or None.
GetLockHashCellOutput(d, p) == IF p \in DOMAIN d.out THEN d.out[p] ELSE None

\* get_lock_hash_index_states: the committed checkpoints.
GetLockHashIndexStates(d) == d.state

(***************************************************************************)
(* The paged queries.  Keys are ordered as their bytes are: lock hash,      *)
(* big-endian block number, tx hash, big-endian index.  The model does not *)
(* fix the byte order of hashes: ord lists the hashes a query compares, in *)
(* ascending byte order.                                                   *)
(***************************************************************************)
HashBefore(ord, x, y) == \E i, j \in DOMAIN ord : i < j /\ ord[i] = x /\ ord[j] = y

KeyBefore(ord, a, b) ==
  \/ HashBefore(ord, a[1], b[1])
  \/ a[1] = b[1] /\ a[2] < b[2]
  \/ a[1] = b[1] /\ a[2] = b[2] /\ HashBefore(ord, a[3], b[3])
  \/ a[1] = b[1] /\ a[2] = b[2] /\ a[3] = b[3] /\ a[4] < b[4]

\* db.iter(col, l) from the first key at or after the prefix l, then
\* skip(skip), take(take) and take_while(key starts with l): the pairs
\* <<key, value>> returned.
PrefixPage(col, l, skip, take, ord) ==
  LET keys == {k \in DOMAIN col : k[1] = l \/ HashBefore(ord, l, k[1])}
      \* the i-th key is the one with i - 1 keys before it
      from == [i \in 1..Cardinality(keys) |->
                 CHOOSE k \in keys :
                   Cardinality({x \in keys : KeyBefore(ord, x, k)}) = i - 1]
      page == SubSeq(from, skip + 1, Min({skip + take, Len(from)}))
      n    == IF \A i \in 1..Len(page) : page[i][1] = l THEN Len(page)
              ELSE Min({i \in 1..Len(page) : page[i][1] # l}) - 1
  IN  [i \in 1..n |-> <<page[i], col[page[i]]>>]

\* get_live_cells: [created_by, cell_output] for each live row of the page.
GetLiveCells(d, l, skip, take, ord) ==
  LET pg == PrefixPage(d.live, l, skip, take, ord)
  IN  [i \in DOMAIN pg |-> [created_by  |-> <<pg[i][1][2], pg[i][1][3], pg[i][1][4]>>,
                            cell_output |-> pg[i][2]]]

\* get_transactions: [created_by, consumed_by] for each transaction row.
GetTransactions(d, l, skip, take, ord) ==
  LET pg == PrefixPage(d.tx, l, skip, take, ord)
  IN  [i \in DOMAIN pg |-> [created_by  |-> <<pg[i][1][2], pg[i][1][3], pg[i][1][4]>>,
                            consumed_by |-> pg[i][2]]]

(***************************************************************************)
(* attach_block for one transaction, in two halves.  acc = [batch, buf];   *)
(* buf is the batch_buffer of out points created earlier in the same       *)
(* batch, with the created output cached.                                  *)
(***************************************************************************)
\* Fault variant of AttachOutputs: the transaction row is not written.
AttachOutputsNoTxRow(acc, tx, n, locks) ==
  LET outs   == {i \in 0..Len(tx.outputs)-1 : tx.outputs[i+1] \in locks}
      keys   == {<<tx.outputs[i+1], n, tx.hash, i>> : i \in outs}
      points == {<<tx.hash, i>> : i \in outs}
      Entry(p, o) == [lock |-> tx.outputs[p[2]+1], number |-> n, output |-> o]
  IN  [batch |-> WriteAll(WriteAll(acc.batch,
                   "live", [k \in keys |-> Output(k[3], k[4])]),
                   "out",  [p \in points |-> Entry(p, None)]),
       buf   |-> [p \in points |-> Entry(p, Output(p[1], p[2]))] @@ acc.buf]

\* The outputs whose lock is indexed: a live row, an unspent transaction
\* row and an out-point row without cached output are written, and the
\* out point is put in the batch buffer with its output.
AttachOutputs(acc, tx, n, locks) ==
  LET outs   == {i \in 0..Len(tx.outputs)-1 : tx.outputs[i+1] \in locks}
      keys   == {<<tx.outputs[i+1], n, tx.hash, i>> : i \in outs}
      points == {<<tx.hash, i>> : i \in outs}
      Entry(p, o) == [lock |-> tx.outputs[p[2]+1], number |-> n, output |-> o]
  IN  [batch |-> WriteAll(WriteAll(WriteAll(acc.batch,
                   "live", [k \in keys |-> Output(k[3], k[4])]),
                   "tx",   [k \in keys |-> None]),
                   "out",  [p \in points |-> Entry(p, None)]),
       buf   |-> [p \in points |-> Entry(p, Output(p[1], p[2]))] @@ acc.buf]

\* Fault variant of AttachInputs: the spent cell's live row is kept.
AttachInputsKeepLive(d, acc, tx, n, locks) ==
  LET Entry(p) == IF p \in DOMAIN acc.buf THEN acc.buf[p]
                  ELSE GetLockHashCellOutput(d, p)
      spends == IF tx.cellbase THEN {}
                ELSE {j \in 0..Len(tx.inputs)-1 :
                        Entry(tx.inputs[j+1]) # None
                        /\ Entry(tx.inputs[j+1]).lock \in locks}
      Key(j) == LET p == tx.inputs[j+1] IN <<Entry(p).lock, Entry(p).number, p[1], p[2]>>
  IN  [acc EXCEPT !.batch =
         WriteAll(WriteAll(@,
           "out",  [p \in {tx.inputs[j+1] : j \in spends} |-> Entry(p)]),
           "tx",   [k \in {Key(j) : j \in spends} |->
                      <<n, tx.hash, CHOOSE j \in spends : Key(j) = k>>])]

\* Fault variant of AttachInputs: the spent cell's out-point row is deleted.
AttachInputsDropOut(d, acc, tx, n, locks) ==
  LET Entry(p) == IF p \in DOMAIN acc.buf THEN acc.buf[p]
                  ELSE GetLockHashCellOutput(d, p)
      spends == IF tx.cellbase THEN {}
                ELSE {j \in 0..Len(tx.inputs)-1 :
                        Entry(tx.inputs[j+1]) # None
                        /\ Entry(tx.inputs[j+1]).lock \in locks}
      Key(j) == LET p == tx.inputs[j+1] IN <<Entry(p).lock, Entry(p).number, p[1], p[2]>>
  IN  [acc EXCEPT !.batch =
         WriteAll(WriteAll(WriteAll(@,
           "out",  [p \in {tx.inputs[j+1] : j \in spends} |-> Deleted]),
           "live", [k \in {Key(j) : j \in spends} |-> Deleted]),
           "tx",   [k \in {Key(j) : j \in spends} |->
                      <<n, tx.hash, CHOOSE j \in spends : Key(j) = k>>])]

\* The inputs of a non-cellbase transaction: the spent out point is looked
\* up in the buffer, then in the committed out column d.out; when its lock
\* is indexed, the entry found is written back, the live row deleted and
\* the transaction row set to the consuming point.
AttachInputs(d, acc, tx, n, locks) ==
  LET Entry(p) == IF p \in DOMAIN acc.buf THEN acc.buf[p]
                  ELSE GetLockHashCellOutput(d, p)
      spends == IF tx.cellbase THEN {}
                ELSE {j \in 0..Len(tx.inputs)-1 :
                        Entry(tx.inputs[j+1]) # None
                        /\ Entry(tx.inputs[j+1]).lock \in locks}
      Key(j) == LET p == tx.inputs[j+1] IN <<Entry(p).lock, Entry(p).number, p[1], p[2]>>
  IN  [acc EXCEPT !.batch =
         WriteAll(WriteAll(WriteAll(@,
           "out",  [p \in {tx.inputs[j+1] : j \in spends} |-> Entry(p)]),
           "live", [k \in {Key(j) : j \in spends} |-> Deleted]),
           "tx",   [k \in {Key(j) : j \in spends} |->
                      <<n, tx.hash, CHOOSE j \in spends : Key(j) = k>>])]

AttachBlock(d, acc, blk, locks) ==
  FoldValues(LAMBDA a, tx : AttachInputs(d, AttachOutputs(a, tx, Height(blk), locks),
                                      tx, Height(blk), locks),
           acc, Body[blk])

AttachBlocks(d, acc, blks, locks) ==
  FoldValues(LAMBDA a, blk : AttachBlock(d, a, blk, locks), acc, blks)

(***************************************************************************)
(* detach_block for one transaction, in two halves.  acc = [batch, panic]. *)
(***************************************************************************)
\* The inputs of a non-cellbase transaction: the spent out point's entry is
\* read from the committed out column only; when its lock is indexed the
\* cell is put back in the live column and marked unspent under
\* LockHashIndex::new(lock, block_number, tx_hash, index), built from the
\* detached block's number and the spending transaction's hash and input
\* index, and the entry is written back without cached output.
\* cell_output.expect("inconsistent state") panics when no output is cached.
DetachInputs(d, acc, tx, n, locks) ==
  LET E(j)  == GetLockHashCellOutput(d, tx.inputs[j+1])
      restores == IF tx.cellbase THEN {}
                  ELSE {j \in 0..Len(tx.inputs)-1 : E(j) # None /\ E(j).lock \in locks}
      keyed == {<<E(j).lock, n, tx.hash, j>> : j \in restores}
  IN  [batch |-> WriteAll(WriteAll(WriteAll(acc.batch,
                   "live", [k \in keyed |-> E(k[4]).output]),
                   "tx",   [k \in keyed |-> None]),
                   "out",  [p \in {tx.inputs[j+1] : j \in restores} |->
                              [GetLockHashCellOutput(d, p) EXCEPT !.output = None]]),
       panic |-> acc.panic \/ \E j \in restores : E(j).output = None]

\* Fault variant of DetachOutputs: the transaction rows are left behind.
DetachOutputsKeepTx(acc, tx, n, locks) ==
  LET outs == {i \in 0..Len(tx.outputs)-1 : tx.outputs[i+1] \in locks}
      keys == {<<tx.outputs[i+1], n, tx.hash, i>> : i \in outs}
  IN  [acc EXCEPT !.batch =
         WriteAll(WriteAll(@,
           "live", [k \in keys |-> Deleted]),
           "out",  [p \in {<<tx.hash, i>> : i \in outs} |-> Deleted])]

\* The outputs whose lock is indexed: their live, transaction and
\* out-point rows are deleted.
DetachOutputs(acc, tx, n, locks) ==
  LET outs == {i \in 0..Len(tx.outputs)-1 : tx.outputs[i+1] \in locks}
      keys == {<<tx.outputs[i+1], n, tx.hash, i>> : i \in outs}
  IN  [acc EXCEPT !.batch =
         WriteAll(WriteAll(WriteAll(@,
           "live", [k \in keys |-> Deleted]),
           "tx",   [k \in keys |-> Deleted]),
           "out",  [p \in {<<tx.hash, i>> : i \in outs} |-> Deleted])]

DetachBlocks(d, acc, blks, locks) ==
  FoldValues(LAMBDA a, blk :
             FoldValues(LAMBDA a2, tx :
                        DetachOutputs(DetachInputs(d, a2, tx, Height(blk), locks),
                                      tx, Height(blk), locks),
                      a, Body[blk]),
           acc, blks)

(***************************************************************************)
(* update: the batch for one TipChange, built against the committed        *)
(* database d for the lock hashes read from the state column: detach the   *)
(* detached blocks, attach the attached ones with a fresh batch_buffer,    *)
(* and move every lock's checkpoint to the last attached block.            *)
(***************************************************************************)
\* Fault variant of UpdateBatch: the checkpoints are not moved.
UpdateBatchNoCheckpoint(d, change, locks) ==
  LET dt == DetachBlocks(d, [batch |-> EmptyBatch, panic |-> FALSE],
                         change.detached, locks)
      at == AttachBlocks(d, [batch |-> dt.batch, buf |-> Empty],
                         change.attached, locks)
  IN  [batch |-> at.batch, panic |-> dt.panic]

\* Fault variant of UpdateBatch: the new branch is attached before the old
\* one is detached.
UpdateBatchAttachFirst(d, change, locks) ==
  LET at == AttachBlocks(d, [batch |-> EmptyBatch, buf |-> Empty],
                         change.attached, locks)
      dt == DetachBlocks(d, [batch |-> at.batch, panic |-> FALSE],
                         change.detached, locks)
      st == IF change.attached = <<>> THEN dt.batch
            ELSE WriteAll(dt.batch, "state", [l \in locks |-> Last(change.attached)])
  IN  [batch |-> st, panic |-> dt.panic]

UpdateBatch(d, change, locks) ==
  LET dt == DetachBlocks(d, [batch |-> EmptyBatch, panic |-> FALSE],
                         change.detached, locks)
      at == AttachBlocks(d, [batch |-> dt.batch, buf |-> Empty],
                         change.attached, locks)
      st == IF change.attached = <<>> THEN at.batch
            ELSE WriteAll(at.batch, "state", [l \in locks |-> Last(change.attached)])
  IN  [batch |-> st, panic |-> dt.panic]

\* update(detached, attached) called on database d: the batch for the
\* registered locks, committed unless no lock is registered (the update
\* thread's own steps are UpdateBegin and UpdateCommit).
UpdateDb(d, change) ==
  LET locks == DOMAIN GetLockHashIndexStates(d)
  IN  IF locks = {} THEN [db |-> d, panic |-> FALSE]
      ELSE LET r == UpdateBatch(d, change, locks)
           IN  [db |-> IF r.panic THEN d ELSE Commit(d, r.batch), panic |-> r.panic]

(***************************************************************************)
(* sync_index_states against the committed database d and chain tip t.     *)
(* Every lock whose checkpoint is off the canonical chain gets its own     *)
(* committed batch that detaches its fork blocks newest first and moves    *)
(* its checkpoint to the fork point; then one batch attaches the canonical *)
(* blocks above the lowest checkpoint for all locks and moves all          *)
(* checkpoints to the tip.  A panic in a detach ends the sync with the     *)
(* batches committed so far.                                               *)
(***************************************************************************)
SyncForkLock(r, l, t) ==
  IF r.panic THEN r
  ELSE LET fork == Ancestry(r.db.state[l]) \ Ancestry(t)
           dt   == DetachBlocks(r.db, [batch |-> EmptyBatch, panic |-> FALSE],
                                Chain!NewestFirst(fork), {l})
           cp   == Parent[Last(Chain!NewestFirst(fork))]
       IN  IF dt.panic THEN [db |-> r.db, panic |-> TRUE]
           ELSE [db |-> Commit(r.db, Write(dt.batch, "state", l, cp)), panic |-> FALSE]

\* Fault variants of Sync: the attach range starts one block too high;
\* the checkpoints are not moved to the tip; the checkpoints are looked up
\* in the canonical index at the tip's number plus one.
SyncSkipFirst(d, t) ==
  IF DOMAIN d.state = {} THEN [db |-> d, panic |-> FALSE]
  ELSE
  LET forked == {l \in DOMAIN d.state : ~Chain!IsCanonical(t, d.state[l])}
      p1 == FoldValues(LAMBDA r, l : SyncForkLock(r, l, t),
                     [db |-> d, panic |-> FALSE], SetToSeq(forked))
      d1 == p1.db
      low == Min({Height(d1.state[l]) : l \in DOMAIN d1.state})
      at == AttachBlocks(d1, [batch |-> EmptyBatch, buf |-> Empty],
                         Chain!CanonicalRange(t, low + 2, Height(t)), DOMAIN d1.state)
  IN  IF p1.panic THEN p1
      ELSE [db |-> Commit(d1, WriteAll(at.batch, "state", [l \in DOMAIN d1.state |-> t])),
            panic |-> FALSE]

SyncNoCheckpoint(d, t) ==
  IF DOMAIN d.state = {} THEN [db |-> d, panic |-> FALSE]
  ELSE
  LET forked == {l \in DOMAIN d.state : ~Chain!IsCanonical(t, d.state[l])}
      p1 == FoldValues(LAMBDA r, l : SyncForkLock(r, l, t),
                     [db |-> d, panic |-> FALSE], SetToSeq(forked))
      d1 == p1.db
      low == Min({Height(d1.state[l]) : l \in DOMAIN d1.state})
      at == AttachBlocks(d1, [batch |-> EmptyBatch, buf |-> Empty],
                         Chain!CanonicalRange(t, low + 1, Height(t)), DOMAIN d1.state)
  IN  IF p1.panic THEN p1 ELSE [db |-> Commit(d1, at.batch), panic |-> FALSE]

Sync(d, t) ==
  IF DOMAIN GetLockHashIndexStates(d) = {} THEN [db |-> d, panic |-> FALSE]
  ELSE
  LET forked == {l \in DOMAIN d.state : ~Chain!IsCanonical(t, d.state[l])}
      p1 == FoldValues(LAMBDA r, l : SyncForkLock(r, l, t),
                     [db |-> d, panic |-> FALSE], SetToSeq(forked))
      d1 == p1.db
      low == Min({Height(d1.state[l]) : l \in DOMAIN d1.state})
      at == AttachBlocks(d1, [batch |-> EmptyBatch, buf |-> Empty],
                         Chain!CanonicalRange(t, low + 1, Height(t)), DOMAIN d1.state)
  IN  IF p1.panic THEN p1
      ELSE [db |-> Commit(d1, WriteAll(at.batch, "state", [l \in DOMAIN d1.state |-> t])),
            panic |-> FALSE]

\* Fault variant of InsertDb: the checkpoint is looked up in the canonical
\* index at the tip's number plus one.
InsertDbPastTip(d, l, from, t) ==
  LET replay == IF from = None THEN <<>> ELSE Chain!CanonicalRange(t, from, Height(t))
      at == AttachBlocks(d, [batch |-> EmptyBatch, buf |-> Empty], replay, {l})
  IN  Commit(d, Write(at.batch, "state", l, Chain!BlockHash(t, Height(t) + 1)))

\* insert_lock_hash(l, from) against database d at tip t, in one batch:
\* replay the canonical blocks from..t for {l} (when from is a number),
\* then store t as l's checkpoint.
InsertDb(d, l, from, t) ==
  LET replay == IF from = None THEN <<>> ELSE Chain!CanonicalRange(t, from, Height(t))
      at == AttachBlocks(d, [batch |-> EmptyBatch, buf |-> Empty], replay, {l})
  IN  Commit(d, Write(at.batch, "state", l, t))

-----------------------------------------------------------------------------
\* The InitLocks were inserted with index_from Some(0) while genesis was
\* the tip, one after another, before the process stopped.
Init ==
  /\ tip = Genesis
  /\ chan = <<>>
  /\ db = FoldValues(LAMBDA d, l : InsertDb(d, l, 0, Genesis),
                   [c \in Cols |-> Empty], SetToSeq(InitLocks))
  /\ upd = [phase |-> "idle", batch |-> EmptyBatch]
  /\ rmv = [phase |-> "idle", lock |-> None, batch |-> EmptyBatch]
  /\ panicked = FALSE
  /\ up = FALSE
  /\ stored = {Genesis}
  /\ crashes = 0 /\ failures = 0

\* The chain service stores a block whose parent it holds and, when the
\* block's total difficulty exceeds the tip's, makes it the tip and
\* publishes the TipChange (blocks arrive one at a time, so a heavier fork
\* is announced in one notification when its first heavier block arrives).
ReceiveBlock(b) ==
  /\ up
  /\ b \notin stored /\ Parent[b] \in stored
  /\ stored' = stored \cup {b}
  /\ IF Chain!Heavier(b, tip)
     THEN /\ tip' = b
          /\ chan' = Append(chan, Chain!TipChange(tip, b))
     ELSE UNCHANGED <<tip, chan>>
  /\ UNCHANGED <<db, upd, rmv, panicked, up, crashes, failures>>

\* The update thread receives a TipChange, reads the registered lock hashes
\* and builds the batch; nothing is committed when no lock is registered.
UpdateBegin ==
  /\ up /\ ~panicked
  /\ upd.phase = "idle"
  /\ chan # <<>>
  /\ LET locks == DOMAIN GetLockHashIndexStates(db)
         r     == UpdateBatch(db, Head(chan), locks)
     IN  /\ chan' = Tail(chan)
         /\ panicked' = r.panic
         /\ upd' = IF locks = {} \/ r.panic THEN upd
                   ELSE [phase |-> "built", batch |-> r.batch]
  /\ UNCHANGED <<stored, tip, db, rmv, up, crashes, failures>>

\* The update thread's batch commits.
UpdateCommit ==
  /\ up
  /\ upd.phase = "built"
  /\ db' = Commit(db, upd.batch)
  /\ upd' = [phase |-> "idle", batch |-> EmptyBatch]
  /\ UNCHANGED <<stored, tip, chan, rmv, panicked, up, crashes, failures>>

\* The commit fails; commit() only logs the error and the batch is lost.
UpdateCommitFail ==
  /\ up
  /\ upd.phase = "built"
  /\ failures < MaxCommitFailures
  /\ failures' = failures + 1
  /\ upd' = [phase |-> "idle", batch |-> EmptyBatch]
  /\ UNCHANGED <<stored, tip, chan, db, rmv, panicked, up, crashes>>

\* A user call's batch commits, or its commit fails: commit() logs the
\* error and the database is left as it was.
CommitOrFail(d) ==
  \/ /\ db' = d
     /\ UNCHANGED failures
  \/ /\ failures < MaxCommitFailures
     /\ failures' = failures + 1
     /\ UNCHANGED db

\* insert_lock_hash(l, from), under the chain-state lock.  The checkpoint
\* is returned whether or not the batch committed.
InsertLockHash(l, from) ==
  /\ up
  /\ CommitOrFail(InsertDb(db, l, from, tip))
  /\ UNCHANGED <<stored, tip, chan, upd, rmv, panicked, up, crashes>>

\* The first half of remove_lock_hash(l) against database d: the prefix
\* scan of the live column, whose iterator is created and drained first;
\* l's live cells and their out-point rows are deleted.
RemoveLiveBatch(d, l) ==
  LET liveKeys == {k \in DOMAIN d.live : k[1] = l}
  IN  WriteAll(WriteAll(EmptyBatch,
        "live", [k \in liveKeys |-> Deleted]),
        "out",  [p \in {<<k[3], k[4]>> : k \in liveKeys} |-> Deleted])

RemoveTxBatchKeepTx(d, b, l) == WriteAll(b, "state", l :> Deleted)

\* The second half against database d, added to batch b: the prefix scan
\* of the transaction column through a second iterator, created after the
\* first was drained; l's transaction rows and its checkpoint are deleted.
RemoveTxBatch(d, b, l) ==
  WriteAll(WriteAll(b, "tx", [k \in {k \in DOMAIN d.tx : k[1] = l} |-> Deleted]),
           "state", l :> Deleted)

\* The whole batch of remove_lock_hash(l) when nothing commits between the
\* two scans, as in the unit tests.
RemoveBatch(d, l) == RemoveTxBatch(d, RemoveLiveBatch(d, l), l)

\* remove_lock_hash(l), called from an RPC thread without the chain-state
\* lock: the live-column scan, recorded in the remover's batch.
RemoveScanLive(l) ==
  /\ up
  /\ rmv.phase = "idle"
  /\ rmv' = [phase |-> "live", lock |-> l, batch |-> RemoveLiveBatch(db, l)]
  /\ UNCHANGED <<stored, tip, chan, db, upd, panicked, up, crashes, failures>>

\* The transaction-column scan against the database as committed now, and
\* the commit of the whole batch; a failed commit is only logged.
RemoveScanTx ==
  /\ up
  /\ rmv.phase = "live"
  /\ CommitOrFail(Commit(db, RemoveTxBatch(db, rmv.batch, rmv.lock)))
  /\ rmv' = [phase |-> "idle", lock |-> None, batch |-> EmptyBatch]
  /\ UNCHANGED <<stored, tip, chan, upd, panicked, up, crashes>>

\* The process dies: the in-memory channel and the unfinished batches are lost.
Crash ==
  /\ up
  /\ crashes < MaxCrashes
  /\ crashes' = crashes + 1
  /\ up' = FALSE
  /\ chan' = <<>>
  /\ upd' = [phase |-> "idle", batch |-> EmptyBatch]
  /\ rmv' = [phase |-> "idle", lock |-> None, batch |-> EmptyBatch]
  /\ panicked' = FALSE
  /\ UNCHANGED <<stored, tip, db, failures>>

\* The process starts: sync_index_states, then the update thread runs.
\* A panic during the sync aborts the start.
Start ==
  /\ ~up
  /\ LET r == Sync(db, tip)
     IN  /\ db' = r.db
         /\ up' = ~r.panic
         /\ panicked' = r.panic
  /\ UNCHANGED <<stored, tip, chan, upd, rmv, crashes, failures>>

Next ==
  \/ \E b \in Blocks : ReceiveBlock(b)
  \/ UpdateBegin
  \/ UpdateCommit
  \/ UpdateCommitFail
  \/ \E l \in Locks, f \in IndexFrom : InsertLockHash(l, f)
  \/ \E l \in RemovableLocks : RemoveScanLive(l)
  \/ RemoveScanTx
  \/ Crash
  \/ Start

\* The update thread runs whenever a notification or a batch is pending,
\* and a stopped process is restarted until a start panics.  Users and the
\* chain are not fair.  Weak fairness of UpdateBegin is written out as its
\* definition with ENABLED <<UpdateBegin>>_vars replaced by the guard it
\* equals (every UpdateBegin step removes the channel head), so that TLC
\* need not build the batch to decide enabledness; the restart condition
\* ~up /\ ~panicked implies ENABLED <<Start>>_vars, so its clause is no
\* stronger than WF_vars(Start).
UpdateBeginEnabled == up /\ ~panicked /\ upd.phase = "idle" /\ chan # <<>>

Fairness ==
  /\ (<>[]UpdateBeginEnabled) => []<><<UpdateBegin>>_vars
  /\ WF_vars(UpdateCommit \/ UpdateCommitFail)
  /\ (<>[](~up /\ ~panicked)) => []<><<Start>>_vars

Spec == Init /\ [][Next]_vars /\ Fairness

-----------------------------------------------------------------------------
(***************************************************************************)
(* The abstract index of LockIndex, seen through the committed database:   *)
(* the checkpoints are the state column and the rows the live-cell and     *)
(* transaction columns.  Every lock a user or the genesis setup can        *)
(* register is a lock of the abstraction.                                  *)
(***************************************************************************)
Abs == INSTANCE LockIndex
         WITH Locks <- Locks \cup InitLocks,
              ckpt <- db.state, live <- db.live, txs <- db.tx

RowsOf(col, l) == [k \in {k \in DOMAIN col : k[1] = l} |-> col[k]]

IndexExact(l, h) ==
  /\ RowsOf(db.live, l) = Abs!ExpectedLive(l, h)
  /\ RowsOf(db.tx, l) = Abs!ExpectedTx(l, h)

\* Nothing is in flight: the process runs, the channel is drained and the
\* update thread holds no batch.
Quiescent == up /\ ~panicked /\ chan = <<>> /\ upd.phase = "idle"

TypeOK ==
  /\ tip \in Blocks
  /\ DOMAIN db = Cols
  /\ \A l \in DOMAIN db.state : l \in Locks \cup InitLocks /\ db.state[l] \in Blocks
  /\ \A k \in DOMAIN db.tx : db.tx[k] = None \/ db.tx[k] \in Nat \X STRING \X Nat
  /\ \A p \in DOMAIN db.out : db.out[p].lock \in Locks \cup InitLocks
  /\ upd.phase \in {"idle", "built"}
  /\ rmv.phase \in {"idle", "live"}
  /\ panicked \in BOOLEAN /\ up \in BOOLEAN
  /\ stored \subseteq Blocks /\ tip \in stored
  /\ crashes \in 0..MaxCrashes
  /\ failures \in 0..MaxCommitFailures

\* Once the update thread has processed every TipChange, each registered
\* lock's checkpoint is the chain tip and its live-cell and transaction
\* rows are exactly those of the canonical chain (update, attach_block,
\* detach_block, insert_lock_hash and the restart's sync_index_states
\* together).
IdleIndexExact ==
  Quiescent =>
    \A l \in DOMAIN db.state : db.state[l] = tip /\ IndexExact(l, tip)

\* Every checkpoint in the committed database is backed by its rows: a lock
\* checkpointed at h has exactly the live and transaction rows of the
\* canonical chain ending at h.  Spec section 7 (StoreIO): when update's
\* commit fails the checkpoint does not advance, so the next notification
\* replays the window.
CheckpointBacksRows == \A l \in DOMAIN db.state : IndexExact(l, db.state[l])

\* Every committed state of the wallet database, as a reader of
\* get_lock_hash_index_states, get_live_cells and get_transactions sees it,
\* is a state of the abstract index, and every commit (update's batch,
\* insert_lock_hash, remove_lock_hash, the batches of sync_index_states
\* taken together) is one of its steps: each lock's rows are those of the
\* chain ending at its checkpoint, checkpoints are stored blocks, a lock
\* inserted gets the tip, and no rows outlive their lock.
LockIndexRefinement == Abs!Spec

\* get_live_cells and get_transactions agree: a cell is in the live column
\* exactly when its transaction row says it is not consumed.
LiveMatchesTransactions ==
  /\ \A k \in DOMAIN db.live : k \in DOMAIN db.tx /\ db.tx[k] = None
  /\ \A k \in DOMAIN db.tx : db.tx[k] = None => k \in DOMAIN db.live

\* Every cell a registered lock's transaction rows record, spent or not,
\* keeps its out-point row naming that lock and block number: the row
\* attach_block and detach_block look a spent input up by.
IndexedCellsHaveOutPoint ==
  \A k \in DOMAIN db.tx :
    k[1] \in DOMAIN db.state =>
      LET p == <<k[3], k[4]>>
      IN  p \in DOMAIN db.out /\ db.out[p].lock = k[1] /\ db.out[p].number = k[2]

\* The update thread never dies on detach_block's expect("inconsistent
\* state") and the process never fails to start on it.
NoInconsistentStatePanic == ~panicked

\* The wallet eventually catches up with the chain for good: every
\* notification processed and every registered lock at the tip.
EventuallyCaughtUp ==
  <>[](Quiescent /\ \A l \in DOMAIN db.state : db.state[l] = tip)
=============================================================================

------------------------------ MODULE LockIndex ------------------------------
(***************************************************************************)
(* What the lock-hash index promises a reader of its committed database    *)
(* (spec 4.5, the ordering guarantee of 5, properties 5 and 6 of 7).       *)
(*                                                                         *)
(* Every registered lock has a checkpoint block, and the live-cell and     *)
(* transaction rows of the lock are exactly those of the chain ending at   *)
(* that checkpoint; there are no rows of unregistered locks.  The chain    *)
(* grows one stored block at a time and its tip moves to a heavier block.  *)
(* The index changes in three ways, each in one atomic step together with  *)
(* the rows it implies: a lock is registered with the current tip as its   *)
(* checkpoint and its history from genesis; a lock is unregistered with    *)
(* all its rows; or the checkpoints of some registered locks move to other *)
(* stored blocks.                                                          *)
(***************************************************************************)
EXTENDS Naturals, Sequences, FiniteSets, SequencesExt

CONSTANTS
  Locks,        \* the lock hashes that may be registered
  Blocks, Genesis, Parent, Difficulty,
  Body,         \* Body[b]: the transactions of block b, in order
  None,         \* Option::None
  NoBlock

VARIABLES
  stored,   \* the blocks the chain store holds
  tip,      \* the canonical tip
  ckpt,     \* lock -> checkpoint block (LOCK_HASH_INDEX_STATE)
  live,     \* the live-cell rows of all locks (LOCK_HASH_LIVE_CELL)
  txs       \* the transaction rows of all locks (LOCK_HASH_TRANSACTION)

LOCAL Chain == INSTANCE ChainIndex

\* The CellOutput created at out point <<h, i>>.
Output(h, i) == <<h, i>>

(***************************************************************************)
(* The rows the index should hold for lock l at checkpoint h: every output *)
(* with lock l created on the chain ending at h, keyed                     *)
(* <<lock, block number, tx hash, index>>; live when no transaction on     *)
(* that chain spends it, and in the transaction column with the point      *)
(* <<block number, tx hash, input index>> that spends it (None when none  *)
(* does).                                                                  *)
(***************************************************************************)
TxsOn(h) ==
  UNION {{<<Chain!Height(b), tx>> : tx \in ToSet(Body[b])} : b \in Chain!Ancestry(h)}

CreatedKeys(l, h) ==
  UNION {{<<l, nt[1], nt[2].hash, i>> :
            i \in {i \in 0..Len(nt[2].outputs)-1 : nt[2].outputs[i+1] = l}}
         : nt \in TxsOn(h)}

ConsumerOf(p, h) ==
  LET pts == UNION {{<<nt[1], nt[2].hash, j>> :
                       j \in {j \in 0..Len(nt[2].inputs)-1 : nt[2].inputs[j+1] = p}}
                    : nt \in {x \in TxsOn(h) : ~x[2].cellbase}}
  IN  IF pts = {} THEN None ELSE CHOOSE x \in pts : TRUE

ExpectedTx(l, h) ==
  [k \in CreatedKeys(l, h) |-> ConsumerOf(<<k[3], k[4]>>, h)]
ExpectedLive(l, h) ==
  [k \in {k \in CreatedKeys(l, h) : ConsumerOf(<<k[3], k[4]>>, h) = None}
     |-> Output(k[3], k[4])]

\* The rows of all locks for checkpoints ck; the keys of different locks
\* are disjoint, since a key starts with its lock.
LiveView(ck) ==
  [k \in UNION {DOMAIN ExpectedLive(l, ck[l]) : l \in DOMAIN ck} |->
     ExpectedLive(k[1], ck[k[1]])[k]]
TxView(ck) ==
  [k \in UNION {DOMAIN ExpectedTx(l, ck[l]) : l \in DOMAIN ck} |->
     ExpectedTx(k[1], ck[k[1]])[k]]

\* The rows move together with the checkpoints.
RowsFollow == live' = LiveView(ckpt') /\ txs' = TxView(ckpt')

Init ==
  /\ stored = {Genesis}
  /\ tip = Genesis
  /\ \E L \in SUBSET Locks : ckpt = [l \in L |-> Genesis]
  /\ live = LiveView(ckpt)
  /\ txs = TxView(ckpt)

Grow(b) ==
  /\ b \notin stored /\ Parent[b] \in stored
  /\ stored' = stored \cup {b}
  /\ tip' = IF Chain!Heavier(b, tip) THEN b ELSE tip
  /\ UNCHANGED <<ckpt, live, txs>>

Register(l) ==
  /\ l \in Locks
  /\ ckpt' = (l :> tip) @@ ckpt
  /\ RowsFollow
  /\ UNCHANGED <<stored, tip>>

Unregister(l) ==
  /\ l \in DOMAIN ckpt
  /\ ckpt' = [m \in DOMAIN ckpt \ {l} |-> ckpt[m]]
  /\ RowsFollow
  /\ UNCHANGED <<stored, tip>>

Advance ==
  /\ DOMAIN ckpt' = DOMAIN ckpt
  /\ \A l \in DOMAIN ckpt' : ckpt'[l] \in stored
  /\ RowsFollow
  /\ UNCHANGED <<stored, tip>>

Next ==
  \/ \E b \in Blocks : Grow(b)
  \/ \E l \in Locks : Register(l) \/ Unregister(l)
  \/ Advance

Spec == Init /\ [][Next]_<<stored, tip, ckpt, live, txs>>
=============================================================================

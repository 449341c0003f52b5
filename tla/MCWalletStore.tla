---------------------------- MODULE MCWalletStore ----------------------------
(***************************************************************************)
(* Block trees and transactions for checking WalletStore.  Two registered  *)
(* locks L1, L2 and a lock Other that no user registers.  Transactions are *)
(* [hash, cellbase, inputs, outputs]: inputs are spent out points          *)
(* <<tx hash, index>>, outputs the lock hash of each output.               *)
(***************************************************************************)
EXTENDS WalletStore

CONSTANTS L1, L2, Other

Tx(h, cb, ins, outs) == [hash |-> h, cellbase |-> cb, inputs |-> ins, outputs |-> outs]

(***************************************************************************)
(* Linear chain G <- B1 <- B2 <- B3:                                        *)
(*   G : cellbase g0 pays L1                                                *)
(*   B1: cellbase c1 pays L2; t1 spends g0:0 and pays L1 and L2             *)
(*   B2: t2 (spending a foreign cell) pays L2; t3 spends t2:0 in the same   *)
(*       block and pays L1                                                  *)
(*   B3: t4 spends t1:1 and c1:0, created two batches earlier, pays Other   *)
(***************************************************************************)
LinearBlocks == {"G", "B1", "B2", "B3"}
LinearParent == [b \in {"B1", "B2", "B3"} |->
                   CASE b = "B1" -> "G" [] b = "B2" -> "B1" [] b = "B3" -> "B2"]
LinearBody ==
  [b \in LinearBlocks |->
     CASE b = "G"  -> <<Tx("g0", TRUE, <<>>, <<L1>>)>>
       [] b = "B1" -> <<Tx("c1", TRUE, <<>>, <<L2>>),
                        Tx("t1", FALSE, <<<<"g0", 0>>>>, <<L1, L2>>)>>
       [] b = "B2" -> <<Tx("c2", TRUE, <<>>, <<Other>>),
                        Tx("t2", FALSE, <<<<"x0", 0>>>>, <<L2>>),
                        Tx("t3", FALSE, <<<<"t2", 0>>>>, <<L1>>)>>
       [] b = "B3" -> <<Tx("c3", TRUE, <<>>, <<Other>>),
                        Tx("t4", FALSE, <<<<"t1", 1>>, <<"c1", 0>>>>, <<Other>>)>>]

LinearDifficulty == [b \in LinearBlocks |-> 1]

(***************************************************************************)
(* The fork of the sync_index_states test: G <- B1 <- B2 and              *)
(* B1 <- F2 <- F3, F2 and F3 heavier than B2 (difficulties 2, 20, 21).     *)
(* Only the light branch's B2 can be detached, and it only creates cells.  *)
(*   B1: t11 pays L1, t12 pays L2        B2: t21 pays L1, t22 pays L2       *)
(*   F2: empty but its cellbase          F3: t31 spends t11:0 and pays L1, *)
(*                                           t32 spends t12:0 and pays L2  *)
(***************************************************************************)
SyncBlocks == {"G", "B1", "B2", "F2", "F3"}
SyncParent == [b \in SyncBlocks \ {"G"} |->
                 CASE b = "B1" -> "G" [] b = "B2" -> "B1"
                   [] b = "F2" -> "B1" [] b = "F3" -> "F2"]
SyncDifficulty == [b \in SyncBlocks |->
                     CASE b = "B2" -> 2 [] b = "F2" -> 20 [] b = "F3" -> 21
                       [] OTHER -> 1]
SyncBody ==
  [b \in SyncBlocks |->
     CASE b = "G"  -> <<Tx("g0", TRUE, <<>>, <<Other>>)>>
       [] b = "B1" -> <<Tx("c1", TRUE, <<>>, <<Other>>),
                        Tx("t11", FALSE, <<<<"g0", 0>>>>, <<L1>>),
                        Tx("t12", FALSE, <<<<"x0", 0>>>>, <<L2>>)>>
       [] b = "B2" -> <<Tx("c2", TRUE, <<>>, <<Other>>),
                        Tx("t21", FALSE, <<<<"x1", 0>>>>, <<L1>>),
                        Tx("t22", FALSE, <<<<"x2", 0>>>>, <<L2>>)>>
       [] b = "F2" -> <<Tx("f2", TRUE, <<>>, <<Other>>)>>
       [] b = "F3" -> <<Tx("f3", TRUE, <<>>, <<Other>>),
                        Tx("t31", FALSE, <<<<"t11", 0>>>>, <<L1>>),
                        Tx("t32", FALSE, <<<<"t12", 0>>>>, <<L2>>)>>]

\* The same fork with B2's t21 included again in F2, at the same height: a
\* reorganisation deletes t21's keys in its detach half and writes them
\* again in its attach half, in one batch.
ReincludeBody == [SyncBody EXCEPT !["F2"] = Append(@, Tx("t21", FALSE, <<<<"x1", 0>>>>, <<L1>>))]

(***************************************************************************)
(* A fork whose light block spends: G <- B1 <- B2 and B1 <- F2 <- F3 with   *)
(* F2 heavier than B2.  B1's t1 pays L1; B2's t3 spends t1:0 and pays L1   *)
(* back at index 0 (a change output); the F branch pays Other only.        *)
(***************************************************************************)
SpendForkBody ==
  [b \in SyncBlocks |->
     CASE b = "G"  -> <<Tx("g0", TRUE, <<>>, <<Other>>)>>
       [] b = "B1" -> <<Tx("c1", TRUE, <<>>, <<Other>>),
                        Tx("t1", FALSE, <<<<"g0", 0>>>>, <<L1>>)>>
       [] b = "B2" -> <<Tx("c2", TRUE, <<>>, <<Other>>),
                        Tx("t3", FALSE, <<<<"t1", 0>>>>, <<L1>>)>>
       [] b = "F2" -> <<Tx("f2", TRUE, <<>>, <<Other>>)>>
       [] b = "F3" -> <<Tx("f3", TRUE, <<>>, <<Other>>)>>]

MCLocks == {L1, L2}

UnitTests == INSTANCE WalletStoreTests WITH Script1 <- L1, Script2 <- L2

\* The unit tests of store.rs (lock_hash_index, get_live_cells,
\* get_transactions, sync_index_states) pass on the model: its insert,
\* update, remove, sync and query operators give what the tests assert.
UnitTestsHold ==
  /\ UnitTests!TestLockHashIndex
  /\ UnitTests!TestGetLiveCells
  /\ UnitTests!TestGetTransactions
  /\ UnitTests!TestSyncIndexStates
=============================================================================

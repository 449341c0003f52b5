--------------------------- MODULE WalletStoreTests ---------------------------
(***************************************************************************)
(* The unit tests of src/wallet/src/store.rs, replayed with the operators  *)
(* of WalletStore: each test's blocks, its sequence of calls on one        *)
(* database, and its assertions.  The tests call update and               *)
(* sync_index_states directly, one call after another, so each call is the *)
(* pure operator of the model applied to the database the previous call    *)
(* left.                                                                   *)
(*                                                                         *)
(* A CellOutput is its out point, so an assertion on the capacity of the   *)
(* output of tx11 is an assertion that the output is Output("tx11", 0).    *)
(* The byte order of the two script hashes is not known, so every          *)
(* assertion is checked under both orders.                                 *)
(***************************************************************************)
EXTENDS Naturals, Sequences, FiniteSets

CONSTANTS
  Script1,    \* script1.hash() (DAO_CODE_HASH script); DAO_CODE_HASH in lock_hash_index
  Script2,    \* script2.hash() (Script::default()); H256::zero() in lock_hash_index
  None, NoBlock, Deleted

Tx(h, ins, outs) == [hash |-> h, cellbase |-> FALSE, inputs |-> ins, outputs |-> outs]

(***************************************************************************)
(* The blocks of get_live_cells and get_transactions: block1..3 are built  *)
(* with numbers 1, 2 and 3; update reads only their numbers, which the     *)
(* parents below give them.  The genesis block is never attached.          *)
(***************************************************************************)
PageBlocks == {"G", "b1", "b2", "b3"}
PageParent == [b \in {"b1", "b2", "b3"} |->
                 CASE b = "b1" -> "G" [] b = "b2" -> "b1" [] b = "b3" -> "b2"]
PageBody ==
  [b \in PageBlocks |->
     CASE b = "G"  -> <<>>
       [] b = "b1" -> <<Tx("tx11", <<>>, <<Script1>>), Tx("tx12", <<>>, <<Script2>>)>>
       [] b = "b2" -> <<Tx("tx21", <<>>, <<Script1>>), Tx("tx22", <<>>, <<Script2>>)>>
       [] b = "b3" -> <<Tx("tx31", <<<<"tx11", 0>>>>, <<Script1>>),
                        Tx("tx32", <<<<"tx12", 0>>>>, <<Script2>>)>>]

(***************************************************************************)
(* The chain of sync_index_states: block1 (difficulty 1) and block2 (2) on *)
(* genesis, then block2_fork (20, no transactions) on block1 and block3   *)
(* (21) on block2_fork.                                                    *)
(***************************************************************************)
SyncTestBlocks == {"G", "b1", "b2", "b2f", "b3"}
SyncTestParent == [b \in {"b1", "b2", "b2f", "b3"} |->
                     CASE b = "b1" -> "G" [] b = "b2" -> "b1"
                       [] b = "b2f" -> "b1" [] b = "b3" -> "b2f"]
SyncTestDifficulty == [b \in SyncTestBlocks |->
                         CASE b = "b2" -> 2 [] b = "b2f" -> 20 [] b = "b3" -> 21
                           [] OTHER -> 1]
SyncTestBody ==
  [b \in SyncTestBlocks |->
     CASE b = "b3" -> PageBody["b3"] [] b = "b2f" -> <<>> [] OTHER -> PageBody[b]]

\* The store of each test's block tree; the tests use its operators only.
P == INSTANCE WalletStore
       WITH InitLocks <- {}, Locks <- {Script1, Script2}, RemovableLocks <- {},
            Blocks <- PageBlocks, Genesis <- "G", Parent <- PageParent,
            Difficulty <- [b \in PageBlocks |-> 1], Body <- PageBody,
            IndexFrom <- {None}, MaxCrashes <- 0, MaxCommitFailures <- 0,
            stored <- {"G"}, tip <- "G", chan <- <<>>, db <- {}, upd <- {}, rmv <- {},
            panicked <- FALSE, up <- TRUE, crashes <- 0, failures <- 0
S == INSTANCE WalletStore
       WITH InitLocks <- {}, Locks <- {Script1, Script2}, RemovableLocks <- {},
            Blocks <- SyncTestBlocks, Genesis <- "G", Parent <- SyncTestParent,
            Difficulty <- SyncTestDifficulty, Body <- SyncTestBody,
            IndexFrom <- {None}, MaxCrashes <- 0, MaxCommitFailures <- 0,
            stored <- {"G"}, tip <- "G", chan <- <<>>, db <- {}, upd <- {}, rmv <- {},
            panicked <- FALSE, up <- TRUE, crashes <- 0, failures <- 0

\* The two byte orders of the script hashes; tx hashes are never compared,
\* since no lock has two rows of one block.
Orders == {<<Script1, Script2>>, <<Script2, Script1>>}

NewDb == [c \in P!Cols |-> P!Empty]

\* lock_hash_index: two inserts give two index states, a remove leaves one.
TestLockHashIndex ==
  LET d0 == P!InsertDb(P!InsertDb(NewDb, Script1, None, "G"), Script2, None, "G")
      d1 == P!Commit(d0, P!RemoveBatch(d0, Script1))
  IN  /\ Cardinality(DOMAIN P!GetLockHashIndexStates(d0)) = 2
      /\ Cardinality(DOMAIN P!GetLockHashIndexStates(d1)) = 1

\* The databases of get_live_cells and get_transactions after each call:
\* update(&[], &[block1, block2]), update(&[block2], &[block3]), then
\* remove_lock_hash(script1).
PageChanges == <<[detached |-> <<>>, attached |-> <<"b1", "b2">>],
                 [detached |-> <<"b2">>, attached |-> <<"b3">>]>>
PageDbs ==
  LET d0 == P!InsertDb(P!InsertDb(NewDb, Script1, None, "G"), Script2, None, "G")
      upd[i \in 1..2] == P!UpdateDb(IF i = 1 THEN d0 ELSE upd[i - 1], PageChanges[i]).db
  IN  <<upd[1], upd[2], P!Commit(upd[2], P!RemoveBatch(upd[2], Script1))>>

(***************************************************************************)
(* The assertions of a test, one record per query: the database it reads   *)
(* (an index of the databases above), the lock hash, the length asserted,  *)
(* and the values asserted at some positions of the result (a capacity     *)
(* identifies its output).                                                 *)
(***************************************************************************)
\* get_live_cells: the live outputs of each script, oldest first, after
\* attaching block1 and block2, after replacing block2 by block3, and after
\* removing script1.
LiveCellsAsserts ==
  {[db |-> 1, lock |-> Script1, len |-> 2, outs |-> <<P!Output("tx11", 0), P!Output("tx21", 0)>>],
   [db |-> 1, lock |-> Script2, len |-> 2, outs |-> <<P!Output("tx12", 0), P!Output("tx22", 0)>>],
   [db |-> 2, lock |-> Script1, len |-> 1, outs |-> <<P!Output("tx31", 0)>>],
   [db |-> 2, lock |-> Script2, len |-> 1, outs |-> <<P!Output("tx32", 0)>>],
   [db |-> 3, lock |-> Script1, len |-> 0, outs |-> <<>>],
   [db |-> 3, lock |-> Script2, len |-> 1, outs |-> <<>>]}

TestGetLiveCells ==
  \A o \in Orders, a \in LiveCellsAsserts :
    LET page == P!GetLiveCells(PageDbs[a.db], a.lock, 0, 100, o)
    IN  /\ Len(page) = a.len
        /\ \A j \in DOMAIN a.outs : page[j].cell_output = a.outs[j]

\* The assertions on a get_transactions page: the creating tx hashes at
\* some positions, and the consuming tx hash at some positions.
TxAsserted(page, a) ==
  /\ Len(page) = a.len
  /\ \A j \in DOMAIN a.created : page[j].created_by[2] = a.created[j]
  /\ \A j \in DOMAIN a.consumed : page[j].consumed_by # None
                                 /\ page[j].consumed_by[2] = a.consumed[j]

\* get_transactions: creating transactions oldest first, and tx31 as the
\* consumer of tx11's output, at the same three points.
TransactionsAsserts ==
  {[db |-> 1, lock |-> Script1, len |-> 2, created |-> <<"tx11", "tx21">>, consumed |-> <<>>],
   [db |-> 1, lock |-> Script2, len |-> 2, created |-> <<"tx12", "tx22">>, consumed |-> <<>>],
   [db |-> 2, lock |-> Script1, len |-> 2, created |-> <<"tx11", "tx31">>, consumed |-> <<"tx31">>],
   [db |-> 2, lock |-> Script2, len |-> 2, created |-> <<"tx12", "tx32">>, consumed |-> <<>>],
   [db |-> 3, lock |-> Script1, len |-> 0, created |-> <<>>, consumed |-> <<>>],
   [db |-> 3, lock |-> Script2, len |-> 2, created |-> <<>>, consumed |-> <<>>]}

TestGetTransactions ==
  \A o \in Orders, a \in TransactionsAsserts :
    TxAsserted(P!GetTransactions(PageDbs[a.db], a.lock, 0, 100, o), a)

\* The databases of sync_index_states after each sync: the first with
\* block2 as the tip, the second with block3.
SyncTips == <<"b2", "b3">>
SyncDbs ==
  LET d0 == S!InsertDb(S!InsertDb([c \in S!Cols |-> S!Empty], Script1, None, "G"),
                       Script2, None, "G")
      sync[i \in 1..2] == S!Sync(IF i = 1 THEN d0 ELSE sync[i - 1], SyncTips[i]).db
  IN  [i \in 1..2 |-> sync[i]]

\* sync_index_states: after block1 and block2 reach the chain, a sync
\* indexes both; after the heavier block2_fork and block3, a sync detaches
\* block2 and attaches block2_fork and block3.
SyncAsserts ==
  {[db |-> 1, lock |-> Script1, len |-> 2, created |-> <<"tx11", "tx21">>, consumed |-> <<>>],
   [db |-> 1, lock |-> Script2, len |-> 2, created |-> <<"tx12", "tx22">>, consumed |-> <<>>],
   [db |-> 2, lock |-> Script1, len |-> 2, created |-> <<"tx11", "tx31">>, consumed |-> <<"tx31">>],
   [db |-> 2, lock |-> Script2, len |-> 2, created |-> <<"tx12", "tx32">>, consumed |-> <<>>]}

TestSyncIndexStates ==
  \A o \in Orders, a \in SyncAsserts :
    TxAsserted(S!GetTransactions(SyncDbs[a.db], a.lock, 0, 100, o), a)
=============================================================================

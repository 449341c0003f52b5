# TLA+ models of ckb-miner-opt

This directory holds TLA+ models of the read side of the CKB node in this
repository, and the TLC configurations that check them. The main subject is
the wallet lock-hash index (`src/wallet/src/store.rs`) and the chain it
follows. The second is the chain provider (`src/shared/src/shared.rs`),
whose reads race the chain service's writes.

## The system

| Part | Source | State | Operations |
|---|---|---|---|
| Chain store and tip | `src/shared/src/shared.rs`, chain service (not in this repository) | a tree of stored blocks; the canonical index (number -> hash); the shared `TipHeader` | receive a block and switch to it when its total difficulty is greater; publish a `TipChange {detached, attached}` to subscribers |
| Chain provider | `src/shared/src/shared.rs` | none of its own: reads the store and the `TipHeader` | `get_ancestor`, `block_hash`, `block_number`, `block_header` (short-cuts the tip), `union_proposal_ids_n`, `calculate_transaction_fee`, `calculate_difficulty`, `cell`, `cell_at` |
| Wallet lock-hash index | `src/wallet/src/store.rs` | four RocksDB columns: `LOCK_HASH_INDEX_STATE` (lock -> checkpoint), `LOCK_HASH_LIVE_CELL`, `LOCK_HASH_TRANSACTION`, `CELL_OUT_POINT_LOCK_HASH` | `insert_lock_hash`, `remove_lock_hash` (user calls); `update` (the subscriber thread, one `TipChange` at a time); `sync_index_states` (at start) |
| Column constants | `src/store/src/lib.rs`, `src/shared/src/lib.rs` | none | none |
| Configuration / CLI | `src/util/app-config/src/lib.rs` | none | argument and file parsing |

How the parts interact:
- The chain service stores a block, then moves the tip and the canonical
  index, and sends a `TipChange` on an in-memory channel.
- The wallet thread receives the notifications in FIFO order. For each one it
  reads the registered locks and builds one batch. The batch detaches the
  old branch newest first, then attaches the new branch oldest first, and
  moves every checkpoint to the last attached block. Then it commits the
  batch.
- Users call `insert_lock_hash` and `remove_lock_hash` concurrently with
  that thread. Insert holds the chain-state lock and replays canonical
  history for the new lock. Remove holds no lock. It drains a prefix
  iterator over the live column, then creates a second one over the
  transaction column, and commits one batch.
- After a restart, `sync_index_states` repairs the checkpoints that sit on
  a dead fork. It then brings every lock up to the tip, because the
  notifications queued before the restart are lost.

Hard behaviours in this code:
- update's read of the lock set, and of the out-point column, is stale when
  the batch commits;
- reads during batch building never see the batch itself (RocksDB), which
  the attach path works around with a batch buffer and the detach path does
  not;
- commits can fail and are only logged;
- a crash loses the channel;
- reorganisations are applied by two different code paths (update and sync).

Correctness, as the spec states it (§5, §7):
- a checkpoint `(n, h)` means the index holds every canonical block up to
  `h` and nothing beyond;
- the live-cell and transaction columns agree;
- the index trails the tip by at most one notification;
- difficulty stays within bounds;
- `get_ancestor` returns the ancestor at the requested number.

## Modules

- `ChainIndex.tla` is pure: a fixed tree of blocks given by `Parent` and
  `Difficulty`. It defines `Height`, `TotalDifficulty`, `Ancestry`,
  `BlockHash` (`Shared::block_hash`), `IsCanonical` (`Shared::block_number`
  is `Some`), `CanonicalRange` (the range loops of insert and sync), the
  fork choice `Heavier`, and `TipChange(old, new)`, the notification of a
  tip move: old-branch blocks newest first, new-branch blocks oldest first.
- `WalletStore.tla` is the wallet index with its environment.
  - Variables:
    - `stored` and `tip` model the chain.
    - `chan` is the notification channel.
    - `db` is the committed database: one partial function per column.
    - `upd` is the update thread: idle, or holding a built batch.
    - `panicked` records that the thread died on an `expect`.
    - `up` records that the process is running.
    - Two counters bound crashes and commit failures.
  - Data abstraction:
    - a cell output is its out point;
    - a checkpoint is a block, since number and hash always come from one
      header;
    - keys keep the code's layout (`<<lock, number, tx hash, index>>`) so
      that key collisions are real.
  - Batches are records of per-column partial functions, where the last
    write wins. `Commit` applies all columns at once.
  - `AttachOutputs`/`AttachInputs` and `DetachInputs`/`DetachOutputs`
    translate the two loops of `attach_block` and `detach_block`, including
    the batch buffer, the lookup in the committed column, the keys each loop
    builds, and the `expect("inconsistent state")`. `UpdateBatch`, `Sync`
    (with `SyncForkLock` for one forked lock's own batch) and `InsertDb` are
    the bodies of `update`, `sync_index_states` and `insert_lock_hash`.
  - Actions:
    - `ReceiveBlock` (chain service);
    - `UpdateBegin` (receive and build: the lock set and every read come
      from `db` at this step);
    - `UpdateCommit` and `UpdateCommitFail`;
    - `InsertLockHash` (one step, under the chain-state lock);
    - `RemoveScanLive` and `RemoveScanTx`: `remove_lock_hash` in two steps.
      The first scans the live column into the remover's batch `rmv`
      (`RemoveLiveBatch`). The second scans the transaction column as
      committed at that later moment (`RemoveTxBatch`) and commits. Any
      other writer may commit in between. The commits of insert and
      remove go through `CommitOrFail`, the user-call side of
      `commit_batch`: it commits, or, while `failures` is below its bound,
      it fails and leaves `db` unchanged. `insert_lock_hash` still returns
      the new checkpoint to its caller, and `remove_lock_hash` reports
      nothing (hazard `store.rs:155`);
    - `Crash`: the channel and the unfinished batches are lost and `db`
      survives;
    - `Start`: `sync_index_states`. A panic inside it aborts the start.
  - The read side: `GetLockHashIndexStates`, `GetLockHashCellOutput`, and
    the paged queries `GetLiveCells` and `GetTransactions`. `PrefixPage` is
    the iterator from the lock's prefix with `skip`, `take` and
    `take_while`. Keys are sorted by their bytes. The byte order of two
    hashes is a parameter `ord`: the hashes compared, in ascending order.
  - `UpdateDb` is `update` called directly on a database, as the unit tests
    do. `RemoveBatch` is the batch of `remove_lock_hash` when nothing commits
    between its two scans, as in the unit tests.
  - `FoldValues` is a left fold that passes each intermediate batch on as a
    value. `FoldLeft` passes it on as an expression. With coverage
    reporting on, TLC does not cache such an expression, so every read of
    the accumulator evaluated the earlier steps again.
  - `Abs` instantiates `LockIndex` with a refinement mapping: the
    registered locks' checkpoints are the `state` column, and the abstract
    rows are the `live` and `tx` columns.
  - The "Fault variant" operators are the mutants listed in `PROJECT.json`.
    The model never uses them.
- `LockIndex.tla` is the abstract index: what a reader of the committed
  database is promised (spec §4.5, the ordering guarantee of §5, and
  properties 5 and 6 of §7).
  - Every registered lock has a checkpoint block. The lock's live-cell
    and transaction rows are exactly those of the chain ending there
    (`ExpectedLive` and `ExpectedTx`). No unregistered lock has rows.
  - Steps: the chain grows (`Grow`); a lock is registered at the tip with
    its history (`Register`); a lock is dropped with its rows
    (`Unregister`); or some checkpoints move to other stored blocks
    (`Advance`). Each step conjoins `RowsFollow`, so the rows move in the
    same atomic step as the checkpoints.
  - `WalletStore` checks `LockIndexRefinement == Abs!Spec`: every commit
    of the implementation is a step of the abstract index.
- `WalletStoreTests.tla` replays the four unit tests of `store.rs`
  (`lock_hash_index`, `get_live_cells`, `get_transactions`,
  `sync_index_states`).
  - It holds their block trees and their calls on one database, each call
    being the model's operator applied to the database the previous call
    left.
  - Each assertion is a record: the database, the lock, the length, and
    the values asserted at some positions.
  - The byte order of the two script hashes is unknown, so every assertion
    is checked under both orders.
- `MCWalletStore.tla` defines three block trees with their transactions:
  - `Linear*` is a chain of four blocks covering: a spend inside one block,
    a spend of a cell created two batches earlier, outputs of unregistered
    locks, and a cellbase.
  - `Sync*` is the fork of the code's `sync_index_states` test: a light
    block B2 that only creates cells, orphaned by the heavier F2 <- F3.
  - `SpendForkBody` is the same tree, but the orphaned block spends a cell.

- `ChainProvider.tla` is the chain provider, `Shared`, with the chain
  service as its writer.
  - Variables:
    - `stored` is the block store.
    - `index` is the tip of the canonical number -> hash index.
    - `tipHeader` is the shared `TipHeader`.
    - `pending` is a block whose index is switched but whose `TipHeader` is
      not yet replaced. The writer's order follows the spec: store, then
      index, then `TipHeader`.
    - `rd` is one reader inside `get_ancestor`, with its program counter.
  - Actions:
    - `StoreBlock` and `PublishTip` (the writer);
    - `GetAncestor` and `CalculateDifficulty`. Each performs the first read
      (`block_number(base)`) and then waits at the next store read, which
      is `ReadTip` (the `number == block_number` short-cut to `TipHeader`)
      or `ReadIndex` (`block_hash(number)`). Other paths (parent walk,
      `None`) answer at once. A difficulty request finishes with
      `DifficultyOutcomes` on the answer.
    - `UnionProposalIdsN` and `CalculateTransactionFee` read immutable
      data, so each is one step.
    - `Cell` and `CellAt` model `cell` and `cell_at`. They read the
      `TransactionMeta` at the TipHeader's output root (`cell`, through
      `GetTransactionMeta`) or at the parent's (`cell_at`, through
      `OutputRoot` and `GetTransactionMetaAt`). `CellBegin` then answers
      `Unknown` or `Old` at once. An
      unspent output waits at `ReadTx`, which is `get_transaction` with its
      `expect("transaction must exist")`.
    - The transaction address column belongs to the chain service. It
      holds the canonical chain's transactions. The spec does not say
      whether it keeps those of a detached branch, so `AddressOutcomes`
      allows both outcomes, and the `expect` can panic.
  - Numbers:
    - `Capacity` is `CapacityBits` = 4 bits wide. `SumCapacities` gives the
      outcome of both build profiles: a release build wraps, and a debug
      build panics (`Panic`).
    - The u64 uncle difference in `calculate_difficulty` is likewise
      `Panic` or a wrapped value. The clamp makes the wrapped value
      `2 * last.difficulty`.
    - `(1.0 / orphan_rate_target) as u64` is the constant `OrphanRateInv`.
  - `AncestorSpec`, `DifficultySpec`, `UnionSpec` and `FeeSpec` are the
    spec's definitions (§4.4, §9). The properties compare the code's
    answers with them.
- `MCChainProvider.tla` defines two trees:
  - the side tree G <- A1 <- A2 <- A3 with a side branch S2 <- S3 on A1,
    where blocks carry uncles and proposals;
  - the reorg tree: the same chain and a heavy C1 with two uncles on G.
  It also defines four stored transactions with 4-bit capacities and the
  fee requests over them. On the side tree, `SideCells` gives the blocks
  transactions for the cell lookups: S2 double-spends the output that A2
  spends.

## Runs

| Run | Expect | What it shows |
|---|---|---|
| `wallet_linear` | pass | The index is exact whenever the thread is idle (`IdleIndexExact`: every checkpoint is the tip, and the live and transaction rows equal those computed from the canonical chain). The columns agree (`LiveMatchesTransactions`). The index eventually stays caught up (`EventuallyCaughtUp`). All this holds on a growing chain with inserts at any time and one restart. The repository's wallet unit tests give what they assert when replayed through the model's operators (`UnitTestsHold`). |
| `wallet_fork_sync` | pass | Locks are registered at genesis; a reorganisation reaches the index through update or through the restart's sync. The heavy branch includes the light block's `t21` again at the same height (`ReincludeBody`), so one batch deletes and rewrites the same keys, and its detach must come first. The committed database refines `LockIndex` (`LockIndexRefinement`): in every state each lock's rows are exactly those of the chain ending at its checkpoint, and every commit is one abstract step. Out-point rows survive the reorganisation's detach and attach (`IndexedCellsHaveOutPoint`). |
| `wallet_faults` | pass | Removes (two scans), inserts, updates, failed commits (of update's batch or of an insert's or a remove's) and a crash interleave. Every cell in a registered lock's transaction rows, spent or not, keeps the out-point row that names its lock and block (`IndexedCellsHaveOutPoint`). A later spend or detach looks the cell up by that row. |
| `wallet_remove_race` | violation | remove between update's lock read and its commit resurrects the lock with a partial index. |
| `wallet_commit_failure` | violation | after a failed commit of B1's batch, B2's batch moves every checkpoint to B2 while B1's cells are not indexed (`CheckpointBacksRows`: a checkpoint is backed by the rows of its chain, which the spec's StoreIO rule promises by replaying the window). |
| `wallet_reinsert_restart` | violation | re-inserting a lock while a reorganisation is queued, then restarting, leaves orphaned rows for good. |
| `wallet_detach_panic` | violation | detaching a spend of a cell indexed in an earlier batch panics. |
| `wallet_detach_restore` | violation | detaching a spend indexed in the same batch as the spent cell loses the cell. |
| `provider_reads` | pass | As blocks arrive, `calculate_difficulty` (`DifficultyAsSpecified`) and `calculate_transaction_fee` (`FeeAsSpecified`) give the spec's answer in every build profile. Every `union_proposal_ids_n` step returns exactly the proposals and uncle proposals of the window (`ProposalWindowExact`). `cell` and `cell_at` run alongside; no property is stated of them (see the hazards at `shared.rs:131` and `:153`). |
| `provider_get_ancestor` | violation | `get_ancestor(base, block_number(base))` returns the `TipHeader`, which is a different block while the `TipHeader` lags the index, and for any canonical base below the tip. |
| `provider_difficulty_reorg` | violation | a reorganisation inside `get_ancestor` hands `calculate_difficulty` a window start on another branch; the uncle difference underflows. |
| `provider_fee_overflow` | violation | an overflowing capacity sum wraps or panics instead of returning an error. |

The violations are explained in `PROJECT.json` under `findings`.

The refinement is checked only in `wallet_fork_sync`, where every lock is
registered at genesis. With inserts at any time, as in `wallet_linear`, it
fails. `insert_lock_hash` indexes up to the current tip, and the queued
notifications then move the new lock's checkpoint back below rows that are
already indexed. This is the finding at `store.rs:152`, and
`IdleIndexExact` shows that the index recovers once the queue drains.

## Bounds and why they are enough

- The block trees have four to six blocks. They contain every shape
  `attach_block` and `detach_block` distinguish:
  - an output of a registered or an unregistered lock;
  - a spend found in the batch buffer, in the committed column, or nowhere;
  - a cellbase;
  - the output at the same index as the input.
  They also contain every shape of notification: an extension, and a
  reorganisation with one block on each side.
- Two locks are enough to show one lock's operations interfering with the
  other's rows, and the lowest-checkpoint attach of sync.
- `MaxCrashes` is 1 or 2 and `MaxCommitFailures` is 0 or 1, and blocks arrive
  once each, so every run is finite.
- `IndexFrom = {0}` (`Some(0)`). `None` only skips the replay. Replaying from
  a middle block, and a removed lock inserted again with `None`, are left
  for later.
- `CHECK_DEADLOCK FALSE` is set where the system really stops: once every
  block has arrived and the thread has drained the channel, it waits
  forever.

- Chain provider:
  - The side tree reaches every path of `get_ancestor`: a canonical base
    below the tip, the tip itself, a base off the index, an unknown base,
    and a number above the base.
  - `Interval` = 2 puts retarget points at heights 1 and 3. The window
    G..A1 has no uncles, so the lower clamp applies. The window A1..A3
    (two uncles) exceeds `2 * difficulty`, so the upper clamp applies. The
    window A1..S3 (one uncle) gives the plain formula.
  - The windows `<<bn, n>>` cover `bn` in 0..4 and `n` in {0, 1, 2, 4}.
    This covers `n` of 0, `n` below, at and above `bn + 1`, and `bn` past
    the tip.
  - Capacities of 4 bits make overflow reachable with two inputs. The
    passing run's requests stay within range but include a missing input,
    outputs above inputs, an output index past the end, and an empty
    transaction.
  - `MinDifficulty` is 1, never above `2 * difficulty`. The clamp order
    matters only when it is above, which block verification rules out
    (hazard `shared.rs:413`).
  - The reader's requests are unbounded in number, but the state is
    finite, because a request leaves no trace once answered.

## Fairness

- The update thread is weakly fair: it runs whenever it has a notification
  or a batch (the `select!` loop blocks only on an empty channel).
- A stopped process restarts, unless `sync_index_states` panicked, which
  aborts the start.
- Users and the chain service get no fairness.
- The chain provider's runs check safety only, so they assume no fairness.
- For TLC's sake, `WF(UpdateBegin)` is written out with its enabling
  condition, which is equivalent because every `UpdateBegin` step consumes
  the channel head.

## Not modelled

- A crash inside `sync_index_states` between its batches: `Start` is one
  step. Every batch it commits leaves a consistent checkpoint, so a crash
  in between only repeats the work.
- The chain service's own code, which is not in this repository. Its
  behaviour (store a block, switch the tip when the block is heavier,
  notify) follows the spec, §4.3 and §5.
- The plain store delegations: each is one read of
  immutable data.
- Reward finalization (`finalize_block_reward`). Its implementation is
  not in this repository: `Shared` does not define it and only the test
  `src/chain/src/tests/reward.rs` calls it. A model could only be taken from
  spec §4.4.3, and checking it against formulas written for the model
  says nothing about the code.
- `(1.0 / orphan_rate_target) as u64` is not modelled as floating point.
  TLC has no IEEE doubles. The truncation is the constant `OrphanRateInv`,
  so the runs compare the code with the spec's formula at the truncated
  value. The spec itself prescribes `floor(1 / orphan_rate_target)`.
- `remove_lock_hash` leaves the `CELL_OUT_POINT_LOCK_HASH` rows of spent
  cells (hazard at `store.rs:165`). `IdleIndexExact` speaks of registered
  locks only. The converse of `IndexedCellsHaveOutPoint` (no out-point row
  names a registered lock without its transaction row) holds in
  `wallet_linear` and `wallet_fork_sync`. In `wallet_faults` it fails
  through the remove race that `wallet_remove_race` already shows: the
  update's commit re-registers the removed lock over its leftover rows. It
  is therefore not checked.
- `LiveMatchesTransactions` is not checked in `wallet_faults`. TLC
  violates it there in three steps (`RemoveScanLive`, `InsertLockHash`,
  `RemoveScanTx`). The insert commits live and transaction rows between
  remove's two scans. The second scan deletes the transaction rows and the
  checkpoint, and the new live rows stay behind (hazard `store.rs:172`).
  All twelve run slots already hold other findings, so it has no
  violation run of its own.
- Commit failures inside `sync_index_states`: `Start` commits its batches
  without failure.
- `TipHeader`'s accessors, the builders of `Shared`, the `ChainProvider`
  trait declaration and its one-line delegations in `shared.rs` have no
  behaviour beyond a read of immutable data.
- The column constants in `src/store/src/lib.rs` and
  `src/shared/src/lib.rs` declare numbers only.
- `src/util/app-config`, which is argument and file parsing only.

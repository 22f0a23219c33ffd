# Verification of gossip-rs

gossip-rs scans large key spaces (repositories, buckets, file trees) for secrets
with a fleet of workers. A coordinator cuts a run into shards of a key range;
workers lease shards, scan them, make findings and done rows durable, checkpoint
their progress, split the shards that are too large and finally complete or park
them. This directory holds TLA+ models of that system, TLC configurations that
check them on small instances, and TLAPS proofs for instances of every size.

Paths below are relative to `src/`; `coordination/` stands for
`crates/gossip-coordination/src/`, `etcd/` for
`crates/gossip-coordination-etcd/src/`, `contracts/` for
`crates/gossip-contracts/src/`, `runtime/` for
`crates/gossip-scanner-runtime/src/`, `git/` for `crates/scanner-git/src/`,
`scheduler/` for `crates/scanner-scheduler/src/scheduler/`.

## 1. Inventory

### The parts and how they interact

| Component | State it keeps | Operations | Modelled |
|---|---|---|---|
| Shard protocol (`coordination/in_memory.rs`, `record.rs`, `lease.rs`, `validation.rs`, `split_execution.rs`) | shard id → record (status, fence epoch, lease, cursor, range, lineage, bounded operation log) | acquire, renew, checkpoint, complete, park, split-replace, split-residual | yes |
| Run lifecycle and claiming (`in_memory.rs`, `run.rs`, `facade.rs`) | run record, per-worker claim cooldowns | create, register, complete, fail, cancel, claim-next, unpark; the workers' claim loop (`runtime/distributed/`) | yes |
| Split planning, shard specs, manifests (`contracts/coordination/`) | none (values) | plan at points, coverage and manifest validation | partly: the partition rules and the cut plans |
| Identity contracts (`contracts/identity/`) | none | ids, fence epochs, logical time | as constants and bounds |
| etcd backend (`etcd/`) | records, owner keys under etcd leases, claim index, tenant shard counter | the same operations as read–decide–commit loops | partly: without run creation, registration and garbage collection |
| Persistence contracts (`contracts/persistence/`) | page commits, done ledger, findings | findings, then ledger, then checkpoint; merge of ledger rows | partly: the order and the merge |
| In-memory persistence (`crates/gossip-persistence-inmemory`) | rows, pending batches | submit, complete in any order, fail, wait | partly: the done ledger |
| Scanner runtime (`runtime/`) | queues, cancellation token, uncertainty signal, checkpoint aggregator | the filesystem lease from claim to advance, in four threads | partly: the distributed filesystem lease |
| Git scanner and its persistence (`git/`, `runtime/git_persistence.rs`) | checkpoint base and prefix, staging, seen scope, watermark | stages of a scan, resume, finalize, submit, commit | partly: what the stages leave durable |
| Scheduler (`scheduler/`) | deques, injector, state word, parkers; permit budgets | spawn, steal, park, join, shutdown; acquire, split, release | partly: executor, count budget, resource pool |
| stdx containers (`crates/gossip-stdx`) | ring, indices | push, pop, batch pop, drop | partly: the single-producer queue |
| Worker session, events and errors, simulation harness, etcd codec and keyspace, Postgres persistence, frontier, connectors, orchestrator and worker processes, scan engine, command line | – | – | no (section 6) |

Workers reach the coordinator through three traits: `CoordinationBackend` (the
shard operations), `ShardClaiming` (scan for a claimable shard, then acquire it)
and `RunManagement` (an orchestrator's or an administrator's calls). All three
act on the same records; the shard operations never look at the run, while
unpark looks at both. The lease a worker was given is the only thing it presents
later: the coordinator judges it by its fence and owner, never by the deadline
the worker remembers.

The runtime sits between scanner and coordinator. For a file tree, a scan thread
submits items to a commit stage, which writes findings and the done row; a drain
thread turns its reports into a contiguous checkpoint; a watchdog gives the lease
up at its deadline; and the worker advances the shard only when all of them agree.
For a Git repository, one process walks the stages of a scan, leaving checkpoints
in the Git store, and hands findings and the done row to the sinks before it
commits the store's watermark.

### What is hard, and what makes each part correct

* **Leases and time.** A lease expires exactly at its deadline; workers may be
  slow, dead, or awake again long after they were overtaken. Correct: a worker
  whose lease has time left is still the record's holder (`LeaseCoherence`), no
  epoch is granted twice (`FencingOK`), the retry hint of an empty claim names
  the first tick at which a claim succeeds (`ClaimHintExact` in `RunSound`), and
  polling workers that follow such hints finish what dead ones left
  (`ClaimsSettle`).
* **Retries over a bounded log.** Answers get lost, callers retry with the same
  OpId; the log that recognises a retry forgets its oldest entries. Correct: the
  latest answer is replayed whatever became of the lease (`RetryIsReplayed`), and
  no structural operation executes twice, even after eviction (`StructuralOnce`).
* **Splits.** Plans are made from a remembered range; ids are derived from the
  length of a lineage that grows; a replace inserts its children one by one and may
  fail in the middle. Correct: every key stays in exactly one shard
  and cursors in their ranges (`RangesSound`), lineage is a tree from which
  replays recover the ids first returned (`LineageSound`).
* **Terminal states and reopening.** Finished work stays finished
  (`TerminalFrozen`), a run that has ended and has no Active shard never gets one
  again (`RunEndIsFinal`), and "all done", read in one call and acted on in
  another, stays true (`AllDoneIsFinal`).
* **Compare-and-swap over a network.** An operation's reads are old when it
  commits; its answer may be lost, its request may arrive after its caller gave
  up; the owner key vanishes on etcd's clock, the deadline passes on another.
  Correct: whatever etcd applies is a step of the fenced register
  (`ImplementsFenced`), a live owner is not thrown out (`LiveOwnerKept`), the keys
  beside a record agree with it (`OwnersSound`, `DerivedKeysExact`), and a run
  that ended is not reopened by a stale unpark (`EndedRunStaysShut`).
* **Crashes between durable writes.** Correct: nothing behind the cursor is
  without its row and findings (`NoItemSkipped`, `ImplementsDurableScan`); a Git
  checkpoint half written or half deleted does not make every later lease fail
  (`StoreSound`, `ShardSettles`), and the watermark never runs ahead
  (`WatermarkCovered`); that no secret is hidden from later scans
  (`NothingHidden`) does not hold: see Findings.
* **Out-of-order results and bounded queues.** Correct: checkpoints tile the
  units that reported (`AggSafe`), a pending one stays what the coordinator was
  told (`PendingHeld`), a full buffer does not block for ever
  (`EverythingCheckpointed`, as `AggregatorProgress`), and the threads of a lease all end (`LeaseEnds`).
* **A deadline racing the end of a lease.** A lease whose state is uncertain does
  not advance its shard (`UncertainNeverAdvances`), a shard is completed once
  (`CompletedOnce`), and a missing report always has a known cause
  (`GapsHaveACause`).
* **Atomics, parking and condition variables.** No lost wakeup (`JoinReturns`,
  `SpawnedRuns`), no task lost or run late (`ExecSafe`), no stranded waiter
  (`BudgetSafe`), all or nothing from the pool (`PoolSafe`), no race on a slot
  (`RingSafe`).
* **Rows that arrive repeated, late and in any order.** The row depends on the
  set of records only (`LedgerSafe`).

`hazards` in `PROJECT.json` lists these at the lines where they bite.

## 2. Modules

| Module | What it holds |
|---|---|
| `ShardRecords` | the record, and the pure checks every operation makes on it: lease validation, idempotency, cursor and split validation, limits, id derivation, and the record each operation leaves |
| `FencedShards` | abstract: a register per shard that changes only in the hands of the holder of the current epoch; no time, no leases |
| `ShardCoordination` | the shard protocol of one registered run on the in-memory backend; implements `FencedShards` |
| `RunManagement` | extends it with the run record, registration, ends, claims and unpark; implements `ShardCoordination` |
| `ClaimLoop` | the workers' loop around the coordinator: claim, sleep on a hint, work, advance, die; time goes on for ever |
| `EtcdCoordination` | the same protocol as etcd transactions; implements `FencedShards` |
| `PrefixCheckpoint`, `CheckpointAggregator` | the checkpoint aggregator as operations on a value, and in the hands of an arbitrary caller |
| `DurableScan` | abstract: findings, then done row, then cursor |
| `LeaseExecution` | the threads of filesystem leases over `PrefixCheckpoint`; implements `DurableScan` |
| `GitRepoScan` | a Git repository scanned under successive leases, with its durable state write by write |
| `FifoQueue`, `SpscQueue` | abstract: a bounded queue; the wait-free ring, which implements it |
| `Executor` | the work-stealing executor at the grain of its atomics |
| `CountBudget`, `GlobalResourcePool` | permit counting under a condition variable; the three-step acquisition |
| `LedgerMerge`, `DoneLedger` | the merge of two done-ledger records; the ledger its writers meet |
| `ShardRecordsProofs`, `ShardCoordinationProofs`, `RunManagementProofs`, `EtcdCoordinationProofs`, `LeaseExecutionProofs`, `DurabilityProofs`, `GitRepoScanProofs`, `ConcurrencyProofs` | the theorems (section 4) |
| `MC…` | instances for TLC; `MCStandalone` and `MCLoops` join components that do not interact: a behaviour picks one and runs it, so its states are their union; in `MCLoops` it runs under that component's fairness |

`map` in `PROJECT.json` names, for each definition, the lines it models.
Operators called *Mutation* in the modules are plausible mistakes, each defined
before the operator it would replace; no specification uses them. They show that
each property can be broken by a bug in the code. A property that is a conjunction
(`RangesSound`, `AggSafe`, …) has a mutation for every part.

### Correspondence with the code

**Shard protocol and runs**

* `InMemoryCoordinator` takes `&mut self`: an operation is one atomic action. A
  call that fails a check changes nothing (the code validates before it mutates), so
  it is a stutter. The exception is a replace that fails half way, when a derived id
  is taken or the slab, which all tenants share, is full: `SplitReplaceFails` takes
  the parent out, inserts any number of children, takes them out again and puts the
  parent back, as `with_removed_parent` and the rollback do. That this is the old
  map again is a lemma (`FailedSplitRestores`) and not the shape of the action; a
  rollback that misses a child breaks `RangesSound` and `LineageSound`. The
  action's guard is the conjunction of all the checks, in their order where the
  order shows in the answer (`LeaseOpOutcome`, `RunOpOutcome`,
  `UnparkShardOutcome`).
* `grants` collects every lease ever given, as its holder remembers it. Any of
  them may be presented at any later time with any OpId and any payload. That
  covers delayed, reordered, duplicated and retried requests, restarted workers and
  zombies. When a worker gives its lease up by an operation that executed, its
  memory of the lease gets deadline 0: it no longer claims to hold it, though it
  may still present it.
* Time is `now`, the argument of every call, and never runs backwards. Deadlines
  and cooldowns saturate at `MaxTime`, as the code's do at `u64::MAX`. A fence at
  `MaxFence` makes acquire and unpark panic before they write; in the model they
  are disabled.
* Keys are `1..K`; `NoKey` is the cursor before the first checkpoint. Byte strings
  matter to these properties only through their order. A manifest admits bounded
  ranges only and every split partitions one, so the "empty means unbounded"
  encoding never arises.
* Payload hashes are pairs of operation and payload: equal exactly when the hashed
  content is, up to a collision of the hash.
* `Derive` is a parameter. The assumption on it allows collisions between any two
  derivations but not a shard deriving its own id: the code takes the parent out of
  its map while it splits, so that case would not be seen as a collision there. In
  the instances, a child and a residual of the same operation and index collide.
* Split plans are all the cuts of all subranges of the key space: a plan may be
  stale. Children start afresh or the child that holds the parent's cursor inherits
  it, the two ways the planners fill in a cursor the coordinator does not check.
* `history` is not in the code. It is a bag of executed structural operations and
  only `StructuralOnce` and `FencedShards` read it.

**Claim loop**

* `claim_next_available` of a backend shared by several processes: one step for the
  scan, one for each `acquire` on a candidate, which may have gone by then; then
  `get_run_progress`, and a sleep until the hinted instant. The workers share no
  state but the shards.
* A shard is Active with the ticks that remain of its lease, or Done. A worker
  completes its shard, hands in a part and moves on with the lease still running, or
  finds its lease gone and ends, as `run_worker` does on any error. It may die at any
  moment. Workers of this loop neither park nor split (`park_shard_on_error` is
  compiled for tests only), so a claim that finds nothing always has a hint while
  shards are Active, and the fixed pause without one is never taken.

**etcd**

* An operation is `Start` (read and decide), then `Commit`, `Conflict` or `Fail`.
  The reads of one attempt are one step: each is compared by the transaction, so
  reads that disagree only make it fail. After a conflict `Retry` reads afresh but
  keeps the time the caller passed.
* `mod_revision` is not a number. A revision compare succeeds exactly when no put
  touched the key since it was read, so each outstanding transaction carries the
  set of keys it read that were written since.
* `Fail` is an error of the transaction call: etcd has applied it, or will later
  (`Deliver`), or never (`Drop`). `Expire` ends an etcd lease, and its owner key,
  at any moment. These are marked external.

**Filesystem lease**

* The scan thread, commit stage, drain thread and watchdog of a worker take steps
  of their own; sends and receives on the two bounded queues block as the channels
  do. An item stands for its key, its findings and its done row.
* The worker's clock and the coordinator's are unrelated: `WatchExpire` (the worker
  thinks so) and `Lapse` (the coordinator does) happen at any moment. A worker may
  crash at any step; one that was overtaken goes on writing.
* A persistence or enumeration call may fail, with or without having had its effect.

**Git**

* A batch of store operations is applied one write at a time when the backend has
  no atomic batches (`Atomic = FALSE`), and a lease may die in between; otherwise at
  once. A blob is a pack plan of its own; loose blobs come after the packs.
* `ledger` is the revisions that the repository's one done row was written for; the
  code keeps the row and overwrites it (its version is a fixed zero,
  `runtime/git_persistence.rs:1205-1212`). Only the diff-history mode is modelled.
* `ghost` is not in the code: it names the blobs that were scanned and those that
  were lost, by cause, and the properties say that there are no other causes.

**Scheduler, queue, ledger**

* One step per access to shared memory. In the ring an Acquire load returns any
  value the index has had since this thread last looked; in the executor every access sees
  the latest value (the code uses acquire and release on one state word and a flag;
  what weaker orderings between the two could add is not explored). Indices wrap at `Wrap`.
* Queues of tasks are sets: which task is taken first is a matter of locality.
* Provenance and error codes in the ledger are places in their order, which is all
  that the merge compares.

## 3. What the runs check

| Run | Instance | Shows |
|---|---|---|
| `shard_lease` | 2 workers, 2 keys, leases of 2 ticks in 4, 3 epochs, 3 OpIds, log of 2, 2 shards | leases stay exclusive at every tick around a deadline, no epoch is granted twice, retries are answered, terminal records are frozen, and the backend implements `FencedShards` |
| `shard_split` | 1 worker, 3 keys, up to 4 shards, lineage up to 3, log of 1, two- and three-way replaces after residuals | keys are partitioned, cursors in range, nothing structural repeated though every answer is forgotten at the next operation, lineage a tree, replays exact |
| `run_life` | 1 worker, 2 keys, 3 shards, 3 epochs, 2 ticks, cooldown 2, run log of 2 | the run record's invariants and replayed registration, exact hints, final ends, "all done" final; the run implements the shard protocol |
| `etcd_leases` | 2 concurrent calls, 2 workers, 2 OpIds, 1 key, 3 ticks, 3 epochs, 2 etcd leases, 1 lost transaction | every effect is a step of `FencedShards`; keys agree; live owners stay; ended runs stay shut |
| `etcd_split` | 2 concurrent calls, two attempts each, one root or two of two keys each, a limit of 3 shards | index and counter are exact and the limit holds while splits race over one shard or for the last free place |
| `lease_pipeline` | 1 worker, 3 items, queues of 1, 2 leases, 1 failing call | the threads implement `DurableScan`, uncertain leases do not advance, and the lease ends |
| `lease_takeover` | 2 workers, 1 item, 2 leases | overlapping leases, crashes: completed once, nothing skipped |
| `loops` | executor: 2 workers, 1 external producer, 2 tasks, shutdown and panic; aggregator: 5 units, buffer of 2, any kind, 3 keys, a malformed receipt; claims: 3 workers of which two may die, 2 shards, leases of 2 ticks, cooldown of 3, one partial checkpoint per shard | no task lost, no wakeup lost, join returns; durable checkpoints tile the units and everything is checkpointed in the end; every shard is finished and the last worker leaves |
| `standalone` | ring of 4 with indices mod 8 and 18 values; 3 units and 3 threads; 3 jobs; 11 ledger records of 2 keys in batches of 2 | the four components, one per behaviour |
| `git_scan` | 4 revisions (a loose-object push under an unchanged fingerprint, a force push, an undecodable blob), checkpoints every 2 plans, writes not atomic, 2 failed leases | checkpoints stay loadable, the watermark covers only what was seen, every lost finding has a known cause, the shard settles |
| `git_resume` | 1 revision, 2 blobs, 1 failed lease | violated: see Findings |
| `git_hidden` | 3 revisions with a loose blob, 1 failed lease, writes atomic | violated: see Findings |

**Why the bounds are enough.**
*Coordination.* Three epochs let a shard be acquired, overtaken or reopened, and
its former holder come back; a log of one entry evicts at every operation, the
worst case for retries, and a log of two distinguishes "oldest" from "all". Three
keys are the fewest for a three-way replace and for a residual of a residual; four
shards and a lineage of three put both limits in the middle of the reachable
splits. A run log of two holds exactly the two run operations that can succeed.
Three shards in `run_life` leave room for a replace under a run that ends.
*etcd.* All races here are between two outstanding transactions and one that is
lost; a third call only repeats one of the two roles. Two attempts distinguish the
first from a later one. In `etcd_split` no shard is parked and the run does not end, and in `etcd_leases`
calls do not retry, so that each stays within minutes; the claim index is checked in
both.
*Pipeline.* Three items and queues of one slot fill both queues while the third item
is in the scan thread's hand, so every thread blocks on every other somewhere; the
second lease meets what the first left. With two workers one item suffices for each
to hold it at a different stage.
*Aggregator.* A buffer of two with five units makes it overflow with and without
the gap filler.
*Executor.* Two workers and two tasks give one that parks while the other steals or
spawns; the hoard threshold of one makes both local and shared queues happen.
*Claim loop.* Three workers are the fewest in which one can be beaten to every
candidate while another dies holding a lease; a cooldown longer than a lease makes
`Throttled` and an expiry overlap. A longer lease or a further partial checkpoint only
repeats the round.
*Ring.* Eighteen values take the indices of a ring of four twice around a wrap at
eight. *Budget.* Three threads wanting one to three units are the fewest in which a
wakeup can go to the wrong one.
*Git.* Two failures let a lease fail while resuming from a failed one; the
checkpoint interval of two makes prefixes that cover some and not all plans.

Where a bound disables an action in one run (`Reason = {}` in `shard_split` and
`etcd_split`, `MaxLost = 0` and `MayEnd = FALSE` in `etcd_split`, `MaxFaults = 0` in `lease_takeover`),
another run has it enabled.

**Deadlock** is checked in the Git runs. Elsewhere the system may come to rest: all
shards done and time at its bound, the executor joined, no caller left.

**Fairness.** `loops` (executor) and `lease_pipeline`: weak fairness of each thread, which
the operating system's scheduler gives, with tasks and persistence calls that
return; nothing is assumed of park timeouts (the permits alone must wake whoever is
needed), of deadlines, of new claims or of faults. `loops` (aggregator): its caller goes on
delivering some receipt of each unit and preparing (weak), and does not discard
every prefix it prepares (strong fairness of acknowledgement, because a discard
disables it again); this is the loop of `drain_commit_stage`. `git_scan`: a claimed
shard is worked on and claimed again after a failure; pushes, new runs and failures
are not fair. `loops` (claims): time passes, a call on the coordinator returns within
a tick, and one worker, `Steady`, lives, is scheduled and ends its work before its
deadline; the others may stop at any step, holding a lease or not. Without one such
worker nothing could be promised: the coordinator does nothing on its own.

**Symmetry** permutes workers, OpIds, clients and etcd leases, which are model
values; derived ids are pairs of OpId and index, so they are permuted along. It is
used only with invariants, action properties and safety refinements.

### Findings

`git_resume`: `runtime/distributed/execution.rs:585-587` says that when a
persistence submit fails "the shard checkpoint is not advanced and the repo stays
reclaimable. On re-claim the repo is re-scanned", and lines 973-974 expect the same
of a failed commit: "The next lease re-scans the same blobs and re-emits findings."
The code resumes instead: the PreFinalize checkpoint is durable before the findings
are submitted, the next lease restores the scanned blobs from it, skips pack
execution, captures no findings, writes a clean done row and advances the watermark.
The findings sink never gets what the first lease found.

`git_hidden`: `git/persist.rs:29-31` promises that "ref tips never advance past
unscanned content". A checkpoint is accepted when the scan mode and the fingerprint of
packs and indexes match (`git/checkpoint.rs:632-663`), which says nothing of refs and
loose objects. In the run a lease fails after a checkpoint, a commit with a loose blob
arrives, and the next lease resumes, works off the stored plan, is complete, and moves
the watermark to the tips as they are now (`git/runner_exec.rs:322-343`), past the new
blob. With packs that differ in every revision the property fails another way:
`git/spiller.rs:488-490` says that staging "is discarded on the next store open — no
blobs are permanently hidden", but nothing discards it, so what a lease staged under a
plan that was then abandoned is folded into the seen scope by the next complete
finalize. `git_scan` shows that these are the only ways a blob is hidden:
`WatermarkCovered` and `StoreSound` hold for all blobs but those (`ghost.moved`,
`ghost.abandoned`).

Smaller disagreements met on the way, which no run states:

* `coordination/validation.rs:289`: the comment on eviction says that the log entry
  of a terminal operation is never evicted. For park it is, once unpark has made the
  shard Active again. Harmless by fencing: `StructuralOnce` holds because the park's
  lease is of a passed epoch.
* `coordination/in_memory.rs:1915`: "Idempotency is checked before status in every
  idempotent path". `unpark_shard` checks the run's status first, so a retried unpark
  gets `RunTerminal` once the run has ended.
* `coordination/traits.rs:239-244`: a worker that lost its answer may "simply call
  acquire again"; `in_memory.rs:1101` answers `AlreadyLeased` to the holder too,
  until its deadline.
* A partial finalize commits scanned blobs as seen although their findings were not
  submitted (`ghost.partial` in `LossesAccounted`).

## 4. What is proved

Every theorem is for all values of the constants that satisfy the named
assumptions of the modules, which TLC evaluates in the runs. Every property of the
passing runs that is not liveness is stated by one of them.

| Theorems in | establish | by the invariant |
|---|---|---|
| `ShardRecordsProofs` | lemmas: the bounded log, cuts of a range, partitions, what hiding a deadline commutes with | – |
| `ShardCoordinationProofs` | `TypeCorrect`, `LeasesCoherent`, `EpochsFence`, `TerminalRecordsFrozen`, `RangesStaySound`, `LineageStaysSound`, `RetriesReplayed`, `StructuralOpsOnce`, and the refinement `FencedRefinement` | `Inv`, `RangesInv`, `LineageInv`, `OnceInv` |
| `RunManagementProofs` | `RunStaysSound`, `AllDoneStaysDone`, `RunEndsAreFinal`, and the refinement `RunIsTheProtocol` | `RunInv` |
| `EtcdCoordinationProofs` | `EtcdOwnersSound`, `EtcdKeysExact`, `EtcdLiveOwners`, `EtcdEndedRunsShut`, and the refinement `EtcdFencedRefinement` | `EtcdInv` |
| `LeaseExecutionProofs` | `GapsAlwaysHaveACause`, `UncertainLeasesNeverAdvance`, `ShardsCompleteOnce`, `LeasesSkipNothing`, and the refinement `LeasesImplementDurableScan` | `LeaseInv` |
| `DurabilityProofs` | `CheckpointsAreSafe`, `PrefixesAreHeld`; `ScanSkipsNothing`; the merge of ledger records is a join (`MergeKeepsValid`, `MergeCommutes`, `MergeIdempotent`, `MergeAssociates`, `MergeNeverDowngrades`); `LedgerStaysSafe` | `AggInv`, `LedgerInv` |
| `GitRepoScanProofs` | `StoreStaysSound`, `WatermarkStaysCovered`, `LossesStayAccounted` | `GitInv` |
| `ConcurrencyProofs` | `ExecutorIsSafe`, `BudgetStaysSafe`, `PoolStaysSafe`, `RingStaysSafe`, and the refinement `RingIsFifo` | `ExecInv`, `BudgetInv`, `PoolInv`, `RingInv` |

Each invariant was checked by TLC on the run's instance before it was proved.
Why each is more than the property it is for:

* **Leases** (`Inv == TypeOK /\ FencingOK /\ LeaseCoherence`). `LeaseCoherence`
  alone is not inductive: when the holder renews or gives up its lease, that no
  *other* live lease names the same shard follows from two such leases having the
  record's epoch, and from no epoch being granted twice. The frame of each action
  is proved once for the three shapes of step there are: a record changed under a
  kept lease (`LeasesKept`), a record closed with its lease surrendered
  (`LeaseSurrendered`), one record replaced (`OneShardReplaced`).
* **Ranges** (`RangesInv`). The property counts owners of a key; the invariant says
  "at most one" and "some exactly when a root had it", which a split preserves shard
  by shard, and `RangesCounted` turns it back into the count.
* **Lineage and retries** (`LineageInv`). A replay recovers the ids of a split from
  the tail of a lineage that has grown since; `ReplayInv` says which position of the
  lineage stands for which entry of the log.
* **Once** (`OnceInv`). The log forgets, so `StructuralOnce` cannot rest on it: every
  structural operation leaves a `Trace` that is never evicted (a terminal status, a
  passed epoch, a child under the derived id), and an operation that executes finds
  no trace of itself.
* **Runs** (`RunInv == Inv /\ RunShape`). Registration is the first entry of a run's log
  and at most one end follows it; with `RunOpLogCap` at least 2 (the code has 8)
  nothing is ever evicted, which is why a replayed registration is exact.
* **etcd** (`EtcdInv`). A transaction was decided on old reads. `CallsOK` says what it
  is still worth: as long as no key it read was written, what it puts is what the
  operation computes from the records as they are now. So does a transaction that was
  lost and lands late. From that, each effect is a step of `FencedShards`.
* **Leases of a scan** (`LeaseInv`). Per worker, as long as there is no cause to throw
  its work away, what it submitted is one gap-free stream, divided between the drain
  thread, the outcome queue, the commit stage, the execution queue and the page
  (`StreamOK`). When the threads are joined all parts but the first are empty: that is
  `GapsHaveACause`, and with it `NoItemSkipped`.
* **Aggregator** (`AggInv`). `AggSafe` speaks of checkpoints already acknowledged; the
  invariant accounts for every receipt ever accepted: under a checkpoint and below the
  frontier, or in the buffer.
* **Git** (`GitInv`). A crash may fall between two writes, so the invariant lists the
  remainders of each batch (`WritingOK`) and says that the store is sound at each
  (`StoreOK`); `LeaseOK` says what the process knows of its own scan, so that its last
  write can be trusted. An atomic batch leaves what its operations leave one after the
  other (`AppliedFirst`), so both kinds of backend are covered by one argument. A
  consequence met on the way: what `load_resume_state` refuses never occurs
  (`NeverRefused`).
* **Executor** (`ExecInv`). A task under way is in exactly one of the places a task can
  be in (`Apart`), so that moving one keeps the number and taking one out lowers it by
  one; the state word is that number, and the done flag follows from it being zero once
  no one can spawn.
* **Budgets** (`BudgetInv`, `PoolInv`). Conservation is a sum over all permits or jobs.
  `SumFunction` is a recursive definition; the proofs replace it by the set of the units
  themselves, each with its owner (`Units`, `SumCounts`), whose cardinality is known when
  one owner changes (`SumChanges`). The invariant of the pool adds what a job holds at
  each step of `try_acquire` and of its rollback, which is why neither over-commits.
* **Ring** (`RingInv`). Indexes wrap and copies of them are stale, so nothing can be said
  of their order. The invariant speaks of distances: `Distance(head, tail)` is what was
  pushed and not yet taken, the producer's copy of the head is behind it by at most what
  keeps the whole within `N`, the consumer's copy of the tail lies between the two
  (`IndexesCount`); and the slots from the head on hold the values of their pushes
  (`ValuesIn`). That different places within one turn are different slots is arithmetic
  of remainders, and uses that `N` divides the modulus (the code: both are powers of 2).
* **Done ledger** (`LedgerInv`). `IsJoin` says field by field what the join of a set of
  records is. It determines the join, and the join of a union is the merge of the joins
  (`JoinsMerge`); so a batch folded up first (`ByKeyIsRow`) and then merged into the row
  gives the row of everything written (`RowAdds`), and a record that was written before
  changes nothing.

**Assumptions.** Sentinels (`NoWorker`, `NoShard`, `NoOwner`, `None`, …) are not among
the values they stand apart from; manifests are ones `register_shards` accepts
(`ManifestAssumption`, `EtcdManifestAssumption`); a shard does not derive its own id
(`DeriveAssumption`); the sequence numbers of a lease do not run out
(`LeaseAssumption`: the code's are 64 bits wide); a Git history is not empty, its blobs
finite in number and in an order (`GitAssumption`); there are finitely many tasks,
permits and jobs, any number of them (`ExecutorAssumption`, `BudgetAssumption`,
`PoolAssumption`); the modulus of the ring's indexes is a multiple of its capacity with
room for two turns (`CapacityAssumption`; the code: 2^32, and a power of 2 up to 2^30).
The other assumptions give constants their type.

**Refinements.** `FencedRefinement` and `EtcdFencedRefinement` show that the in-memory
and the etcd backend implement the same abstract register; `RunIsTheProtocol` carries
every theorem about the shard protocol over to a run; `LeasesImplementDurableScan` and
`ScanSkipsNothing` divide the argument about lost items into the order of writes, and
the threads that keep it; `RingIsFifo` lets a user of the ring think of a queue.

**Induction.** The library's induction rules cannot be instantiated by the installed
provers. Where numbers must be counted through, the proofs take the least
counterexample of a set of naturals (`LeastNumber`), which needs no rule with a
parameter. In the same way the two recursions the theorems need, the sum over a finite
set and the batch of the ledger folded up record by record, are shown to have the value
claimed at every size: a least size at which they had not would contradict its
predecessor (`SumCounts`, `ByKeyIsRow`).

**Only model-checked.** Liveness, with the fairness of section 3
(`EverythingCheckpointed`, `LeaseEnds`, `JoinReturns`, `SpawnedRuns`, `ShardSettles`,
`RunSettles`), is out of the prover's reach.

## 5. Plan

1. **Overlapping leases of one Git repository**, where an overtaken process still
   writes to the store.
2. **Garbage collection of ended runs** in the etcd backend, against late
   transactions; the timing wheel of stdx against a sorted reference.

## 6. Not modelled

Most of the repository's lines are outside what these models can say anything about,
so the mapped share of it is small and will stay so:

* the scan engine, pack and delta decoding, archive handling, tree diffs, the etcd
  codec and the frontier's key encodings manipulate bytes sequentially; the
  repository tests them against references and by property tests and fuzzing;
* the Postgres backends are SQL whose atomicity is the database's; their upsert is
  the merge of `LedgerMerge`;
* connectors, local and `io_uring` file scanning, worker and orchestrator processes,
  configuration and the command line are I/O and wiring;
* the worker session is a typestate around the shard protocol's calls; events and
  errors are data types; the simulation harness is a test tool, whose invariants S1
  to S9 are among the properties here;
* within modelled components: run creation, registration and garbage collection over
  etcd, the asynchronous twin of that backend, the findings store (rows without a
  merge), the local modes of the runtime, the object-database mode of the Git
  scanner;
* smaller omissions: the token of a checkpoint cursor (the aggregator drops it for
  ordered content); a `Steal::Retry` without a rival, which a weak compare-and-swap may
  give (`scheduler/executor.rs` covers it by the park timeout, `JoinReturns` does not);
  an executor thread that panics outside a task, in `scratch_init`;
* limits: `MaxChildren` stands for `MAX_SPLIT_CHILDREN` and for etcd's
  `max_children_per_op`, which refuse larger plans without effect; `MaxShards` is the
  tenant's limit, the only one etcd keeps, or the in-memory backend's global one if that
  is tighter.

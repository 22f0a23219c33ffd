---------------------------- MODULE ShardRecords ----------------------------
(***************************************************************************)
(* The shard record of gossip-coordination (record.rs, lease.rs) and the   *)
(* pure checks every backend runs on it before it mutates it               *)
(* (validation.rs, split_execution.rs, shard_spec.rs).                     *)
(*                                                                         *)
(* Keys are the integers 1..K in their lexicographic order; NoKey is the   *)
(* cursor that has made no progress.  A key range is half open, [lo, hi).  *)
(* The manifest of a run admits only bounded ranges and every split        *)
(* partitions one, so the "empty means unbounded" encoding never occurs.   *)
(* Payload hashes are abstracted to the pair <<operation, payload>>, which *)
(* they identify up to a hash collision.                                   *)
(***************************************************************************)
EXTENDS Integers, Sequences, FiniteSets

CONSTANTS
    Worker,           \* worker identities
    NoWorker,         \* "no lease holder"
    OpId,             \* client-chosen idempotency keys
    ShardId,          \* the id space of shards: 64-bit in the code
    NoShard,          \* "no parent"
    Derive(_, _, _, _), \* derive_split_shard_id(parent, op, kind, index)
    Reason,           \* park reasons
    NoReason,         \* "not parked"
    K,                \* the largest key
    LeaseDuration,    \* default_lease_duration
    MaxTime,          \* the largest logical time, u64::MAX
    MaxFence,         \* the largest fence epoch, u64::MAX
    OpLogCap,         \* ShardRecord::OP_LOG_CAP
    MaxSpawned,       \* MAX_SPAWNED_PER_SHARD
    MaxShards,        \* the tighter of max_shards_per_tenant and max_total_shards
    MaxChildren       \* MAX_SPLIT_CHILDREN

ASSUME SetsAssumption ==
    /\ NoWorker \notin Worker
    /\ NoShard \notin ShardId
    /\ NoReason \notin Reason
ASSUME BoundsAssumption ==
    /\ K \in Nat \ {0}
    /\ LeaseDuration \in Nat \ {0}
    /\ MaxTime \in Nat \ {0}
    /\ MaxFence \in Nat \ {0}
    /\ OpLogCap \in Nat \ {0}
    /\ MaxSpawned \in Nat
    /\ MaxShards \in Nat
    /\ MaxChildren \in Nat
\* A 64-bit digest: it may collide, but not with the parent it is taken of.
ASSUME DeriveAssumption ==
    \A s \in ShardId, op \in OpId, kind \in {"Child", "Residual"}, i \in 0..MaxSpawned :
        Derive(s, op, kind, i) \in ShardId \ {s}

NoKey == 0
Cursor == 0..K
Bound == 1..(K + 1)
Time == 1..MaxTime
Fence == 1..MaxFence
Status == {"Active", "Done", "Split", "Parked"}

\* A shard to be made, by a manifest (InitialShardInput) or a split-replace plan
\* (SplitReplaceChild): its range and the cursor it starts from.
Child == [lo : Bound, hi : Bound, cursor : Cursor]

\* A range alone, as in a split-residual plan.
KeyRange == [lo : Bound, hi : Bound]

\* OpLogEntry::payload_hash, tagged by the operation (hash_*_payload).
PayloadHash ==
    ({"Checkpoint", "Complete"} \X Cursor)
    \cup ({"Park"} \X Reason)
    \cup ({"SplitReplace"} \X Seq(Child))
    \cup ({"SplitResidual"} \X (KeyRange \X KeyRange))
    \cup ({"Unpark"} \X ShardId)

\* ShardStatus::is_terminal
IsTerminal(status) == status \in {"Done", "Split", "Parked"}

\* ShardRecord
Shard == [status : Status, fence : Fence, owner : Worker \cup {NoWorker},
          deadline : 0..MaxTime, cursor : Cursor, lo : Bound, hi : Bound,
          parent : ShardId \cup {NoShard}, spawned : Seq(ShardId),
          log : Seq([op : OpId, hash : PayloadHash]),
          reason : Reason \cup {NoReason}]

\* ShardRecord::assert_invariants INV-1 (a park reason exactly while parked),
\* INV-3 (a terminal shard holds no lease), INV-5 and INV-9 (the log is bounded,
\* its OpIds distinct), INV-10 (so is the lineage).
ShardOK(r) ==
    /\ r \in Shard
    /\ (r.status = "Parked") <=> (r.reason # NoReason)
    /\ IsTerminal(r.status) => r.owner = NoWorker
    /\ Len(r.log) <= OpLogCap
    /\ Len(r.spawned) <= MaxSpawned
    /\ \A i, j \in DOMAIN r.log : r.log[i].op = r.log[j].op => i = j

-----------------------------------------------------------------------------
(* The record and its lease                                                *)

\* Mutation: a split child is not linked to its parent.
NewShardOrphan(lo, hi, cursor, parent) ==
    [status |-> "Active", fence |-> 1, owner |-> NoWorker, deadline |-> 0,
     cursor |-> cursor, lo |-> lo, hi |-> hi, parent |-> NoShard,
     spawned |-> <<>>, log |-> <<>>, reason |-> NoReason]

\* ShardRecord::new_active_with_cursor and new_split_child: Active, unleased,
\* fence INITIAL = 1, nothing spawned, an empty operation log.
NewShard(lo, hi, cursor, parent) ==
    [status |-> "Active", fence |-> 1, owner |-> NoWorker, deadline |-> 0,
     cursor |-> cursor, lo |-> lo, hi |-> hi, parent |-> parent,
     spawned |-> <<>>, log |-> <<>>, reason |-> NoReason]

\* Mutations: a lease ends one tick early, or one tick late.
IsLeasedAtEarly(r, now) == r.owner # NoWorker /\ now + 1 < r.deadline
IsLeasedAtLate(r, now) == r.owner # NoWorker /\ now <= r.deadline

\* ShardRecord::is_leased_at: at its deadline a lease has expired.
IsLeasedAt(r, now) == r.owner # NoWorker /\ now < r.deadline

\* now + lease duration, saturating at the end of time.
Deadline(now) ==
    IF now + LeaseDuration > MaxTime THEN MaxTime ELSE now + LeaseDuration

\* Mutation: the fence is not compared.
ValidLeaseUnfenced(r, lease, now) ==
    /\ ~IsTerminal(r.status)
    /\ r.owner # NoWorker
    /\ now < r.deadline
    /\ r.owner = lease.owner

\* validate_lease.  The presented lease is judged by its fence and its owner
\* against the record; the deadline the worker remembers plays no part.
ValidLease(r, lease, now) ==
    /\ ~IsTerminal(r.status)
    /\ lease.fence = r.fence
    /\ r.owner # NoWorker
    /\ now < r.deadline
    /\ r.owner = lease.owner

\* lease = None
Released(r) == [r EXCEPT !.owner = NoWorker, !.deadline = 0]

-----------------------------------------------------------------------------
(* The bounded operation log                                               *)

OpLogEntries(r) == {r.log[i] : i \in DOMAIN r.log}

\* Mutation: nothing is ever evicted.
OpLogPushUnbounded(r, op, hash) ==
    [r EXCEPT !.log = Append(r.log, [op |-> op, hash |-> hash])]

\* ShardRecord::op_log_push: at capacity the oldest entry is overwritten.
OpLogPush(r, op, hash) ==
    LET e == [op |-> op, hash |-> hash]
    IN [r EXCEPT !.log = IF Len(r.log) < OpLogCap
                           THEN Append(r.log, e) ELSE Append(Tail(r.log), e)]

\* check_op_idempotency: a fresh operation, a retry of one in the log, or the
\* reuse of an OpId with another payload.
CheckOpIdempotency(r, op, hash) ==
    IF \A e \in OpLogEntries(r) : e.op # op THEN "Fresh"
    ELSE IF [op |-> op, hash |-> hash] \in OpLogEntries(r) THEN "Replayed"
    ELSE "OpIdConflict"

\* Mutation: the lease is checked before the log.
LeaseOpOutcomeLeaseFirst(r, lease, now, op, hash, valid) ==
    IF ~ValidLease(r, lease, now) THEN "LeaseRejected"
    ELSE IF CheckOpIdempotency(r, op, hash) # "Fresh" THEN CheckOpIdempotency(r, op, hash)
    ELSE IF ~valid THEN "Invalid"
    ELSE "Executed"

\* The order of the checks of a lease-gated operation: the operation log
\* first, then the lease, then what the operation itself demands (valid).
LeaseOpOutcome(r, lease, now, op, hash, valid) ==
    LET idempotency == CheckOpIdempotency(r, op, hash)
    IN IF idempotency # "Fresh" THEN idempotency
       ELSE IF ~ValidLease(r, lease, now) THEN "LeaseRejected"
       ELSE IF ~valid THEN "Invalid"
       ELSE "Executed"

-----------------------------------------------------------------------------
(* Cursors and splits                                                      *)

InRange(k, lo, hi) == lo <= k /\ k < hi

\* validate_cursor_update_pooled: a key, no regression, inside the range.
ValidCursorUpdate(r, k) ==
    /\ k # NoKey
    /\ k >= r.cursor
    /\ InRange(k, r.lo, r.hi)

\* validate_manifest: bounded, disjoint ranges and cursors inside them.  Gaps
\* between root shards are allowed.  The empty manifest is rejected.
ValidManifest(m) ==
    /\ DOMAIN m # {}
    /\ \A s \in DOMAIN m :
          /\ m[s].lo < m[s].hi
          /\ m[s].cursor # NoKey => InRange(m[s].cursor, m[s].lo, m[s].hi)
    /\ \A s, t \in DOMAIN m : s # t => m[s].hi <= m[t].lo \/ m[t].hi <= m[s].lo

\* Mutation: the end of the last child is not compared.
ValidSplitCoverageOpenEnd(lo, hi, children) ==
    /\ Len(children) >= 2
    /\ children[1].lo = lo
    /\ \A i \in 1..(Len(children) - 1) : children[i].hi = children[i + 1].lo
    /\ \A i \in 1..Len(children) : children[i].lo < children[i].hi

\* validate_split_coverage_bounds, on children in the order of their starts:
\* at least two, from the parent's start to its end, without gap or overlap.
ValidSplitCoverage(lo, hi, children) ==
    /\ Len(children) >= 2
    /\ children[1].lo = lo
    /\ children[Len(children)].hi = hi
    /\ \A i \in 1..(Len(children) - 1) : children[i].hi = children[i + 1].lo
    /\ \A i \in 1..Len(children) : children[i].lo < children[i].hi

\* can_spawn and check_shard_limits for n more shards beside count existing ones.
CanSpawn(r, n, count) ==
    /\ Len(r.spawned) + n <= MaxSpawned
    /\ count + n <= MaxShards

\* split_replace_validate_preconditions and the shard-count guard.
ValidSplitReplace(r, children, count) ==
    /\ ValidSplitCoverage(r.lo, r.hi, children)
    /\ CanSpawn(r, Len(children), count)

\* Mutation: the cursor may fall outside the part the parent keeps.
ValidSplitResidualAnyCursor(r, newParent, residual, count) ==
    /\ newParent.lo = r.lo
    /\ residual.hi = r.hi
    /\ ValidSplitCoverage(r.lo, r.hi, <<newParent, residual>>)
    /\ CanSpawn(r, 1, count)

\* split_residual_validate_preconditions after the lease check, and the
\* shard-count guard: the parent keeps the left part and its cursor with it.
ValidSplitResidual(r, newParent, residual, count) ==
    /\ newParent.lo = r.lo
    /\ residual.hi = r.hi
    /\ ValidSplitCoverage(r.lo, r.hi, <<newParent, residual>>)
    /\ r.cursor # NoKey => InRange(r.cursor, newParent.lo, newParent.hi)
    /\ CanSpawn(r, 1, count)

\* Mutation: the index does not start after the shards spawned before.
ChildIdsFromZero(s, r, op, n) == [i \in 1..n |-> Derive(s, op, "Child", i - 1)]

\* The ids of the n children a split-replace of shard s by op appends.
ChildIds(s, r, op, n) ==
    [i \in 1..n |-> Derive(s, op, "Child", Len(r.spawned) + i - 1)]

\* split_replace_replay_child_ids: the children were the last n spawned.
ReplayChildIds(s, r, op, n) ==
    [i \in 1..n |-> Derive(s, op, "Child", Len(r.spawned) - n + i - 1)]

\* Mutation: the index of a spawned shard is off by one.
ReplayedResidualsOffByOne(s, r, op) ==
    {i \in DOMAIN r.spawned : r.spawned[i] = Derive(s, op, "Residual", i)}

\* find_replayed_residual: spawned[i] was derived with index i, so a residual
\* of op is found even after its log entry was evicted.
ReplayedResiduals(s, r, op) ==
    {i \in DOMAIN r.spawned : r.spawned[i] = Derive(s, op, "Residual", i - 1)}

-----------------------------------------------------------------------------
(* What each operation of a lease holder writes.  A request is the pair    *)
(* <<operation, payload>> that its payload hash stands for.  Puts gives    *)
(* the records written: the shard's own and those of the shards it makes.  *)

\* checkpoint
AfterCheckpoint(r, op, k) == OpLogPush([r EXCEPT !.cursor = k], op, <<"Checkpoint", k>>)

\* complete
AfterComplete(r, op, k) ==
    OpLogPush(Released([r EXCEPT !.cursor = k, !.status = "Done"]), op, <<"Complete", k>>)

\* park_shard
AfterPark(r, op, reason) ==
    OpLogPush(Released([r EXCEPT !.status = "Parked", !.reason = reason]), op, <<"Park", reason>>)

\* unpark_shard: the next epoch, so that no earlier lease is valid again.
AfterUnpark(s, r, op) ==
    OpLogPush(Released([r EXCEPT !.fence = r.fence + 1, !.reason = NoReason, !.status = "Active"]),
              op, <<"Unpark", s>>)

\* split_replace_apply_parent and new_split_child
SplitReplacePuts(s, r, op, children) ==
    LET n == Len(children)
        ids == ChildIds(s, r, op, n)
    IN [x \in {s} \cup {ids[i] : i \in 1..n} |->
          IF x = s
            THEN OpLogPush(Released([r EXCEPT !.spawned = r.spawned \o ids, !.status = "Split"]),
                           op, <<"SplitReplace", children>>)
            ELSE LET c == children[CHOOSE i \in 1..n : ids[i] = x]
                 IN NewShard(c.lo, c.hi, c.cursor, s)]

\* split_residual_apply_parent and split_residual_build_record
SplitResidualPuts(s, r, op, newParent, residual) ==
    LET id == Derive(s, op, "Residual", Len(r.spawned))
    IN [x \in {s, id} |->
          IF x = s
            THEN OpLogPush([r EXCEPT !.lo = newParent.lo, !.hi = newParent.hi,
                                     !.spawned = Append(r.spawned, id)],
                           op, <<"SplitResidual", <<newParent, residual>>>>)
            ELSE NewShard(residual.lo, residual.hi, NoKey, s)]

Puts(s, r, op, req) ==
    CASE req[1] = "Checkpoint"    -> [x \in {s} |-> AfterCheckpoint(r, op, req[2])]
      [] req[1] = "Complete"      -> [x \in {s} |-> AfterComplete(r, op, req[2])]
      [] req[1] = "Park"          -> [x \in {s} |-> AfterPark(r, op, req[2])]
      [] req[1] = "SplitReplace"  -> SplitReplacePuts(s, r, op, req[2])
      [] req[1] = "SplitResidual" -> SplitResidualPuts(s, r, op, req[2][1], req[2][2])

\* What an operation demands of the record once its lease is accepted, count
\* being the number of shards there are.
Permitted(r, req, count) ==
    CASE req[1] \in {"Checkpoint", "Complete"} -> ValidCursorUpdate(r, req[2])
      [] req[1] = "Park"          -> TRUE
      [] req[1] = "SplitReplace"  -> ValidSplitReplace(r, req[2], count)
      [] req[1] = "SplitResidual" -> ValidSplitResidual(r, req[2][1], req[2][2], count)

\* Whether the log, or the lineage for a residual, knows the operation already.
IsFresh(s, r, op, req) ==
    /\ CheckOpIdempotency(r, op, req) = "Fresh"
    /\ req[1] = "SplitResidual" => ReplayedResiduals(s, r, op) = {}

\* The ids a request derives are distinct.
DistinctIds(s, r, op, req) ==
    req[1] = "SplitReplace" =>
        LET n == Len(req[2])
        IN Cardinality({ChildIds(s, r, op, n)[i] : i \in 1..n}) = n

\* The partitions of some range into 2..n parts, as their n + 1 boundaries.  The
\* planners (plan_split_replace_at_points, plan_split_residual_at_point) build
\* a plan from the range the caller remembers, which a split it forgot, or
\* another worker's, may have shrunk since.
Cuts(n) ==
    {p \in UNION {[1..(m + 1) -> Bound] : m \in 2..n} :
        \A i \in 1..(Len(p) - 1) : p[i] < p[i + 1]}

\* The children between the boundaries of cut: they start afresh, or the one
\* that holds the parent's cursor inherits it (cursor_for_child).  A child's
\* cursor is passed through unchecked: by the contract of SplitReplaceChild
\* ("Cursor Passthrough") the caller answers for it, and both of these planners'
\* choices keep it inside the child.
PlannedChildren(cut, cursor, inherit) ==
    [i \in 1..(Len(cut) - 1) |->
        [lo |-> cut[i], hi |-> cut[i + 1],
         cursor |-> IF inherit /\ InRange(cursor, cut[i], cut[i + 1])
                      THEN cursor ELSE NoKey]]

\* What a worker may ask for: any payload, or a plan cut at any points from the
\* cursor it remembers.
LeaseRequests ==
    ({"Checkpoint", "Complete"} \X Cursor)
    \cup ({"Park"} \X Reason)
    \cup {<<"SplitReplace", PlannedChildren(cut, cursor, inherit)>> :
             cut \in Cuts(MaxChildren), cursor \in Cursor, inherit \in BOOLEAN}
    \cup {<<"SplitResidual", <<[lo |-> cut[1], hi |-> cut[2]], [lo |-> cut[2], hi |-> cut[3]]>>>> :
             cut \in Cuts(2)}
=============================================================================

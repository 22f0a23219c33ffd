-------------------------- MODULE ShardCoordination --------------------------
(***************************************************************************)
(* The shard protocol of one run (trait CoordinationBackend) as its        *)
(* reference backend, in_memory.rs, implements it: every operation is one  *)
(* atomic call.                                                            *)
(*                                                                         *)
(* Callers are workers, zombies included.  A lease, once granted, may be   *)
(* presented at any later time, any number of times, with any operation    *)
(* id and any payload: requests may be delayed, reordered, retried after   *)
(* a lost answer, or issued by a worker that was fenced out long ago.      *)
(* An operation that fails a check changes nothing, so that is a stutter;  *)
(* a split that fails half way has to undo what it did (SplitReplaceFails).*)
(***************************************************************************)
EXTENDS ShardRecords, Bags

CONSTANT Manifest     \* root shard id -> its key range and first cursor

ASSUME ManifestAssumption ==
    /\ DOMAIN Manifest \subseteq ShardId
    /\ \A s \in DOMAIN Manifest : Manifest[s] \in Child
    /\ ValidManifest(Manifest)

VARIABLES
    now,      \* logical time, passed to every operation
    shards,   \* shard id -> record
    grants,   \* every lease a worker was ever given, as that worker knows it
    history   \* bag of the structural operations executed (not in the code)

vars == <<now, shards, grants, history>>

Lease == [shard : ShardId, owner : Worker, fence : Fence, deadline : 0..MaxTime]

\* The records register_shards makes of a manifest.
RootShards(m) == [s \in DOMAIN m |-> NewShard(m[s].lo, m[s].hi, m[s].cursor, NoShard)]

Init ==
    /\ now = 1
    /\ shards = RootShards(Manifest)
    /\ grants = {}
    /\ history = EmptyBag

-----------------------------------------------------------------------------

\* A worker that gave its lease up with an operation of its own remembers so.
Surrender(lease) == (grants \ {lease}) \cup {[lease EXCEPT !.deadline = 0]}

Record(kind, s, op, fence) ==
    history' = history (+) SetToBag({[kind |-> kind, shard |-> s, op |-> op, fence |-> fence]})

\* Time passes.
Tick ==
    /\ now < MaxTime
    /\ now' = now + 1
    /\ UNCHANGED <<shards, grants, history>>

\* Mutation: an acquire keeps the fence epoch.
AcquireSameFence(w, s) ==
    LET r == shards[s]
        d == Deadline(now)
    IN /\ r.status = "Active"
       /\ ~IsLeasedAt(r, now)
       /\ shards' = [shards EXCEPT ![s] = [r EXCEPT !.owner = w, !.deadline = d]]
       /\ grants' = grants \cup
                        {[shard |-> s, owner |-> w, fence |-> r.fence, deadline |-> d]}
       /\ UNCHANGED <<now, history>>

\* acquire_and_restore_into: an Active shard without a live lease gets the
\* next fence epoch and a new holder.  FenceEpoch::increment panics at its
\* maximum, before anything is written.
Acquire(w, s) ==
    LET r == shards[s]
        d == Deadline(now)
    IN /\ r.status = "Active"
       /\ ~IsLeasedAt(r, now)
       /\ r.fence < MaxFence
       /\ shards' = [shards EXCEPT ![s] =
                        [r EXCEPT !.fence = r.fence + 1, !.owner = w, !.deadline = d]]
       /\ grants' = grants \cup
                        {[shard |-> s, owner |-> w, fence |-> r.fence + 1, deadline |-> d]}
       /\ UNCHANGED <<now, history>>

\* renew: not idempotent by OpId; a valid lease gets a fresh deadline.
Renew(lease) ==
    LET s == lease.shard
        d == Deadline(now)
    IN /\ ValidLease(shards[s], lease, now)
       /\ shards' = [shards EXCEPT ![s] =
                        [shards[s] EXCEPT !.owner = lease.owner, !.deadline = d]]
       /\ grants' = (grants \ {lease}) \cup {[lease EXCEPT !.deadline = d]}
       /\ UNCHANGED <<now, history>>

Checkpoint(lease, op, k) ==
    LET s == lease.shard
        r == shards[s]
        hash == <<"Checkpoint", k>>
    IN /\ LeaseOpOutcome(r, lease, now, op, hash, ValidCursorUpdate(r, k)) = "Executed"
       /\ shards' = [shards EXCEPT ![s] = OpLogPush([r EXCEPT !.cursor = k], op, hash)]
       /\ UNCHANGED <<now, grants, history>>

Complete(lease, op, k) ==
    LET s == lease.shard
        r == shards[s]
        hash == <<"Complete", k>>
    IN /\ LeaseOpOutcome(r, lease, now, op, hash, ValidCursorUpdate(r, k)) = "Executed"
       /\ shards' = [shards EXCEPT ![s] =
                        OpLogPush(Released([r EXCEPT !.cursor = k, !.status = "Done"]), op, hash)]
       /\ grants' = Surrender(lease)
       /\ Record("Complete", s, op, lease.fence)
       /\ UNCHANGED now

Park(lease, op, reason) ==
    LET s == lease.shard
        r == shards[s]
        hash == <<"Park", reason>>
    IN /\ LeaseOpOutcome(r, lease, now, op, hash, TRUE) = "Executed"
       /\ shards' = [shards EXCEPT ![s] =
                        OpLogPush(Released([r EXCEPT !.status = "Parked", !.reason = reason]),
                                  op, hash)]
       /\ grants' = Surrender(lease)
       /\ Record("Park", s, op, lease.fence)
       /\ UNCHANGED now

\* split_replace: the children enter the map and the run's index, the parent
\* becomes Split.
SplitReplace(lease, op, children) ==
    LET s == lease.shard
        r == shards[s]
        hash == <<"SplitReplace", children>>
        n == Len(children)
        ids == ChildIds(s, r, op, n)
        new == {ids[i] : i \in 1..n}
    IN /\ LeaseOpOutcome(r, lease, now, op, hash,
              ValidSplitReplace(r, children, Cardinality(DOMAIN shards))) = "Executed"
       /\ \A i \in 1..n : ids[i] \notin DOMAIN shards
       /\ \A i, j \in 1..n : i # j => ids[i] # ids[j]
       /\ shards' = [x \in DOMAIN shards \cup new |->
             IF x \in new
               THEN LET c == children[CHOOSE i \in 1..n : ids[i] = x]
                    IN NewShard(c.lo, c.hi, c.cursor, s)
             ELSE IF x = s
               THEN OpLogPush(Released([r EXCEPT !.spawned = r.spawned \o ids,
                                                 !.status = "Split"]), op, hash)
             ELSE shards[x]]
       /\ grants' = Surrender(lease)
       /\ Record("SplitReplace", s, op, lease.fence)
       /\ UNCHANGED now

\* split_replace_insert_children, after m children: the parent is out of the map
\* (with_removed_parent), the children built so far are in it.
Staged(s, ids, children, m) ==
    LET new == {ids[i] : i \in 1..m}
    IN [x \in (DOMAIN shards \ {s}) \cup new |->
          IF x \in new
            THEN LET c == children[CHOOSE i \in 1..m : ids[i] = x]
                 IN NewShard(c.lo, c.hi, c.cursor, s)
          ELSE shards[x]]

\* Mutation: the child built last is not in the list that is rolled back.
RollBackAllButLast(staged, ids, m) ==
    [x \in DOMAIN staged \ {ids[i] : i \in 1..(m - 1)} |-> staged[x]]

\* split_replace_rollback_inserted_children
RollBack(staged, ids, m) == [x \in DOMAIN staged \ {ids[i] : i \in 1..m} |-> staged[x]]

\* split_replace gives up after m children: the next id is taken
\* (DerivedIdCollision), or the slab, which all tenants share, has no room for
\* the next child or for the parent's list of them.  The children are taken out
\* again and the parent is put back.
SplitReplaceFails(lease, op, children) ==
    LET s == lease.shard
        r == shards[s]
        hash == <<"SplitReplace", children>>
        ids == ChildIds(s, r, op, Len(children))
    IN /\ LeaseOpOutcome(r, lease, now, op, hash,
              ValidSplitReplace(r, children, Cardinality(DOMAIN shards))) = "Executed"
       /\ \E m \in 0..Len(children) :
             /\ \A i \in 1..m : ids[i] \notin DOMAIN shards
             /\ \A i, j \in 1..m : i # j => ids[i] # ids[j]
             /\ LET kept == RollBack(Staged(s, ids, children, m), ids, m)
                IN shards' = [x \in DOMAIN kept \cup {s} |-> IF x = s THEN r ELSE kept[x]]
       /\ UNCHANGED <<now, grants, history>>

\* split_residual: the parent keeps its lease, its cursor and the left part
\* of its range; the residual starts afresh on the right part.  A retry is
\* recognised in the log or, after eviction, in the parent's lineage.
SplitResidual(lease, op, newParent, residual) ==
    LET s == lease.shard
        r == shards[s]
        hash == <<"SplitResidual", <<newParent, residual>>>>
        id == Derive(s, op, "Residual", Len(r.spawned))
    IN /\ ReplayedResiduals(s, r, op) = {}
       /\ LeaseOpOutcome(r, lease, now, op, hash,
              ValidSplitResidual(r, newParent, residual, Cardinality(DOMAIN shards))) = "Executed"
       /\ id \notin DOMAIN shards
       /\ shards' = [x \in DOMAIN shards \cup {id} |->
             IF x = id THEN NewShard(residual.lo, residual.hi, NoKey, s)
             ELSE IF x = s
               THEN OpLogPush([r EXCEPT !.lo = newParent.lo, !.hi = newParent.hi,
                                        !.spawned = Append(r.spawned, id)], op, hash)
             ELSE shards[x]]
       /\ Record("SplitResidual", s, op, lease.fence)
       /\ UNCHANGED <<now, grants>>

\* Mutation: any terminal shard is reopened.
UnparkOutcomeAnyTerminal(s, op) ==
    LET idempotency == CheckOpIdempotency(shards[s], op, <<"Unpark", s>>)
    IN IF idempotency # "Fresh" THEN idempotency
       ELSE IF ~IsTerminal(shards[s].status) THEN "NotParked"
       ELSE "Executed"

\* What unpark_shard answers once the run is known not to be terminal.
UnparkOutcome(s, op) ==
    LET idempotency == CheckOpIdempotency(shards[s], op, <<"Unpark", s>>)
    IN IF idempotency # "Fresh" THEN idempotency
       ELSE IF shards[s].status # "Parked" THEN "NotParked"
       ELSE "Executed"

\* unpark_shard, an administrator's call: the fence moves first, so that no
\* lease granted before the park can touch the shard again.
Unpark(s, op) ==
    LET r == shards[s]
    IN /\ UnparkOutcome(s, op) = "Executed"
       /\ r.fence < MaxFence
       /\ shards' = [shards EXCEPT ![s] =
                        OpLogPush(Released([r EXCEPT !.fence = r.fence + 1, !.reason = NoReason,
                                                     !.status = "Active"]), op, <<"Unpark", s>>)]
       /\ Record("Unpark", s, op, r.fence)
       /\ UNCHANGED <<now, grants>>

-----------------------------------------------------------------------------

LeaseOp(lease, op) ==
    \/ \E k \in Cursor : Checkpoint(lease, op, k)
    \/ \E k \in Cursor : Complete(lease, op, k)
    \/ \E reason \in Reason : Park(lease, op, reason)
    \/ \E cut \in Cuts(MaxChildren), inherit \in BOOLEAN :
          SplitReplace(lease, op, PlannedChildren(cut, shards[lease.shard].cursor, inherit))
    \/ \E cut \in Cuts(MaxChildren), inherit \in BOOLEAN :
          SplitReplaceFails(lease, op, PlannedChildren(cut, shards[lease.shard].cursor, inherit))
    \/ \E cut \in Cuts(2) :
          SplitResidual(lease, op, [lo |-> cut[1], hi |-> cut[2]], [lo |-> cut[2], hi |-> cut[3]])

Next ==
    \/ Tick
    \/ \E w \in Worker, s \in DOMAIN shards : Acquire(w, s)
    \/ \E lease \in grants : Renew(lease)
    \/ \E lease \in grants, op \in OpId : LeaseOp(lease, op)
    \/ \E s \in DOMAIN shards, op \in OpId : Unpark(s, op)

Spec == Init /\ [][Next]_vars

-----------------------------------------------------------------------------
(* Properties                                                              *)

\* Every variable has its type, and every record meets the invariants that the
\* code asserts after each mutation (assert_invariants).
TypeOK ==
    /\ now \in Time
    /\ DOMAIN shards \subseteq ShardId
    /\ grants \subseteq Lease
    /\ \A s \in DOMAIN shards : ShardOK(shards[s])

\* Fencing: every lease ever granted names a known shard and an epoch the shard
\* has reached, and no epoch was granted twice.
FencingOK ==
    /\ \A g \in grants : g.shard \in DOMAIN shards /\ g.fence <= shards[g.shard].fence
    /\ \A g, h \in grants : g.shard = h.shard /\ g.fence = h.fence => g = h

\* While a worker's lease has time left by the worker's own reckoning, and it
\* has not given the lease up, the record still names that worker, that fence
\* and that deadline: no other worker is let in (acquire_and_restore_into), a
\* live holder is never fenced out from under its work, and so no two workers
\* hold the shard at once.
LeaseCoherence ==
    \A lease \in grants :
        now < lease.deadline =>
            LET r == shards[lease.shard]
            IN /\ r.status = "Active"
               /\ r.fence = lease.fence
               /\ r.owner = lease.owner
               /\ r.deadline = lease.deadline

\* However a run's shards are split, retried and parked, every key of the
\* manifest belongs to exactly one shard that is not retired by a split: no
\* split loses keys or gives them to two workers (split_replace,
\* split_residual, validate_split_coverage_bounds).
Coverage ==
    \A k \in 1..K :
        LET owners == {s \in DOMAIN shards :
                          shards[s].status # "Split" /\ InRange(k, shards[s].lo, shards[s].hi)}
            rooted == \E s \in DOMAIN Manifest : InRange(k, Manifest[s].lo, Manifest[s].hi)
        IN Cardinality(owners) = IF rooted THEN 1 ELSE 0

\* A cursor that has made progress lies in its shard's range, whatever splits
\* shrank the range since (split_residual_validate_cursor_bounds).
CursorInRange ==
    \A s \in DOMAIN shards :
        shards[s].cursor # NoKey => InRange(shards[s].cursor, shards[s].lo, shards[s].hi)

\* The key ranges of a run stay sound however often shards are cut: nothing of
\* the key space is lost or worked on twice (split_replace, split_residual), and
\* no cursor lies outside its own shard (validate_cursor_update_pooled).
RangesSound == Coverage /\ CursorInRange

\* A retry never repeats a structural operation, not even after its entry was
\* evicted from the bounded log: one OpId completes, replaces or carves a shard
\* at most once ever, and parks it at most once per lease (record.rs,
\* op_log_lookup: "Eviction failure mode").
StructuralOnce ==
    \A e, f \in BagToSet(history) :
        /\ e.kind # "Unpark" => history[e] = 1
        /\ (e.kind \in {"Complete", "SplitReplace", "SplitResidual"}
             /\ f.kind = e.kind /\ f.shard = e.shard /\ f.op = e.op) => f = e

\* Lineage is a tree: a shard's spawned ids are distinct, exist and name it
\* as their parent, and each derived shard is in its parent's list.
Lineage ==
    \A s \in DOMAIN shards :
        LET r == shards[s]
        IN /\ \A i, j \in DOMAIN r.spawned : r.spawned[i] = r.spawned[j] => i = j
           /\ \A i \in DOMAIN r.spawned :
                 r.spawned[i] \in DOMAIN shards /\ shards[r.spawned[i]].parent = s
           /\ r.parent # NoShard =>
                 /\ r.parent \in DOMAIN shards
                 /\ \E i \in DOMAIN shards[r.parent].spawned : shards[r.parent].spawned[i] = s

\* A replayed split finds the shards it made: split_residual_check_replay and
\* split_replace_replay_child_ids never meet their "state corruption" panics,
\* and name the ids the first execution returned.
ReplayFindsChildren ==
    \A s \in DOMAIN shards :
        LET r == shards[s]
        IN \A e \in OpLogEntries(r) :
              /\ e.hash[1] = "SplitResidual" => ReplayedResiduals(s, r, e.op) # {}
              /\ e.hash[1] = "SplitReplace" =>
                    LET n == Len(e.hash[2])
                    IN /\ Len(r.spawned) >= n
                       /\ ReplayChildIds(s, r, e.op, n)
                            = SubSeq(r.spawned, Len(r.spawned) - n + 1, Len(r.spawned))

\* The records of a split keep telling who came from whom, from the children up
\* (new_split_child) and, for a retried split, from the parent down
\* (find_replayed_residual, split_replace_replay_child_ids).
LineageSound == Lineage /\ ReplayFindsChildren

\* The latest operation on a shard is answered from the log when it is
\* retried, whatever became of the lease or the shard in between
\* (check_op_idempotency: "Call ordering").
RetryIsReplayed ==
    \A lease \in grants :
        LET r == shards[lease.shard]
        IN r.log # <<>> =>
              LET e == r.log[Len(r.log)]
              IN LeaseOpOutcome(r, lease, now, e.op, e.hash, FALSE) = "Replayed"

\* A step of the whole map of records: nothing is removed, Done and Split
\* records stay as they are, a Parked one is at most reopened, and no cursor
\* moves back.
FrozenStep ==
    \A s \in DOMAIN shards :
        /\ s \in DOMAIN shards'
        /\ shards[s].status \in {"Done", "Split"} => shards'[s] = shards[s]
        /\ shards[s].status = "Parked" /\ shards'[s] # shards[s] =>
              shards'[s].status = "Active" /\ shards'[s].fence > shards[s].fence
        /\ shards'[s].cursor >= shards[s].cursor

\* Done and Split records are frozen, log and lineage included; a Parked one
\* changes only by being reopened under a higher fence (assert_transition_legal,
\* unpark_shard).  No record is ever removed, and no cursor moves back, whoever
\* calls with whichever old lease.
TerminalFrozen == [][FrozenStep]_vars

Fenced == INSTANCE FencedShards WITH
    Roots <- Manifest,
    records <- [s \in DOMAIN shards |-> [shards[s] EXCEPT !.deadline = 0]],
    effects <- history

\* The records of the in-memory backend change only as FencedShards allows, at
\* whatever times it is called: takeovers under the next epoch, every effect
\* in the hands of the holder and under the epoch the record names, although
\* the lease the caller presents is all that the operations compare.
ImplementsFenced == Fenced!FencedSpec
=============================================================================

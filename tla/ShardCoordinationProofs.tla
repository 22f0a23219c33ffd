---------------------- MODULE ShardCoordinationProofs ----------------------
(***************************************************************************)
(* Machine-checked proofs about ShardCoordination, for every number of     *)
(* workers, shards, keys, operation ids, ticks and epochs: types, fencing  *)
(* and coherence of leases; then what splits, retries and the bounded log  *)
(* do to the records as a whole (key ranges, lineage, replays, once-only   *)
(* effects) and the implementation of FencedShards.                        *)
(***************************************************************************)
EXTENDS ShardCoordination, ShardRecordsProofs

-----------------------------------------------------------------------------
(* The inductive invariant                                                 *)

\* LeaseCoherence is not inductive alone: that two live leases of a shard are
\* the same one follows from no epoch being granted twice (FencingOK).
Inv == TypeOK /\ FencingOK /\ LeaseCoherence

\* A step that keeps every lease and, on the shards there were, all that a
\* lease is judged by, keeps the leases coherent.
LEMMA LeasesKept ==
    ASSUME Inv, UNCHANGED <<now, grants>>,
           \A s \in DOMAIN shards :
              /\ s \in DOMAIN shards'
              /\ shards'[s].fence = shards[s].fence
              /\ shards'[s].status = shards[s].status
              /\ shards'[s].owner = shards[s].owner
              /\ shards'[s].deadline = shards[s].deadline
    PROVE  FencingOK' /\ LeaseCoherence'
BY DEF Inv, FencingOK, LeaseCoherence

\* A step by which the valid lease is given up and its shard keeps its epoch.
LEMMA LeaseSurrendered ==
    ASSUME Inv, NEW lease \in grants, ValidLease(shards[lease.shard], lease, now),
           now' = now, grants' = Surrender(lease),
           \A s \in DOMAIN shards :
              /\ s \in DOMAIN shards'
              /\ shards'[s].fence = shards[s].fence
              /\ s # lease.shard => shards'[s] = shards[s]
    PROVE  FencingOK' /\ LeaseCoherence' /\ grants' \subseteq Lease
<1> DEFINE gone == [lease EXCEPT !.deadline = 0]
<1>1. lease \in Lease /\ gone \in Lease
  BY BoundsAssumption DEF Inv, TypeOK, Lease
<1>2. gone.shard = lease.shard /\ gone.fence = lease.fence /\ gone.deadline = 0
  BY <1>1 DEF Lease
<1> HIDE DEF gone
<1>3. grants' = (grants \ {lease}) \cup {gone}
  BY DEF Surrender, gone
<1>4. FencingOK'
  BY <1>1, <1>2, <1>3 DEF Inv, FencingOK
<1>5. LeaseCoherence'
  <2> SUFFICES ASSUME NEW g \in grants', now < g.deadline
               PROVE  LET r == shards'[g.shard]
                      IN /\ r.status = "Active" /\ r.fence = g.fence
                         /\ r.owner = g.owner /\ r.deadline = g.deadline
    BY DEF LeaseCoherence
  <2>1. g \in grants /\ g # lease
    BY <1>2, <1>3 DEF Inv, TypeOK, Time
  <2>2. g.shard # lease.shard
    BY <2>1 DEF Inv, FencingOK, LeaseCoherence, ValidLease
  <2> QED BY <2>1, <2>2 DEF Inv, FencingOK, LeaseCoherence
<1> QED BY <1>1, <1>3, <1>4, <1>5 DEF Inv, TypeOK

-----------------------------------------------------------------------------
(* Each action preserves the invariant                                     *)

\* The shards stay well formed when one of them is replaced by a good record.
LEMMA OneShardReplaced ==
    ASSUME Inv, NEW s \in DOMAIN shards, NEW q, ShardOK(q),
           shards' = [shards EXCEPT ![s] = q]
    PROVE  /\ DOMAIN shards' = DOMAIN shards
           /\ shards'[s] = q
           /\ \A x \in DOMAIN shards : x # s => shards'[x] = shards[x]
           /\ \A x \in DOMAIN shards' : ShardOK(shards'[x])
           /\ DOMAIN shards' \subseteq ShardId
BY DEF Inv, TypeOK

\* Time may pass: a lease only runs out.
LEMMA TickInv == Inv /\ Tick => Inv'
<1> SUFFICES ASSUME Inv, Tick PROVE Inv'
  OBVIOUS
<1>1. TypeOK'
  <2>1. now' \in Time
    BY BoundsAssumption DEF Inv, TypeOK, Tick, Time
  <2> QED BY <2>1 DEF Inv, TypeOK, Tick
<1>2. FencingOK'
  BY DEF Inv, FencingOK, Tick
<1>3. LeaseCoherence'
  BY DEF Inv, TypeOK, Time, Lease, LeaseCoherence, Tick
<1> QED BY <1>1, <1>2, <1>3 DEF Inv

\* An acquire finds no live lease on its shard, and its epoch is new.
LEMMA AcquireInv ==
    ASSUME Inv, NEW w \in Worker, NEW s \in DOMAIN shards, Acquire(w, s)
    PROVE  Inv'
<1> DEFINE r == shards[s]
           d == Deadline(now)
           q == [r EXCEPT !.fence = r.fence + 1, !.owner = w, !.deadline = d]
           new == [shard |-> s, owner |-> w, fence |-> r.fence + 1, deadline |-> d]
<1>1. /\ ShardOK(r) /\ r \in Shard /\ s \in ShardId /\ now \in Time
      /\ r.fence \in Fence /\ r.fence + 1 \in Fence /\ d \in 0..MaxTime /\ r.status = "Active"
  <2>1. ShardOK(r) /\ s \in ShardId /\ now \in Time
    BY DEF Inv, TypeOK
  <2>2. r \in Shard /\ r.fence \in Fence
    BY <2>1 DEF ShardOK, Shard
  <2>3. r.fence + 1 \in Fence /\ r.status = "Active"
    BY <2>2, BoundsAssumption DEF Fence, Acquire
  <2> QED BY <2>1, <2>2, <2>3, DeadlineType
<1>2. /\ q \in Shard /\ q.status = "Active" /\ q.log = r.log /\ q.spawned = r.spawned
      /\ q.reason = r.reason /\ q.fence = r.fence + 1 /\ q.owner = w /\ q.deadline = d
  BY <1>1, ShardFields
<1>3. ShardOK(q)
  BY <1>1, <1>2 DEF ShardOK, IsTerminal
<1>4. /\ shards' = [shards EXCEPT ![s] = q] /\ grants' = grants \cup {new}
      /\ now' = now /\ ~IsLeasedAt(r, now)
  BY DEF Acquire
<1>5. /\ new \in Lease /\ new.shard = s /\ new.fence = r.fence + 1
      /\ new.owner = w /\ new.deadline = d
  BY <1>1 DEF Lease
<1> HIDE DEF q, new, d
<1>6. /\ DOMAIN shards' = DOMAIN shards /\ shards'[s] = q
      /\ \A x \in DOMAIN shards : x # s => shards'[x] = shards[x]
  BY <1>3, <1>4, OneShardReplaced
<1>7. TypeOK'
  BY <1>1, <1>3, <1>4, <1>5, OneShardReplaced DEF Inv, TypeOK
<1>8. \A g \in grants : g.shard = s => g.fence \in Fence /\ g.fence <= r.fence
  BY DEF Inv, TypeOK, FencingOK, Lease
<1>9. FencingOK'
  <2>1. \A g \in grants' : g.shard \in DOMAIN shards' /\ g.fence <= shards'[g.shard].fence
    BY <1>1, <1>2, <1>4, <1>5, <1>6, <1>8 DEF Inv, FencingOK, Fence
  <2>2. \A g, h \in grants' : g.shard = h.shard /\ g.fence = h.fence => g = h
    BY <1>1, <1>4, <1>5, <1>8 DEF Inv, FencingOK, Fence
  <2> QED BY <2>1, <2>2 DEF FencingOK
<1>10. \A g \in grants : g.shard = s => ~(now < g.deadline)
  BY <1>1, <1>4, SetsAssumption DEF Inv, TypeOK, Lease, LeaseCoherence, IsLeasedAt
<1>11. LeaseCoherence'
  BY <1>2, <1>4, <1>5, <1>6, <1>10 DEF Inv, FencingOK, LeaseCoherence
<1> QED BY <1>7, <1>9, <1>11 DEF Inv

\* What a lease that was granted says of its shard's record.
LEMMA GrantedShard ==
    ASSUME Inv, NEW lease \in grants
    PROVE  /\ lease \in Lease /\ now \in Time
           /\ lease.shard \in DOMAIN shards /\ lease.shard \in ShardId
           /\ ShardOK(shards[lease.shard]) /\ shards[lease.shard] \in Shard
BY DEF Inv, TypeOK, FencingOK, ShardOK

\* A renewal moves the deadline in the record and in the holder's memory.
LEMMA RenewInv ==
    ASSUME Inv, NEW lease \in grants, Renew(lease)
    PROVE  Inv'
<1> DEFINE s == lease.shard
           r == shards[s]
           d == Deadline(now)
           q == [r EXCEPT !.owner = lease.owner, !.deadline = d]
           new == [lease EXCEPT !.deadline = d]
<1>1. /\ lease \in Lease /\ s \in DOMAIN shards /\ ShardOK(r) /\ r \in Shard
      /\ now \in Time /\ d \in 0..MaxTime
  BY GrantedShard, DeadlineType
<1>2. ValidLease(r, lease, now) /\ r.owner = lease.owner /\ r.fence = lease.fence
      /\ r.status = "Active" /\ lease.owner \in Worker
  BY <1>1 DEF Renew, ValidLease, Lease, ShardOK, Shard, Status, IsTerminal
<1>3. /\ q \in Shard /\ q.status = r.status /\ q.log = r.log /\ q.spawned = r.spawned
      /\ q.reason = r.reason /\ q.fence = r.fence /\ q.owner = lease.owner /\ q.deadline = d
  BY <1>1, <1>2, ShardFields
<1>4. ShardOK(q)
  BY <1>1, <1>2, <1>3 DEF ShardOK, IsTerminal
<1>5. /\ new \in Lease /\ new.shard = s /\ new.fence = lease.fence
      /\ new.owner = lease.owner /\ new.deadline = d
  BY <1>1 DEF Lease
<1>6. /\ shards' = [shards EXCEPT ![s] = q] /\ grants' = (grants \ {lease}) \cup {new}
      /\ now' = now
  BY DEF Renew
<1> HIDE DEF q, new, d
<1>7. /\ DOMAIN shards' = DOMAIN shards /\ shards'[s] = q
      /\ \A x \in DOMAIN shards : x # s => shards'[x] = shards[x]
  BY <1>1, <1>4, <1>6, OneShardReplaced
<1>8. TypeOK'
  BY <1>1, <1>4, <1>5, <1>6, OneShardReplaced DEF Inv, TypeOK
<1>9. FencingOK'
  BY <1>2, <1>3, <1>5, <1>6, <1>7 DEF Inv, FencingOK
<1>10. \A g \in grants \ {lease} : now < g.deadline => g.shard # s
  BY <1>2 DEF Inv, FencingOK, LeaseCoherence
<1>11. LeaseCoherence'
  BY <1>2, <1>3, <1>5, <1>6, <1>7, <1>10 DEF Inv, FencingOK, LeaseCoherence
<1> QED BY <1>8, <1>9, <1>11 DEF Inv

\* A checkpoint leaves the lease alone.
LEMMA CheckpointInv ==
    ASSUME Inv, NEW lease \in grants, NEW op \in OpId, NEW k \in Cursor,
           Checkpoint(lease, op, k)
    PROVE  Inv'
<1> DEFINE s == lease.shard
           r == shards[s]
           hash == <<"Checkpoint", k>>
           moved == [r EXCEPT !.cursor = k]
           q == OpLogPush(moved, op, hash)
<1>1. s \in DOMAIN shards /\ ShardOK(r) /\ r \in Shard
  BY GrantedShard
<1>2. CheckOpIdempotency(r, op, hash) = "Fresh"
  BY ExecutedMeans DEF Checkpoint, ValidCursorUpdate
<1>3. /\ moved \in Shard /\ moved.status = r.status /\ moved.log = r.log
      /\ moved.spawned = r.spawned /\ moved.reason = r.reason /\ moved.fence = r.fence
      /\ moved.owner = r.owner /\ moved.deadline = r.deadline
  BY <1>1, ShardFields
<1>4. ShardOK(moved) /\ hash \in PayloadHash
  BY <1>1, <1>3 DEF ShardOK, PayloadHash
<1>5. shards' = [shards EXCEPT ![s] = q] /\ UNCHANGED <<now, grants>>
  BY DEF Checkpoint
<1> HIDE DEF moved
<1>6. /\ ShardOK(q) /\ q.fence = r.fence /\ q.status = r.status
      /\ q.owner = r.owner /\ q.deadline = r.deadline
  BY <1>2, <1>3, <1>4, OpLogPushOK
<1> HIDE DEF q
<1>7. TypeOK'
  BY <1>1, <1>5, <1>6, OneShardReplaced DEF Inv, TypeOK
<1>8. FencingOK' /\ LeaseCoherence'
  BY <1>1, <1>5, <1>6, OneShardReplaced, LeasesKept
<1> QED BY <1>7, <1>8 DEF Inv

\* Complete and Park: the record leaves Active, its lease is given up.
LEMMA ClosingInv ==
    ASSUME Inv, NEW lease \in grants, NEW op \in OpId, NEW hash \in PayloadHash,
           ValidLease(shards[lease.shard], lease, now),
           CheckOpIdempotency(shards[lease.shard], op, hash) = "Fresh",
           NEW closed \in Shard,
           closed.log = shards[lease.shard].log,
           closed.fence = shards[lease.shard].fence,
           closed.spawned = shards[lease.shard].spawned,
           (closed.status = "Parked") <=> (closed.reason # NoReason),
           shards' = [shards EXCEPT ![lease.shard] = OpLogPush(Released(closed), op, hash)],
           grants' = Surrender(lease), now' = now
    PROVE  Inv'
<1> DEFINE s == lease.shard
           r == shards[s]
           free == Released(closed)
           q == OpLogPush(free, op, hash)
<1>1. s \in DOMAIN shards /\ ShardOK(r)
  BY GrantedShard
<1>2. ShardOK(free) /\ free.log = r.log /\ free.fence = r.fence
  <2>1. Len(closed.spawned) <= MaxSpawned
    BY <1>1 DEF ShardOK
  <2> QED BY <1>1, <2>1, ReleasedOK
<1> HIDE DEF free
<1>3. ShardOK(q) /\ q.fence = r.fence
  BY <1>2, OpLogPushOK
<1>4. shards' = [shards EXCEPT ![s] = q]
  BY DEF free
<1> HIDE DEF q
<1>5. /\ FencingOK' /\ LeaseCoherence' /\ grants' \subseteq Lease
  BY <1>1, <1>3, <1>4, OneShardReplaced, LeaseSurrendered
<1>6. TypeOK'
  BY <1>1, <1>3, <1>4, <1>5, OneShardReplaced DEF Inv, TypeOK
<1> QED BY <1>5, <1>6 DEF Inv

\* complete closes the record as Done.
LEMMA CompleteInv ==
    ASSUME Inv, NEW lease \in grants, NEW op \in OpId, NEW k \in Cursor,
           Complete(lease, op, k)
    PROVE  Inv'
<1> DEFINE r == shards[lease.shard]
           hash == <<"Complete", k>>
           closed == [r EXCEPT !.cursor = k, !.status = "Done"]
<1>1. r \in Shard /\ ShardOK(r) /\ hash \in PayloadHash
  BY GrantedShard DEF PayloadHash
<1>2. CheckOpIdempotency(r, op, hash) = "Fresh" /\ ValidLease(r, lease, now)
  BY ExecutedMeans DEF Complete, ValidCursorUpdate
<1>3. /\ closed \in Shard /\ closed.log = r.log /\ closed.fence = r.fence
      /\ closed.spawned = r.spawned /\ closed.status = "Done" /\ closed.reason = r.reason
  BY <1>1, ShardFields DEF Status
<1>4. r.reason = NoReason
  BY <1>1, <1>2 DEF ShardOK, ValidLease, IsTerminal
<1>5. /\ shards' = [shards EXCEPT ![lease.shard] = OpLogPush(Released(closed), op, hash)]
      /\ grants' = Surrender(lease) /\ now' = now
  BY DEF Complete
<1> HIDE DEF closed, hash
<1> QED BY <1>1, <1>2, <1>3, <1>4, <1>5, ClosingInv

\* park_shard closes the record as Parked, with a reason.
LEMMA ParkInv ==
    ASSUME Inv, NEW lease \in grants, NEW op \in OpId, NEW reason \in Reason,
           Park(lease, op, reason)
    PROVE  Inv'
<1> DEFINE r == shards[lease.shard]
           hash == <<"Park", reason>>
           closed == [r EXCEPT !.status = "Parked", !.reason = reason]
<1>1. r \in Shard /\ ShardOK(r) /\ hash \in PayloadHash
  BY GrantedShard DEF PayloadHash
<1>2. CheckOpIdempotency(r, op, hash) = "Fresh" /\ ValidLease(r, lease, now)
  BY ExecutedMeans DEF Park
<1>3. /\ closed \in Shard /\ closed.log = r.log /\ closed.fence = r.fence
      /\ closed.spawned = r.spawned /\ closed.status = "Parked" /\ closed.reason = reason
  BY <1>1, ShardFields DEF Status
<1>4. reason # NoReason
  BY SetsAssumption
<1>5. /\ shards' = [shards EXCEPT ![lease.shard] = OpLogPush(Released(closed), op, hash)]
      /\ grants' = Surrender(lease) /\ now' = now
  BY DEF Park
<1> HIDE DEF closed, hash
<1> QED BY <1>1, <1>2, <1>3, <1>4, <1>5, ClosingInv

\* unpark_shard reopens a record that no live lease names.
LEMMA UnparkInv ==
    ASSUME Inv, NEW s \in DOMAIN shards, NEW op \in OpId, Unpark(s, op)
    PROVE  Inv'
<1> DEFINE r == shards[s]
           hash == <<"Unpark", s>>
           open == [r EXCEPT !.fence = r.fence + 1, !.reason = NoReason, !.status = "Active"]
           free == Released(open)
           q == OpLogPush(free, op, hash)
<1>1. r \in Shard /\ ShardOK(r) /\ s \in ShardId /\ hash \in PayloadHash /\ r.fence \in Fence
  BY DEF Inv, TypeOK, ShardOK, Shard, PayloadHash
<1>2. CheckOpIdempotency(r, op, hash) = "Fresh" /\ r.status = "Parked"
  BY DEF Unpark, UnparkOutcome, CheckOpIdempotency
<1>3. r.fence + 1 \in Fence
  BY <1>1, BoundsAssumption DEF Unpark, Fence
<1>4. /\ open \in Shard /\ open.log = r.log /\ open.fence = r.fence + 1
      /\ open.spawned = r.spawned /\ open.status = "Active" /\ open.reason = NoReason
  BY <1>1, <1>3, ShardFields DEF Status
<1>5. shards' = [shards EXCEPT ![s] = q] /\ UNCHANGED <<now, grants>>
  BY DEF Unpark
<1> HIDE DEF open
<1>6. ShardOK(free) /\ free.log = r.log /\ free.fence = r.fence + 1
  <2>1. Len(open.spawned) <= MaxSpawned
    BY <1>1, <1>4 DEF ShardOK
  <2> QED BY <1>1, <1>4, <2>1, ReleasedOK
<1> HIDE DEF free, hash
<1>7. ShardOK(q) /\ q.fence = r.fence + 1
  BY <1>1, <1>2, <1>6, OpLogPushOK
<1> HIDE DEF q
<1>8. TypeOK'
  BY <1>5, <1>7, OneShardReplaced DEF Inv, TypeOK
<1>9. /\ DOMAIN shards' = DOMAIN shards /\ shards'[s] = q
      /\ \A x \in DOMAIN shards : x # s => shards'[x] = shards[x]
  BY <1>5, <1>7, OneShardReplaced
<1>10. FencingOK'
  BY <1>1, <1>5, <1>7, <1>9 DEF Inv, TypeOK, Lease, FencingOK, Fence
<1>11. \A g \in grants : now < g.deadline => g.shard # s
  BY <1>2 DEF Inv, LeaseCoherence
<1>12. LeaseCoherence'
  BY <1>5, <1>9, <1>11 DEF Inv, FencingOK, LeaseCoherence
<1> QED BY <1>8, <1>10, <1>12 DEF Inv

\* split_residual shrinks its shard, which keeps its lease, and adds one shard.
LEMMA SplitResidualInv ==
    ASSUME Inv, NEW lease \in grants, NEW op \in OpId,
           NEW newParent \in KeyRange, NEW residual \in KeyRange,
           SplitResidual(lease, op, newParent, residual)
    PROVE  Inv'
<1> DEFINE s == lease.shard
           r == shards[s]
           hash == <<"SplitResidual", <<newParent, residual>>>>
           id == Derive(s, op, "Residual", Len(r.spawned))
           shrunk == [r EXCEPT !.lo = newParent.lo, !.hi = newParent.hi,
                               !.spawned = Append(r.spawned, id)]
           q == OpLogPush(shrunk, op, hash)
           new == NewShard(residual.lo, residual.hi, NoKey, s)
<1>1. /\ s \in DOMAIN shards /\ s \in ShardId /\ r \in Shard /\ ShardOK(r)
      /\ hash \in PayloadHash
  BY GrantedShard DEF PayloadHash
<1>2. /\ CheckOpIdempotency(r, op, hash) = "Fresh"
      /\ Len(r.spawned) + 1 <= MaxSpawned
  <2>1. ValidSplitResidual(r, newParent, residual, Cardinality(DOMAIN shards)) \in BOOLEAN
    BY DEF ValidSplitResidual
  <2>2. /\ CheckOpIdempotency(r, op, hash) = "Fresh"
        /\ ValidSplitResidual(r, newParent, residual, Cardinality(DOMAIN shards))
    BY <2>1, ExecutedMeans DEF SplitResidual
  <2> QED BY <2>2 DEF ValidSplitResidual, CanSpawn
<1>3. /\ r.spawned \in Seq(ShardId) /\ id \in ShardId /\ Append(r.spawned, id) \in Seq(ShardId)
      /\ Len(Append(r.spawned, id)) <= MaxSpawned
  <2>1. r.spawned \in Seq(ShardId) /\ Len(r.spawned) \in 0..MaxSpawned
    BY <1>1, <1>2, BoundsAssumption DEF Shard
  <2>2. id \in ShardId
    BY <1>1, <2>1, DeriveAssumption
  <2> QED BY <1>2, <2>1, <2>2, BoundsAssumption
<1>4. /\ newParent.lo \in Bound /\ newParent.hi \in Bound
      /\ residual.lo \in Bound /\ residual.hi \in Bound /\ NoKey \in Cursor
  BY BoundsAssumption DEF KeyRange, NoKey, Cursor
<1>5. ShardOK(new)
  BY <1>1, <1>4, NewShardOK
<1>6. /\ id \notin DOMAIN shards /\ UNCHANGED <<now, grants>>
      /\ shards' = [x \in DOMAIN shards \cup {id} |->
                       IF x = id THEN new ELSE IF x = s THEN q ELSE shards[x]]
  BY DEF SplitResidual
<1> HIDE DEF id, new, hash
<1>7. /\ shrunk \in Shard /\ shrunk.status = r.status /\ shrunk.log = r.log
      /\ shrunk.spawned = Append(r.spawned, id) /\ shrunk.reason = r.reason
      /\ shrunk.fence = r.fence /\ shrunk.owner = r.owner /\ shrunk.deadline = r.deadline
  BY <1>1, <1>3, <1>4, ShardFields
<1>8. ShardOK(shrunk)
  BY <1>1, <1>3, <1>7 DEF ShardOK
<1> HIDE DEF shrunk
<1>9. /\ ShardOK(q) /\ q.fence = r.fence /\ q.status = r.status
      /\ q.owner = r.owner /\ q.deadline = r.deadline
  BY <1>1, <1>2, <1>7, <1>8, OpLogPushOK
<1> HIDE DEF q
<1>10. TypeOK'
  BY <1>1, <1>3, <1>5, <1>6, <1>9 DEF Inv, TypeOK
<1>11. FencingOK' /\ LeaseCoherence'
  BY <1>1, <1>6, <1>9, LeasesKept
<1> QED BY <1>10, <1>11 DEF Inv

\* split_replace closes its shard as Split and adds the children.
LEMMA SplitReplaceInv ==
    ASSUME Inv, NEW lease \in grants, NEW op \in OpId, NEW children \in Seq(Child),
           SplitReplace(lease, op, children)
    PROVE  Inv'
<1> DEFINE s == lease.shard
           r == shards[s]
           hash == <<"SplitReplace", children>>
           n == Len(children)
           ids == ChildIds(s, r, op, n)
           new == {ids[i] : i \in 1..n}
           closed == [r EXCEPT !.spawned = r.spawned \o ids, !.status = "Split"]
           free == Released(closed)
           q == OpLogPush(free, op, hash)
           child(x) == LET c == children[CHOOSE i \in 1..n : ids[i] = x]
                       IN NewShard(c.lo, c.hi, c.cursor, s)
<1>1. /\ s \in DOMAIN shards /\ s \in ShardId /\ r \in Shard /\ ShardOK(r)
      /\ hash \in PayloadHash /\ n \in Nat
  BY GrantedShard DEF PayloadHash
<1>2. /\ CheckOpIdempotency(r, op, hash) = "Fresh" /\ ValidLease(r, lease, now)
      /\ Len(r.spawned) + n <= MaxSpawned
  <2>1. ValidSplitReplace(r, children, Cardinality(DOMAIN shards)) \in BOOLEAN
    BY DEF ValidSplitReplace
  <2>2. /\ CheckOpIdempotency(r, op, hash) = "Fresh" /\ ValidLease(r, lease, now)
        /\ ValidSplitReplace(r, children, Cardinality(DOMAIN shards))
    BY <2>1, ExecutedMeans DEF SplitReplace
  <2> QED BY <2>2 DEF ValidSplitReplace, CanSpawn
<1>3. r.spawned \in Seq(ShardId) /\ Len(r.spawned) \in Nat
  BY <1>1 DEF Shard
<1>4. ids \in [1..n -> ShardId]
  <2>1. \A i \in 1..n : Len(r.spawned) + i - 1 \in 0..MaxSpawned
    BY <1>1, <1>2, <1>3, BoundsAssumption
  <2>2. \A i \in 1..n : Derive(s, op, "Child", Len(r.spawned) + i - 1) \in ShardId
    BY <1>1, <2>1, DeriveAssumption
  <2> QED BY <2>2 DEF ChildIds
<1>5. new \subseteq ShardId /\ \A x \in new : \E i \in 1..n : ids[i] = x
  BY <1>4
<1>6. \A x \in new : ShardOK(child(x))
  <2> SUFFICES ASSUME NEW x \in new PROVE ShardOK(child(x))
    OBVIOUS
  <2> DEFINE j == CHOOSE i \in 1..n : ids[i] = x
  <2>1. j \in 1..n
    BY <1>5
  <2>2. children[j] \in Child
    BY <1>1, <2>1
  <2> HIDE DEF j
  <2>3. children[j].lo \in Bound /\ children[j].hi \in Bound /\ children[j].cursor \in Cursor
    BY <2>2 DEF Child
  <2>4. child(x) = NewShard(children[j].lo, children[j].hi, children[j].cursor, s)
    BY DEF j
  <2> QED BY <1>1, <2>3, <2>4, NewShardOK
<1>7. /\ \A x \in new : x \notin DOMAIN shards
      /\ grants' = Surrender(lease) /\ now' = now
      /\ shards' = [x \in DOMAIN shards \cup new |->
                       IF x \in new THEN child(x) ELSE IF x = s THEN q ELSE shards[x]]
  BY DEF SplitReplace
<1> HIDE DEF ids, new, child, hash
<1>8. /\ ids \in Seq(ShardId) /\ Len(ids) = n
  BY <1>1, <1>4
<1>9. r.spawned \o ids \in Seq(ShardId) /\ Len(r.spawned \o ids) <= MaxSpawned
  BY <1>1, <1>2, <1>3, <1>8, BoundsAssumption
<1>10. /\ closed \in Shard /\ closed.log = r.log /\ closed.fence = r.fence
       /\ closed.spawned = r.spawned \o ids /\ closed.status = "Split" /\ closed.reason = r.reason
  BY <1>1, <1>9, ShardFields DEF Status
<1>11. r.reason = NoReason
  BY <1>1, <1>2 DEF ShardOK, ValidLease, IsTerminal
<1> HIDE DEF closed
<1>12. ShardOK(free) /\ free.log = r.log /\ free.fence = r.fence
  BY <1>1, <1>9, <1>10, <1>11, ReleasedOK
<1> HIDE DEF free
<1>13. ShardOK(q) /\ q.fence = r.fence
  BY <1>1, <1>2, <1>12, OpLogPushOK
<1> HIDE DEF q
<1>14. /\ FencingOK' /\ LeaseCoherence' /\ grants' \subseteq Lease
  BY <1>1, <1>2, <1>7, <1>13, LeaseSurrendered
<1>15. TypeOK'
  BY <1>1, <1>5, <1>6, <1>7, <1>13, <1>14 DEF Inv, TypeOK
<1> QED BY <1>14, <1>15 DEF Inv

-----------------------------------------------------------------------------
(* The specification                                                       *)

\* The registered manifest, before any worker has acted, satisfies Inv.
LEMMA InitInv == Init => Inv
<1> SUFFICES ASSUME Init PROVE Inv
  OBVIOUS
<1>1. now \in Time
  BY BoundsAssumption DEF Init, Time
<1>3. /\ DOMAIN shards = DOMAIN Manifest
      /\ \A s \in DOMAIN shards :
            shards[s] = NewShard(Manifest[s].lo, Manifest[s].hi, Manifest[s].cursor, NoShard)
  BY DEF Init, RootShards
<1>4. \A s \in DOMAIN Manifest : /\ Manifest[s].lo \in Bound /\ Manifest[s].hi \in Bound
                                 /\ Manifest[s].cursor \in Cursor
  BY ManifestAssumption DEF Child
<1>5. \A s \in DOMAIN shards : ShardOK(shards[s])
  BY <1>3, <1>4, NewShardOK
<1>6. TypeOK
  BY <1>1, <1>3, <1>5, ManifestAssumption DEF Init, TypeOK
<1>7. FencingOK /\ LeaseCoherence
  BY DEF Init, FencingOK, LeaseCoherence
<1> QED BY <1>6, <1>7 DEF Inv

\* A split that fails half way leaves every record as it was: the children that
\* were inserted had new ids, so taking them out takes out nothing else, and the
\* parent is put back (split_replace_rollback_inserted_children,
\* with_removed_parent).
LEMMA FailedSplitRestores ==
    ASSUME Inv, NEW lease \in grants, NEW op \in OpId, NEW children,
           SplitReplaceFails(lease, op, children)
    PROVE  /\ shards' = [shards EXCEPT ![lease.shard] = shards[lease.shard]]
           /\ DOMAIN shards' = DOMAIN shards
           /\ \A x \in DOMAIN shards : shards'[x] = shards[x]
           /\ now' = now /\ grants' = grants /\ history' = history
           /\ ValidLease(shards[lease.shard], lease, now)
<1> DEFINE s == lease.shard
           r == shards[s]
           hash == <<"SplitReplace", children>>
           ids == ChildIds(s, r, op, Len(children))
<1>1. s \in DOMAIN shards /\ r \in Shard
  BY GrantedShard
<1>2. ValidSplitReplace(r, children, Cardinality(DOMAIN shards)) \in BOOLEAN
  BY DEF ValidSplitReplace
<1>3. ValidLease(r, lease, now)
  BY <1>1, <1>2, ExecutedMeans DEF SplitReplaceFails
<1>4. PICK m \in 0..Len(children) :
          /\ \A i \in 1..m : ids[i] \notin DOMAIN shards
          /\ LET kept == RollBack(Staged(s, ids, children, m), ids, m)
             IN shards' = [x \in DOMAIN kept \cup {s} |-> IF x = s THEN r ELSE kept[x]]
  BY DEF SplitReplaceFails
<1> DEFINE new == {ids[i] : i \in 1..m}
           staged == Staged(s, ids, children, m)
           kept == RollBack(staged, ids, m)
<1>5. new \cap DOMAIN shards = {}
  BY <1>4
<1>6. /\ DOMAIN staged = (DOMAIN shards \ {s}) \cup new
      /\ \A x \in DOMAIN staged : x \notin new => staged[x] = shards[x]
  BY DEF Staged
<1>7. /\ DOMAIN kept = DOMAIN staged \ new
      /\ \A x \in DOMAIN kept : kept[x] = staged[x]
  BY DEF RollBack
<1>8. shards' = [x \in DOMAIN kept \cup {s} |-> IF x = s THEN r ELSE kept[x]]
  BY <1>4
<1> HIDE DEF ids, new, staged, kept
<1>9. /\ DOMAIN kept = DOMAIN shards \ {s}
      /\ \A x \in DOMAIN kept : kept[x] = shards[x]
  BY <1>5, <1>6, <1>7
<1>10. DOMAIN kept \cup {s} = DOMAIN shards
  BY <1>1, <1>9
<1>11. shards' = [shards EXCEPT ![s] = r]
  BY <1>8, <1>9, <1>10
<1>12. DOMAIN shards' = DOMAIN shards /\ \A x \in DOMAIN shards : shards'[x] = shards[x]
  BY <1>8, <1>9, <1>10
<1>13. now' = now /\ grants' = grants /\ history' = history
  BY DEF SplitReplaceFails
<1> QED BY <1>3, <1>11, <1>12, <1>13

\* So it preserves Inv.
LEMMA SplitReplaceFailsInv ==
    ASSUME Inv, NEW lease \in grants, NEW op \in OpId, NEW children,
           SplitReplaceFails(lease, op, children)
    PROVE  Inv'
<1>1. /\ DOMAIN shards' = DOMAIN shards
      /\ \A x \in DOMAIN shards : shards'[x] = shards[x]
      /\ now' = now /\ grants' = grants
  BY FailedSplitRestores
<1>2. TypeOK'
  BY <1>1 DEF Inv, TypeOK
<1>3. \A g \in grants : g.shard \in DOMAIN shards
  BY DEF Inv, FencingOK
<1>4. FencingOK' /\ LeaseCoherence'
  BY <1>1, <1>3 DEF Inv, FencingOK, LeaseCoherence
<1> QED BY <1>2, <1>4 DEF Inv

\* Every operation gated by a lease preserves Inv.
LEMMA LeaseOpInv ==
    ASSUME Inv, NEW lease \in grants, NEW op \in OpId, LeaseOp(lease, op)
    PROVE  Inv'
<1>1. CASE \E k \in Cursor : Checkpoint(lease, op, k)
  BY <1>1, CheckpointInv
<1>2. CASE \E k \in Cursor : Complete(lease, op, k)
  BY <1>2, CompleteInv
<1>3. CASE \E reason \in Reason : Park(lease, op, reason)
  BY <1>3, ParkInv
<1>4. CASE \E cut \in Cuts(MaxChildren), inherit \in BOOLEAN :
              SplitReplace(lease, op, PlannedChildren(cut, shards[lease.shard].cursor, inherit))
  <2>1. PICK cut \in Cuts(MaxChildren), inherit \in BOOLEAN :
              SplitReplace(lease, op, PlannedChildren(cut, shards[lease.shard].cursor, inherit))
    BY <1>4
  <2>2. shards[lease.shard].cursor \in Cursor
    BY GrantedShard DEF Shard
  <2>3. PlannedChildren(cut, shards[lease.shard].cursor, inherit) \in Seq(Child)
    BY <2>2, PlannedChildrenType, BoundsAssumption
  <2> QED BY <2>1, <2>3, SplitReplaceInv
<1>5. CASE \E cut \in Cuts(2) :
              SplitResidual(lease, op, [lo |-> cut[1], hi |-> cut[2]], [lo |-> cut[2], hi |-> cut[3]])
  <2>1. PICK cut \in Cuts(2) :
              SplitResidual(lease, op, [lo |-> cut[1], hi |-> cut[2]], [lo |-> cut[2], hi |-> cut[3]])
    BY <1>5
  <2>2. PICK m \in 2..2 : cut \in [1..(m + 1) -> Bound]
    BY CutsType
  <2>3. cut[1] \in Bound /\ cut[2] \in Bound /\ cut[3] \in Bound
    BY <2>2
  <2>4. [lo |-> cut[1], hi |-> cut[2]] \in KeyRange /\ [lo |-> cut[2], hi |-> cut[3]] \in KeyRange
    BY <2>3 DEF KeyRange
  <2> QED BY <2>1, <2>4, SplitResidualInv
<1>6. CASE \E cut \in Cuts(MaxChildren), inherit \in BOOLEAN :
              SplitReplaceFails(lease, op, PlannedChildren(cut, shards[lease.shard].cursor, inherit))
  BY <1>6, SplitReplaceFailsInv
<1> QED BY <1>1, <1>2, <1>3, <1>4, <1>5, <1>6 DEF LeaseOp

\* Every step, and every stutter, preserves Inv.
LEMMA NextInv == Inv /\ [Next]_vars => Inv'
<1> SUFFICES ASSUME Inv, [Next]_vars PROVE Inv'
  OBVIOUS
<1>1. CASE Tick
  BY <1>1, TickInv
<1>2. CASE \E w \in Worker, s \in DOMAIN shards : Acquire(w, s)
  BY <1>2, AcquireInv
<1>3. CASE \E lease \in grants : Renew(lease)
  BY <1>3, RenewInv
<1>4. CASE \E lease \in grants, op \in OpId : LeaseOp(lease, op)
  BY <1>4, LeaseOpInv
<1>5. CASE \E s \in DOMAIN shards, op \in OpId : Unpark(s, op)
  BY <1>5, UnparkInv
<1>6. CASE UNCHANGED vars
  BY <1>6 DEF vars, Inv, TypeOK, FencingOK, LeaseCoherence
<1> QED BY <1>1, <1>2, <1>3, <1>4, <1>5, <1>6 DEF Next

\* Inv holds in every reachable state.
LEMMA Invariance == Spec => []Inv
BY InitInv, NextInv, PTL DEF Spec

\* The records never leave the invariants that assert_invariants checks after
\* each mutation, for every manifest, fleet of workers and set of OpIds.
THEOREM TypeCorrect == Spec => []TypeOK
<1>1. Inv => TypeOK
  BY DEF Inv
<1> QED BY <1>1, Invariance, PTL

\* No worker whose lease has time left is ever fenced out, overtaken or
\* joined by another on its shard (acquire_and_restore_into, renew,
\* unpark_shard).
THEOREM LeasesCoherent == Spec => []LeaseCoherence
<1>1. Inv => LeaseCoherence
  BY DEF Inv
<1> QED BY <1>1, Invariance, PTL

\* No fence epoch is granted twice, and every lease ever granted names an epoch
\* its shard has reached (acquire_and_restore_into, advance_fence).
THEOREM EpochsFence == Spec => []FencingOK
<1>1. Inv => FencingOK
  BY DEF Inv
<1> QED BY <1>1, Invariance, PTL

-----------------------------------------------------------------------------
(* What no step may do to a record                                         *)

\* A step that changes one Active record, and its cursor only forward, freezes
\* all the others; new records may appear beside it.
LEMMA OneActiveChanged ==
    ASSUME Inv, NEW s \in DOMAIN shards, shards[s].status = "Active",
           shards'[s].cursor >= shards[s].cursor,
           \A x \in DOMAIN shards : x \in DOMAIN shards' /\ (x # s => shards'[x] = shards[x])
    PROVE  FrozenStep
<1>1. \A x \in DOMAIN shards : shards[x].cursor \in Int
  BY DEF Inv, TypeOK, ShardOK, Shard, Cursor
<1> QED BY <1>1 DEF FrozenStep

\* Only the holder of a live lease on an Active record gets past the checks, so
\* every lease-gated operation, a zombie's included, is such a step.
LEMMA LeaseOpFrozen ==
    ASSUME Inv, NEW lease \in grants, NEW op \in OpId, LeaseOp(lease, op)
    PROVE  FrozenStep
<1> DEFINE s == lease.shard
           r == shards[s]
<1>1. s \in DOMAIN shards /\ r \in Shard /\ r.cursor \in Int /\ r.status \in Status
  <2>1. s \in DOMAIN shards /\ r \in Shard
    BY GrantedShard
  <2> QED BY <2>1, ShardFields DEF Cursor
<1>2. ASSUME NEW hash, NEW valid \in BOOLEAN,
             LeaseOpOutcome(r, lease, now, op, hash, valid) = "Executed"
      PROVE  r.status = "Active" /\ valid
  BY <1>1, <1>2, ExecutedMeans DEF ValidLease, IsTerminal, Status
<1>3. ASSUME NEW k \in Cursor, Checkpoint(lease, op, k)
      PROVE  FrozenStep
  <2> DEFINE q == OpLogPush([r EXCEPT !.cursor = k], op, <<"Checkpoint", k>>)
  <2>1. r.status = "Active" /\ k >= r.cursor
    BY <1>2, <1>3 DEF Checkpoint, ValidCursorUpdate
  <2>2. q.cursor = k
    BY <1>1, ShardFields DEF OpLogPush
  <2>3. shards' = [shards EXCEPT ![s] = q]
    BY <1>3 DEF Checkpoint
  <2> HIDE DEF q
  <2> QED BY <1>1, <2>1, <2>2, <2>3, OneActiveChanged
<1>4. ASSUME NEW k \in Cursor, Complete(lease, op, k)
      PROVE  FrozenStep
  <2> DEFINE q == OpLogPush(Released([r EXCEPT !.cursor = k, !.status = "Done"]),
                            op, <<"Complete", k>>)
  <2>1. r.status = "Active" /\ k >= r.cursor
    BY <1>2, <1>4 DEF Complete, ValidCursorUpdate
  <2>2. q.cursor = k
    BY <1>1, ShardFields DEF OpLogPush, Released
  <2>3. shards' = [shards EXCEPT ![s] = q]
    BY <1>4 DEF Complete
  <2> HIDE DEF q
  <2> QED BY <1>1, <2>1, <2>2, <2>3, OneActiveChanged
<1>5. ASSUME NEW reason \in Reason, Park(lease, op, reason)
      PROVE  FrozenStep
  <2> DEFINE q == OpLogPush(Released([r EXCEPT !.status = "Parked", !.reason = reason]),
                            op, <<"Park", reason>>)
  <2>1. r.status = "Active"
    BY <1>2, <1>5 DEF Park
  <2>2. q.cursor = r.cursor
    BY <1>1, ShardFields DEF OpLogPush, Released
  <2>3. shards' = [shards EXCEPT ![s] = q]
    BY <1>5 DEF Park
  <2> HIDE DEF q
  <2> QED BY <1>1, <2>1, <2>2, <2>3, OneActiveChanged
<1>6. ASSUME NEW children, SplitReplace(lease, op, children)
      PROVE  FrozenStep
  <2> DEFINE hash == <<"SplitReplace", children>>
             n == Len(children)
             ids == ChildIds(s, r, op, n)
             new == {ids[i] : i \in 1..n}
             q == OpLogPush(Released([r EXCEPT !.spawned = r.spawned \o ids, !.status = "Split"]),
                            op, hash)
             child(x) == LET c == children[CHOOSE i \in 1..n : ids[i] = x]
                         IN NewShard(c.lo, c.hi, c.cursor, s)
  <2>1. r.status = "Active"
    <3>1. ValidSplitReplace(r, children, Cardinality(DOMAIN shards)) \in BOOLEAN
      BY DEF ValidSplitReplace
    <3> QED BY <1>2, <1>6, <3>1 DEF SplitReplace
  <2>2. q.cursor = r.cursor
    BY <1>1, ShardFields DEF OpLogPush, Released
  <2>3. /\ \A x \in new : x \notin DOMAIN shards
        /\ shards' = [x \in DOMAIN shards \cup new |->
                         IF x \in new THEN child(x) ELSE IF x = s THEN q ELSE shards[x]]
    BY <1>6 DEF SplitReplace
  <2> HIDE DEF q, new, child
  <2>4. shards'[s] = q /\ \A x \in DOMAIN shards : x \in DOMAIN shards' /\ (x # s => shards'[x] = shards[x])
    BY <1>1, <2>3
  <2> QED BY <1>1, <2>1, <2>2, <2>4, OneActiveChanged
<1>7. ASSUME NEW newParent, NEW residual, SplitResidual(lease, op, newParent, residual)
      PROVE  FrozenStep
  <2> DEFINE hash == <<"SplitResidual", <<newParent, residual>>>>
             id == Derive(s, op, "Residual", Len(r.spawned))
             q == OpLogPush([r EXCEPT !.lo = newParent.lo, !.hi = newParent.hi,
                                      !.spawned = Append(r.spawned, id)], op, hash)
             new == NewShard(residual.lo, residual.hi, NoKey, s)
  <2>1. r.status = "Active"
    <3>1. ValidSplitResidual(r, newParent, residual, Cardinality(DOMAIN shards)) \in BOOLEAN
      BY DEF ValidSplitResidual
    <3> QED BY <1>2, <1>7, <3>1 DEF SplitResidual
  <2>2. q.cursor = r.cursor
    BY <1>1, ShardFields DEF OpLogPush
  <2>3. /\ id \notin DOMAIN shards
        /\ shards' = [x \in DOMAIN shards \cup {id} |->
                         IF x = id THEN new ELSE IF x = s THEN q ELSE shards[x]]
    BY <1>7 DEF SplitResidual
  <2> HIDE DEF q, new, id
  <2>4. shards'[s] = q /\ \A x \in DOMAIN shards : x \in DOMAIN shards' /\ (x # s => shards'[x] = shards[x])
    BY <1>1, <2>3
  <2> QED BY <1>1, <2>1, <2>2, <2>4, OneActiveChanged
<1>8. ASSUME NEW children, SplitReplaceFails(lease, op, children)
      PROVE  FrozenStep
  <2>1. DOMAIN shards' = DOMAIN shards /\ \A x \in DOMAIN shards : shards'[x] = shards[x]
    BY <1>8, FailedSplitRestores
  <2>2. r.status = "Active"
    BY <1>1, <1>8, FailedSplitRestores DEF ValidLease, IsTerminal, Status
  <2> QED BY <1>1, <2>1, <2>2, OneActiveChanged
<1> QED BY <1>3, <1>4, <1>5, <1>6, <1>7, <1>8 DEF LeaseOp

\* No step but unpark_shard touches a terminal record, and that one only a
\* Parked record, under the next epoch.
LEMMA NextFrozen == Inv /\ [Next]_vars => [FrozenStep]_vars
<1> SUFFICES ASSUME Inv, Next PROVE FrozenStep
  OBVIOUS
<1>1. \A x \in DOMAIN shards : /\ shards[x] \in Shard /\ shards[x].cursor \in Int
                               /\ shards[x].fence \in Int
  <2>1. \A x \in DOMAIN shards : shards[x] \in Shard
    BY DEF Inv, TypeOK, ShardOK
  <2>2. \A r \in Shard : r.cursor \in Int /\ r.fence \in Int
    BY DEF Shard, Cursor, Fence
  <2> QED BY <2>1, <2>2
<1>2. CASE Tick
  BY <1>1, <1>2 DEF Tick, FrozenStep
<1>3. ASSUME NEW w \in Worker, NEW s \in DOMAIN shards, Acquire(w, s)
      PROVE  FrozenStep
  <2> DEFINE q == [shards[s] EXCEPT !.fence = shards[s].fence + 1, !.owner = w, !.deadline = Deadline(now)]
  <2>1. q.cursor = shards[s].cursor
    BY <1>1, ShardFields
  <2>2. shards[s].status = "Active" /\ shards' = [shards EXCEPT ![s] = q]
    BY <1>3 DEF Acquire
  <2> HIDE DEF q
  <2> QED BY <1>1, <2>1, <2>2, OneActiveChanged
<1>4. ASSUME NEW lease \in grants, Renew(lease)
      PROVE  FrozenStep
  <2> DEFINE s == lease.shard
             q == [shards[s] EXCEPT !.owner = lease.owner, !.deadline = Deadline(now)]
  <2>1. s \in DOMAIN shards /\ shards[s].status \in Status
    BY GrantedShard DEF Shard
  <2>2. q.cursor = shards[s].cursor
    BY <1>1, <2>1, ShardFields
  <2>3. shards[s].status = "Active" /\ shards' = [shards EXCEPT ![s] = q]
    BY <1>4, <2>1 DEF Renew, ValidLease, IsTerminal, Status
  <2> HIDE DEF q
  <2> QED BY <1>1, <2>1, <2>2, <2>3, OneActiveChanged
<1>5. CASE \E lease \in grants, op \in OpId : LeaseOp(lease, op)
  BY <1>5, LeaseOpFrozen
<1>6. ASSUME NEW s \in DOMAIN shards, NEW op \in OpId, Unpark(s, op)
      PROVE  FrozenStep
  <2> DEFINE r == shards[s]
             q == OpLogPush(Released([r EXCEPT !.fence = r.fence + 1, !.reason = NoReason,
                                               !.status = "Active"]), op, <<"Unpark", s>>)
  <2>1. r.status = "Parked" /\ shards' = [shards EXCEPT ![s] = q]
    BY <1>6 DEF Unpark, UnparkOutcome, CheckOpIdempotency
  <2>2. q.cursor = r.cursor /\ q.status = "Active" /\ q.fence = r.fence + 1
    BY <1>1, ShardFields DEF OpLogPush, Released
  <2> HIDE DEF q
  <2> QED BY <1>1, <2>1, <2>2 DEF FrozenStep
<1> QED BY <1>2, <1>3, <1>4, <1>5, <1>6 DEF Next

\* Whoever calls, with whichever lease, in whichever order: finished work stays
\* finished, a parked shard is only reopened under a new epoch, and progress is
\* never taken back (assert_transition_legal, validate_cursor_update_pooled).
THEOREM TerminalRecordsFrozen == Spec => TerminalFrozen
BY Invariance, NextFrozen, PTL DEF Spec, TerminalFrozen


-----------------------------------------------------------------------------
(* The three shapes of a step                                              *)

\* One record is rewritten in place: its range and its lineage stay, and no
\* split is logged.
Rewritten(s, q) ==
    /\ s \in DOMAIN shards
    /\ shards' = [shards EXCEPT ![s] = q]
    /\ q.lo = shards[s].lo /\ q.hi = shards[s].hi
    /\ q.parent = shards[s].parent /\ q.spawned = shards[s].spawned
    /\ shards[s].status # "Split" /\ q.status # "Split"
    /\ q.fence >= shards[s].fence
    /\ q.cursor = shards[s].cursor \/ InRange(q.cursor, q.lo, q.hi)
    /\ \A e \in OpLogEntries(q) :
          e \in OpLogEntries(shards[s]) \/ e.hash[1] \notin {"SplitReplace", "SplitResidual"}

\* The pushed entry of an operation that is no split.
LEMMA RewriteByPush ==
    ASSUME Inv, NEW s \in DOMAIN shards, NEW p \in Shard, NEW op \in OpId, NEW hash \in PayloadHash,
           shards' = [shards EXCEPT ![s] = OpLogPush(p, op, hash)],
           p.log = shards[s].log, p.lo = shards[s].lo, p.hi = shards[s].hi,
           p.parent = shards[s].parent, p.spawned = shards[s].spawned,
           shards[s].status # "Split", p.status # "Split", p.fence >= shards[s].fence,
           p.cursor = shards[s].cursor \/ InRange(p.cursor, p.lo, p.hi),
           hash[1] \notin {"SplitReplace", "SplitResidual"}
    PROVE  \E q : Rewritten(s, q)
<1> DEFINE q == OpLogPush(p, op, hash)
<1>1. /\ q.lo = p.lo /\ q.hi = p.hi /\ q.parent = p.parent /\ q.spawned = p.spawned
      /\ q.status = p.status /\ q.cursor = p.cursor /\ q.fence = p.fence
  BY ShardFields DEF OpLogPush
<1>2. \A e \in OpLogEntries(q) : e \in OpLogEntries(p) \/ e = [op |-> op, hash |-> hash]
  BY PushEntries
<1> HIDE DEF q
<1>3. OpLogEntries(p) = OpLogEntries(shards[s])
  BY DEF OpLogEntries
<1>4. \A e \in OpLogEntries(q) :
          e \in OpLogEntries(shards[s]) \/ e.hash[1] \notin {"SplitReplace", "SplitResidual"}
  BY <1>2, <1>3
<1>5. Rewritten(s, q)
  BY <1>1, <1>4 DEF Rewritten, q
<1> QED BY <1>5

\* Acquire, renew, checkpoint, complete, park and unpark rewrite one record.
LEMMA RewriteSteps ==
    ASSUME Inv,
           \/ \E w \in Worker, s \in DOMAIN shards : Acquire(w, s)
           \/ \E lease \in grants : Renew(lease)
           \/ \E lease \in grants, op \in OpId, k \in Cursor : Checkpoint(lease, op, k)
           \/ \E lease \in grants, op \in OpId, k \in Cursor : Complete(lease, op, k)
           \/ \E lease \in grants, op \in OpId, reason \in Reason : Park(lease, op, reason)
           \/ \E s \in DOMAIN shards, op \in OpId : Unpark(s, op)
    PROVE  \E s, q : Rewritten(s, q)
<1>1. ASSUME NEW w \in Worker, NEW s \in DOMAIN shards, Acquire(w, s)
      PROVE  \E q : Rewritten(s, q)
  <2> DEFINE r == shards[s]
             q == [r EXCEPT !.fence = r.fence + 1, !.owner = w, !.deadline = Deadline(now)]
  <2>1. r \in Shard /\ r.fence \in Int
    BY FenceIsInt DEF Inv, TypeOK, ShardOK
  <2>2. /\ q.lo = r.lo /\ q.hi = r.hi /\ q.parent = r.parent /\ q.spawned = r.spawned
        /\ q.status = r.status /\ q.cursor = r.cursor /\ q.log = r.log /\ q.fence = r.fence + 1
    BY <2>1, ShardFields
  <2>3. r.status = "Active" /\ shards' = [shards EXCEPT ![s] = q]
    BY <1>1 DEF Acquire
  <2> HIDE DEF q
  <2>4. Rewritten(s, q)
    BY <2>1, <2>2, <2>3 DEF Rewritten, OpLogEntries
  <2> QED BY <2>4
<1>2. ASSUME NEW lease \in grants, Renew(lease)
      PROVE  \E q : Rewritten(lease.shard, q)
  <2> DEFINE s == lease.shard
             r == shards[s]
             q == [r EXCEPT !.owner = lease.owner, !.deadline = Deadline(now)]
  <2>1. s \in DOMAIN shards /\ r \in Shard /\ r.fence \in Int
    BY GrantedShard, FenceIsInt
  <2>2. /\ q.lo = r.lo /\ q.hi = r.hi /\ q.parent = r.parent /\ q.spawned = r.spawned
        /\ q.status = r.status /\ q.cursor = r.cursor /\ q.log = r.log /\ q.fence = r.fence
    BY <2>1, ShardFields
  <2>3. r.status # "Split" /\ shards' = [shards EXCEPT ![s] = q]
    BY <1>2 DEF Renew, ValidLease, IsTerminal
  <2> HIDE DEF q
  <2>4. Rewritten(s, q)
    BY <2>1, <2>2, <2>3 DEF Rewritten, OpLogEntries
  <2> QED BY <2>4
<1>3. ASSUME NEW lease \in grants, NEW op \in OpId, NEW k \in Cursor, Checkpoint(lease, op, k)
      PROVE  \E q : Rewritten(lease.shard, q)
  <2> DEFINE s == lease.shard
             r == shards[s]
             hash == <<"Checkpoint", k>>
             p == [r EXCEPT !.cursor = k]
  <2>1. s \in DOMAIN shards /\ r \in Shard /\ hash \in PayloadHash /\ hash[1] = "Checkpoint"
        /\ r.fence \in Int
    <3>1. hash \in PayloadHash /\ hash[1] = "Checkpoint"
      BY DEF PayloadHash
    <3> QED BY <3>1, GrantedShard, FenceIsInt
  <2>2. ValidLease(r, lease, now) /\ ValidCursorUpdate(r, k)
    BY <1>3, ExecutedMeans DEF Checkpoint, ValidCursorUpdate
  <2>3. /\ p \in Shard /\ p.lo = r.lo /\ p.hi = r.hi /\ p.parent = r.parent
        /\ p.spawned = r.spawned /\ p.status = r.status /\ p.cursor = k /\ p.log = r.log
        /\ p.fence = r.fence
    BY <2>1, ShardFields
  <2>4. shards' = [shards EXCEPT ![s] = OpLogPush(p, op, hash)]
    BY <1>3 DEF Checkpoint
  <2> HIDE DEF p, hash
  <2>5. r.status # "Split" /\ InRange(p.cursor, p.lo, p.hi)
    BY <2>2, <2>3 DEF ValidLease, IsTerminal, ValidCursorUpdate
  <2>6. p.fence >= r.fence
    BY <2>1, <2>3
  <2> QED BY <2>1, <2>3, <2>4, <2>5, <2>6, RewriteByPush
<1>4. ASSUME NEW lease \in grants, NEW op \in OpId, NEW k \in Cursor, Complete(lease, op, k)
      PROVE  \E q : Rewritten(lease.shard, q)
  <2> DEFINE s == lease.shard
             r == shards[s]
             hash == <<"Complete", k>>
             c == [r EXCEPT !.cursor = k, !.status = "Done"]
             p == Released(c)
  <2>1. s \in DOMAIN shards /\ r \in Shard /\ hash \in PayloadHash /\ hash[1] = "Complete"
        /\ r.fence \in Int
    <3>1. hash \in PayloadHash /\ hash[1] = "Complete"
      BY DEF PayloadHash
    <3> QED BY <3>1, GrantedShard, FenceIsInt
  <2>2. ValidLease(r, lease, now) /\ ValidCursorUpdate(r, k)
    BY <1>4, ExecutedMeans DEF Complete, ValidCursorUpdate
  <2>3. /\ p \in Shard /\ p.lo = r.lo /\ p.hi = r.hi /\ p.parent = r.parent
        /\ p.spawned = r.spawned /\ p.status = "Done" /\ p.cursor = k /\ p.log = r.log
        /\ p.fence = r.fence
    <3>1. /\ c \in Shard /\ c.lo = r.lo /\ c.hi = r.hi /\ c.parent = r.parent
          /\ c.spawned = r.spawned /\ c.status = "Done" /\ c.cursor = k /\ c.log = r.log
          /\ c.fence = r.fence
      BY <2>1, ShardFields DEF Status
    <3> HIDE DEF c
    <3> QED BY <3>1, ReleasedFields
  <2>4. shards' = [shards EXCEPT ![s] = OpLogPush(p, op, hash)]
    BY <1>4 DEF Complete
  <2> HIDE DEF p, hash
  <2>5. r.status # "Split" /\ InRange(p.cursor, p.lo, p.hi)
    BY <2>2, <2>3 DEF ValidLease, IsTerminal, ValidCursorUpdate
  <2>6. p.fence >= r.fence
    BY <2>1, <2>3
  <2> QED BY <2>1, <2>3, <2>4, <2>5, <2>6, RewriteByPush
<1>5. ASSUME NEW lease \in grants, NEW op \in OpId, NEW reason \in Reason, Park(lease, op, reason)
      PROVE  \E q : Rewritten(lease.shard, q)
  <2> DEFINE s == lease.shard
             r == shards[s]
             hash == <<"Park", reason>>
             c == [r EXCEPT !.status = "Parked", !.reason = reason]
             p == Released(c)
  <2>1. s \in DOMAIN shards /\ r \in Shard /\ hash \in PayloadHash /\ hash[1] = "Park"
        /\ r.fence \in Int
    <3>1. hash \in PayloadHash /\ hash[1] = "Park"
      BY DEF PayloadHash
    <3> QED BY <3>1, GrantedShard, FenceIsInt
  <2>2. ValidLease(r, lease, now)
    BY <1>5, ExecutedMeans DEF Park
  <2>3. /\ p \in Shard /\ p.lo = r.lo /\ p.hi = r.hi /\ p.parent = r.parent
        /\ p.spawned = r.spawned /\ p.status = "Parked" /\ p.cursor = r.cursor /\ p.log = r.log
        /\ p.fence = r.fence
    <3>1. /\ c \in Shard /\ c.lo = r.lo /\ c.hi = r.hi /\ c.parent = r.parent
          /\ c.spawned = r.spawned /\ c.status = "Parked" /\ c.cursor = r.cursor /\ c.log = r.log
          /\ c.fence = r.fence
      BY <2>1, ShardFields DEF Status
    <3> HIDE DEF c
    <3> QED BY <3>1, ReleasedFields
  <2>4. shards' = [shards EXCEPT ![s] = OpLogPush(p, op, hash)]
    BY <1>5 DEF Park
  <2> HIDE DEF p, hash
  <2>5. r.status # "Split"
    BY <2>2 DEF ValidLease, IsTerminal
  <2>6. p.fence >= r.fence
    BY <2>1, <2>3
  <2> QED BY <2>1, <2>3, <2>4, <2>5, <2>6, RewriteByPush
<1>6. ASSUME NEW s \in DOMAIN shards, NEW op \in OpId, Unpark(s, op)
      PROVE  \E q : Rewritten(s, q)
  <2> DEFINE r == shards[s]
             hash == <<"Unpark", s>>
             c == [r EXCEPT !.fence = r.fence + 1, !.reason = NoReason, !.status = "Active"]
             p == Released(c)
  <2>1. r \in Shard /\ hash \in PayloadHash /\ hash[1] = "Unpark" /\ r.fence \in Fence
        /\ r.fence \in Int
    <3>1. r \in Shard /\ s \in ShardId
      BY DEF Inv, TypeOK, ShardOK
    <3>2. hash \in PayloadHash /\ hash[1] = "Unpark"
      BY <3>1 DEF PayloadHash
    <3> QED BY <3>1, <3>2, FenceIsInt
  <2>2. r.status = "Parked" /\ r.fence + 1 \in Fence
    <3>1. r.status = "Parked" /\ r.fence < MaxFence
      BY <1>6 DEF Unpark, UnparkOutcome, CheckOpIdempotency
    <3> QED BY <2>1, <3>1, BoundsAssumption DEF Fence
  <2>3. /\ p \in Shard /\ p.lo = r.lo /\ p.hi = r.hi /\ p.parent = r.parent
        /\ p.spawned = r.spawned /\ p.status = "Active" /\ p.cursor = r.cursor /\ p.log = r.log
        /\ p.fence = r.fence + 1
    <3>1. /\ c \in Shard /\ c.lo = r.lo /\ c.hi = r.hi /\ c.parent = r.parent
          /\ c.spawned = r.spawned /\ c.status = "Active" /\ c.cursor = r.cursor /\ c.log = r.log
          /\ c.fence = r.fence + 1
      BY <2>1, <2>2, ShardFields DEF Status
    <3> HIDE DEF c
    <3> QED BY <3>1, ReleasedFields
  <2>4. shards' = [shards EXCEPT ![s] = OpLogPush(p, op, hash)]
    BY <1>6 DEF Unpark
  <2> HIDE DEF p, hash
  <2>6. p.fence >= r.fence
    BY <2>1, <2>3
  <2> QED BY <2>1, <2>2, <2>3, <2>4, <2>6, RewriteByPush
<1> QED BY <1>1, <1>2, <1>3, <1>4, <1>5, <1>6

\* A record is retired by a split: its children, in order of index, are new
\* beside the records there were, and its own record lists them.
Replaced(s, op, children, ids, q) ==
    /\ s \in DOMAIN shards /\ s \in ShardId /\ shards[s] \in Shard /\ shards[s].status = "Active"
    /\ op \in OpId /\ children \in Seq(Child) /\ Len(children) \in Nat
    /\ ValidSplitCoverage(shards[s].lo, shards[s].hi, children)
    /\ ids = ChildIds(s, shards[s], op, Len(children))
    /\ ids \in [1..Len(children) -> ShardId]
    /\ \A i \in 1..Len(children) : ids[i] \notin DOMAIN shards
    /\ \A i, j \in 1..Len(children) : ids[i] = ids[j] => i = j
    /\ DOMAIN shards' = DOMAIN shards \cup {ids[i] : i \in 1..Len(children)}
    /\ \A i \in 1..Len(children) :
          shards'[ids[i]] = NewShard(children[i].lo, children[i].hi, children[i].cursor, s)
    /\ \A x \in DOMAIN shards : x # s => shards'[x] = shards[x]
    /\ shards'[s] = q
    /\ q.status = "Split" /\ q.parent = shards[s].parent /\ q.cursor = shards[s].cursor
    /\ q.fence = shards[s].fence
    /\ q.lo = shards[s].lo /\ q.hi = shards[s].hi
    /\ q.spawned = shards[s].spawned \o ids
    /\ \A e \in OpLogEntries(q) :
          e \in OpLogEntries(shards[s]) \/ e = [op |-> op, hash |-> <<"SplitReplace", children>>]

\* split_replace retires one record.
LEMMA ReplaceSteps ==
    ASSUME Inv, NEW lease \in grants, NEW op \in OpId, NEW children \in Seq(Child),
           SplitReplace(lease, op, children)
    PROVE  \E ids, q : Replaced(lease.shard, op, children, ids, q)
<1> DEFINE s == lease.shard
           r == shards[s]
           hash == <<"SplitReplace", children>>
           n == Len(children)
           ids == ChildIds(s, r, op, n)
           new == {ids[i] : i \in 1..n}
           closed == [r EXCEPT !.spawned = r.spawned \o ids, !.status = "Split"]
           free == Released(closed)
           q == OpLogPush(free, op, hash)
           child(x) == LET c == children[CHOOSE i \in 1..n : ids[i] = x]
                       IN NewShard(c.lo, c.hi, c.cursor, s)
<1>1. /\ s \in DOMAIN shards /\ s \in ShardId /\ r \in Shard /\ ShardOK(r)
      /\ hash \in PayloadHash /\ n \in Nat
  BY GrantedShard DEF PayloadHash
<1>2. /\ ValidLease(r, lease, now) /\ ValidSplitReplace(r, children, Cardinality(DOMAIN shards))
  <2>1. ValidSplitReplace(r, children, Cardinality(DOMAIN shards)) \in BOOLEAN
    BY DEF ValidSplitReplace
  <2> QED BY <2>1, ExecutedMeans DEF SplitReplace
<1>3. /\ r.status = "Active" /\ ValidSplitCoverage(r.lo, r.hi, children)
      /\ Len(r.spawned) + n <= MaxSpawned
  <2>1. r.status \in Status
    BY <1>1 DEF Shard
  <2> QED BY <1>2, <2>1 DEF ValidSplitReplace, CanSpawn, ValidLease, IsTerminal, Status
<1>4. r.spawned \in Seq(ShardId) /\ Len(r.spawned) \in Nat
  BY <1>1 DEF Shard
<1>5. ids \in [1..n -> ShardId]
  <2>1. \A i \in 1..n : Len(r.spawned) + i - 1 \in 0..MaxSpawned
    BY <1>1, <1>3, <1>4, BoundsAssumption
  <2>2. \A i \in 1..n : Derive(s, op, "Child", Len(r.spawned) + i - 1) \in ShardId
    BY <1>1, <2>1, DeriveAssumption
  <2> QED BY <2>2 DEF ChildIds
<1>6. /\ \A i \in 1..n : ids[i] \notin DOMAIN shards
      /\ \A i, j \in 1..n : i # j => ids[i] # ids[j]
      /\ shards' = [x \in DOMAIN shards \cup new |->
                       IF x \in new THEN child(x) ELSE IF x = s THEN q ELSE shards[x]]
  BY DEF SplitReplace
<1>7. ids = ChildIds(s, r, op, n)
  OBVIOUS
<1> HIDE DEF ids, hash
<1>8. r.spawned \o ids \in Seq(ShardId)
  BY <1>1, <1>4, <1>5
<1>9. /\ closed \in Shard /\ closed.log = r.log /\ closed.spawned = r.spawned \o ids
      /\ closed.status = "Split" /\ closed.parent = r.parent /\ closed.cursor = r.cursor
      /\ closed.lo = r.lo /\ closed.hi = r.hi /\ closed.fence = r.fence
  BY <1>1, <1>8, ShardFields DEF Status
<1> HIDE DEF closed
<1>10. /\ free \in Shard /\ free.log = r.log /\ free.spawned = r.spawned \o ids
       /\ free.status = "Split" /\ free.parent = r.parent /\ free.cursor = r.cursor
       /\ free.lo = r.lo /\ free.hi = r.hi /\ free.fence = r.fence
  BY <1>9, ReleasedFields
<1> HIDE DEF free
<1>11. /\ q.spawned = r.spawned \o ids /\ q.status = "Split" /\ q.parent = r.parent
       /\ q.cursor = r.cursor /\ q.lo = r.lo /\ q.hi = r.hi /\ q.fence = r.fence
  BY <1>10, ShardFields DEF OpLogPush
<1>12. \A e \in OpLogEntries(q) : e \in OpLogEntries(r) \/ e = [op |-> op, hash |-> hash]
  <2>1. OpLogEntries(free) = OpLogEntries(r)
    BY <1>10 DEF OpLogEntries
  <2> QED BY <1>1, <1>10, <2>1, PushEntries
<1> HIDE DEF q, child
<1>13. /\ DOMAIN shards' = DOMAIN shards \cup new
       /\ \A x \in DOMAIN shards : x # s => shards'[x] = shards[x]
       /\ shards'[s] = q
       /\ \A i \in 1..n : shards'[ids[i]] = child(ids[i])
  BY <1>1, <1>6
<1>14. ASSUME NEW i \in 1..n
       PROVE  child(ids[i]) = NewShard(children[i].lo, children[i].hi, children[i].cursor, s)
  <2>1. (CHOOSE j \in 1..n : ids[j] = ids[i]) = i
    BY <1>6
  <2> QED BY <2>1 DEF child
<1>15. /\ \A i \in 1..n : ids[i] \notin DOMAIN shards
       /\ \A i, j \in 1..n : ids[i] = ids[j] => i = j
       /\ \A i \in 1..n :
             shards'[ids[i]] = NewShard(children[i].lo, children[i].hi, children[i].cursor, s)
  BY <1>6, <1>13, <1>14
<1>16. Replaced(s, op, children, ids, q)
  BY <1>1, <1>3, <1>5, <1>7, <1>11, <1>12, <1>13, <1>15 DEF Replaced, hash
<1> QED BY <1>16

\* A record keeps the left part of its range; the residual is new beside the
\* records there were and listed last.
Carved(s, op, newParent, residual, id, q) ==
    /\ s \in DOMAIN shards /\ s \in ShardId /\ shards[s] \in Shard /\ shards[s].status = "Active"
    /\ op \in OpId /\ newParent \in KeyRange /\ residual \in KeyRange
    /\ newParent.lo = shards[s].lo /\ newParent.lo < newParent.hi
    /\ newParent.hi = residual.lo
    /\ residual.hi = shards[s].hi /\ residual.lo < residual.hi
    /\ shards[s].cursor # NoKey => InRange(shards[s].cursor, newParent.lo, newParent.hi)
    /\ id = Derive(s, op, "Residual", Len(shards[s].spawned))
    /\ id \in ShardId /\ id \notin DOMAIN shards
    /\ DOMAIN shards' = DOMAIN shards \cup {id}
    /\ shards'[id] = NewShard(residual.lo, residual.hi, NoKey, s)
    /\ \A x \in DOMAIN shards : x # s => shards'[x] = shards[x]
    /\ shards'[s] = q
    /\ q.status = "Active" /\ q.parent = shards[s].parent /\ q.cursor = shards[s].cursor
    /\ q.fence = shards[s].fence
    /\ q.lo = newParent.lo /\ q.hi = newParent.hi
    /\ q.spawned = Append(shards[s].spawned, id)
    /\ \A e \in OpLogEntries(q) :
          \/ e \in OpLogEntries(shards[s])
          \/ e = [op |-> op, hash |-> <<"SplitResidual", <<newParent, residual>>>>]

\* split_residual carves one record.
LEMMA CarveSteps ==
    ASSUME Inv, NEW lease \in grants, NEW op \in OpId,
           NEW newParent \in KeyRange, NEW residual \in KeyRange,
           SplitResidual(lease, op, newParent, residual)
    PROVE  \E id, q : Carved(lease.shard, op, newParent, residual, id, q)
<1> DEFINE s == lease.shard
           r == shards[s]
           hash == <<"SplitResidual", <<newParent, residual>>>>
           id == Derive(s, op, "Residual", Len(r.spawned))
           shrunk == [r EXCEPT !.lo = newParent.lo, !.hi = newParent.hi,
                               !.spawned = Append(r.spawned, id)]
           q == OpLogPush(shrunk, op, hash)
           new == NewShard(residual.lo, residual.hi, NoKey, s)
<1>1. /\ s \in DOMAIN shards /\ s \in ShardId /\ r \in Shard /\ ShardOK(r)
      /\ hash \in PayloadHash
  BY GrantedShard DEF PayloadHash
<1>2. /\ ValidLease(r, lease, now)
      /\ ValidSplitResidual(r, newParent, residual, Cardinality(DOMAIN shards))
  <2>1. ValidSplitResidual(r, newParent, residual, Cardinality(DOMAIN shards)) \in BOOLEAN
    BY DEF ValidSplitResidual
  <2> QED BY <2>1, ExecutedMeans DEF SplitResidual
<1>3. /\ r.status = "Active" /\ Len(r.spawned) + 1 <= MaxSpawned
      /\ newParent.lo = r.lo /\ residual.hi = r.hi
      /\ r.cursor # NoKey => InRange(r.cursor, newParent.lo, newParent.hi)
  <2>1. r.status \in Status
    BY <1>1 DEF Shard
  <2> QED BY <1>2, <2>1 DEF ValidSplitResidual, CanSpawn, ValidLease, IsTerminal, Status
<1>4. newParent.lo < newParent.hi /\ newParent.hi = residual.lo /\ residual.lo < residual.hi
  <2> DEFINE c == <<newParent, residual>>
  <2>1. Len(c) = 2 /\ c[1] = newParent /\ c[2] = residual
    OBVIOUS
  <2>2. ValidSplitCoverage(r.lo, r.hi, c)
    BY <1>2 DEF ValidSplitResidual
  <2> HIDE DEF c
  <2>3. /\ c[1].hi = c[2].lo /\ c[1].lo < c[1].hi /\ c[2].lo < c[2].hi
    BY <2>1, <2>2 DEF ValidSplitCoverage
  <2> QED BY <2>1, <2>3
<1>5. /\ r.spawned \in Seq(ShardId) /\ id \in ShardId /\ Append(r.spawned, id) \in Seq(ShardId)
  <2>1. r.spawned \in Seq(ShardId) /\ Len(r.spawned) \in 0..MaxSpawned
    BY <1>1, <1>3, BoundsAssumption DEF Shard
  <2>2. id \in ShardId
    BY <1>1, <2>1, DeriveAssumption
  <2> QED BY <2>1, <2>2
<1>6. /\ newParent.lo \in Bound /\ newParent.hi \in Bound
  BY DEF KeyRange
<1>7. /\ id \notin DOMAIN shards
      /\ shards' = [x \in DOMAIN shards \cup {id} |->
                       IF x = id THEN new ELSE IF x = s THEN q ELSE shards[x]]
  BY DEF SplitResidual
<1>8. id = Derive(s, op, "Residual", Len(r.spawned))
  OBVIOUS
<1> HIDE DEF id, hash
<1>9. /\ shrunk \in Shard /\ shrunk.status = r.status /\ shrunk.log = r.log
      /\ shrunk.spawned = Append(r.spawned, id) /\ shrunk.parent = r.parent
      /\ shrunk.cursor = r.cursor /\ shrunk.lo = newParent.lo /\ shrunk.hi = newParent.hi
      /\ shrunk.fence = r.fence
  BY <1>1, <1>5, <1>6, ShardFields
<1> HIDE DEF shrunk
<1>10. /\ q.spawned = Append(r.spawned, id) /\ q.status = r.status /\ q.parent = r.parent
       /\ q.cursor = r.cursor /\ q.lo = newParent.lo /\ q.hi = newParent.hi /\ q.fence = r.fence
  BY <1>9, ShardFields DEF OpLogPush
<1>11. \A e \in OpLogEntries(q) : e \in OpLogEntries(r) \/ e = [op |-> op, hash |-> hash]
  <2>1. OpLogEntries(shrunk) = OpLogEntries(r)
    BY <1>9 DEF OpLogEntries
  <2> QED BY <1>1, <1>9, <2>1, PushEntries
<1> HIDE DEF q, new
<1>12. /\ DOMAIN shards' = DOMAIN shards \cup {id}
       /\ \A x \in DOMAIN shards : x # s => shards'[x] = shards[x]
       /\ shards'[s] = q /\ shards'[id] = new
  BY <1>1, <1>7
<1>13. Carved(s, op, newParent, residual, id, q)
  BY <1>1, <1>3, <1>4, <1>5, <1>7, <1>8, <1>10, <1>11, <1>12 DEF Carved, hash, new
<1> QED BY <1>13

\* Every step leaves the records alone, rewrites one, or splits one.
LEMMA NextShapes ==
    ASSUME Inv, [Next]_vars
    PROVE  \/ shards' = shards
           \/ \E s, q : Rewritten(s, q)
           \/ \E s, op, children, ids, q :
                 Replaced(s, op, children, ids, q) /\ CursorsInside(children)
           \/ \E s, op, newParent, residual, id, q :
                 Carved(s, op, newParent, residual, id, q)
<1>1. CASE Tick \/ UNCHANGED vars
  BY <1>1 DEF Tick, vars
<1>2. CASE \E w \in Worker, s \in DOMAIN shards : Acquire(w, s)
  BY <1>2, RewriteSteps
<1>3. CASE \E lease \in grants : Renew(lease)
  BY <1>3, RewriteSteps
<1>4. CASE \E s \in DOMAIN shards, op \in OpId : Unpark(s, op)
  BY <1>4, RewriteSteps
<1>5. ASSUME NEW lease \in grants, NEW op \in OpId, LeaseOp(lease, op)
      PROVE  \/ \E s, q : Rewritten(s, q)
             \/ \E s, children, ids, q :
                   Replaced(s, op, children, ids, q) /\ CursorsInside(children)
             \/ \E s, newParent, residual, id, q :
                   Carved(s, op, newParent, residual, id, q)
  <2>1. CASE \E k \in Cursor : Checkpoint(lease, op, k)
    BY <2>1, RewriteSteps
  <2>2. CASE \E k \in Cursor : Complete(lease, op, k)
    BY <2>2, RewriteSteps
  <2>3. CASE \E reason \in Reason : Park(lease, op, reason)
    BY <2>3, RewriteSteps
  <2>4. ASSUME NEW cut \in Cuts(MaxChildren), NEW inherit \in BOOLEAN,
               SplitReplace(lease, op, PlannedChildren(cut, shards[lease.shard].cursor, inherit))
        PROVE  \E s, children, ids, q :
                   Replaced(s, op, children, ids, q) /\ CursorsInside(children)
    <3> DEFINE children == PlannedChildren(cut, shards[lease.shard].cursor, inherit)
    <3>1. shards[lease.shard].cursor \in Cursor
      BY GrantedShard DEF Shard
    <3>2. children \in Seq(Child) /\ CursorsInside(children)
      BY <3>1, PlannedChildrenType, PlannedCursorsInside, BoundsAssumption
    <3>3. SplitReplace(lease, op, children)
      BY <2>4
    <3> HIDE DEF children
    <3> QED BY <3>2, <3>3, ReplaceSteps
  <2>5. ASSUME NEW cut \in Cuts(2),
               SplitResidual(lease, op, [lo |-> cut[1], hi |-> cut[2]], [lo |-> cut[2], hi |-> cut[3]])
        PROVE  \E s, newParent, residual, id, q : Carved(s, op, newParent, residual, id, q)
    <3>1. PICK m \in 2..2 : cut \in [1..(m + 1) -> Bound]
      BY CutsType
    <3>2. cut[1] \in Bound /\ cut[2] \in Bound /\ cut[3] \in Bound
      BY <3>1
    <3>3. [lo |-> cut[1], hi |-> cut[2]] \in KeyRange /\ [lo |-> cut[2], hi |-> cut[3]] \in KeyRange
      BY <3>2 DEF KeyRange
    <3> QED BY <2>5, <3>3, CarveSteps
  <2>6. ASSUME NEW children, SplitReplaceFails(lease, op, children)
        PROVE  \E s, q : Rewritten(s, q)
    <3> DEFINE s == lease.shard
    <3>1. s \in DOMAIN shards /\ shards[s] \in Shard /\ shards[s].fence \in Int
      BY GrantedShard, FenceIsInt
    <3>2. shards' = [shards EXCEPT ![s] = shards[s]] /\ ValidLease(shards[s], lease, now)
      BY <2>6, FailedSplitRestores
    <3>3. shards[s].status # "Split"
      BY <3>2 DEF ValidLease, IsTerminal
    <3>4. Rewritten(s, shards[s])
      BY <3>1, <3>2, <3>3 DEF Rewritten
    <3> QED BY <3>4
  <2> QED BY <1>5, <2>1, <2>2, <2>3, <2>4, <2>5, <2>6 DEF LeaseOp
<1> QED BY <1>1, <1>2, <1>3, <1>4, <1>5 DEF Next

-----------------------------------------------------------------------------
(* Key ranges                                                              *)

\* Shard s answers for key k.
Owns(s, k) == shards[s].status # "Split" /\ InRange(k, shards[s].lo, shards[s].hi)

\* Key k belongs to the manifest.
Rooted(k) == \E s \in DOMAIN Manifest : InRange(k, Manifest[s].lo, Manifest[s].hi)

\* Coverage without counting: no key has two owners, and the keys with an owner
\* are those of the manifest.
SoleOwner == \A k \in 1..K : \A s, t \in DOMAIN shards : Owns(s, k) /\ Owns(t, k) => s = t
Covered == \A k \in 1..K : (\E s \in DOMAIN shards : Owns(s, k)) <=> Rooted(k)

\* The invariant of the ranges.
RangesInv == SoleOwner /\ Covered /\ CursorInRange

\* Sole ownership and cover, counted.
LEMMA RangesCounted == RangesInv => RangesSound
<1> SUFFICES ASSUME RangesInv PROVE RangesSound
  OBVIOUS
<1> SUFFICES ASSUME NEW k \in 1..K
             PROVE  Cardinality({s \in DOMAIN shards : Owns(s, k)}) = IF Rooted(k) THEN 1 ELSE 0
  BY DEF RangesInv, RangesSound, Coverage, Owns, Rooted
<1> DEFINE owners == {s \in DOMAIN shards : Owns(s, k)}
<1>1. CASE Rooted(k)
  <2>1. PICK s \in DOMAIN shards : Owns(s, k)
    BY <1>1 DEF RangesInv, Covered
  <2>2. owners = {s}
    BY <2>1 DEF RangesInv, SoleOwner
  <2> QED BY <1>1, <2>2, FS_Singleton
<1>2. CASE ~Rooted(k)
  <2>1. owners = {}
    BY <1>2 DEF RangesInv, Covered
  <2> QED BY <1>2, <2>1, FS_EmptySet
<1> QED BY <1>1, <1>2

\* A valid manifest starts with disjoint ranges and cursors inside them.
LEMMA RangesInit == Init => RangesInv
<1> SUFFICES ASSUME Init PROVE RangesInv
  OBVIOUS
<1>1. /\ DOMAIN shards = DOMAIN Manifest
      /\ \A s \in DOMAIN shards :
            /\ shards[s].lo = Manifest[s].lo /\ shards[s].hi = Manifest[s].hi
            /\ shards[s].cursor = Manifest[s].cursor /\ shards[s].status = "Active"
  BY DEF Init, RootShards, NewShard
<1>2. \A s \in DOMAIN Manifest : Manifest[s].lo \in Int /\ Manifest[s].hi \in Int
  BY ManifestAssumption DEF Child, Bound
<1>3. \A s, t \in DOMAIN Manifest : s # t =>
         Manifest[s].hi <= Manifest[t].lo \/ Manifest[t].hi <= Manifest[s].lo
  BY ManifestAssumption DEF ValidManifest
<1>4. SoleOwner
  <2> SUFFICES ASSUME NEW k \in 1..K, NEW s \in DOMAIN shards, NEW t \in DOMAIN shards,
                      Owns(s, k), Owns(t, k), s # t
               PROVE  FALSE
    BY DEF SoleOwner
  <2>1. k \in Int /\ Manifest[s].lo <= k /\ k < Manifest[s].hi /\ Manifest[t].lo <= k /\ k < Manifest[t].hi
    BY <1>1 DEF Owns, InRange
  <2>2. Manifest[s].hi <= Manifest[t].lo \/ Manifest[t].hi <= Manifest[s].lo
    BY <1>1, <1>3
  <2> QED BY <1>1, <1>2, <2>1, <2>2
<1>5. Covered
  BY <1>1 DEF Covered, Owns, Rooted
<1>6. CursorInRange
  BY <1>1, ManifestAssumption DEF CursorInRange, ValidManifest
<1> QED BY <1>4, <1>5, <1>6 DEF RangesInv

\* A split-replace hands the parent's keys to its children, one child to a key.
LEMMA RangesReplaced ==
    ASSUME Inv, RangesInv, NEW s, NEW op, NEW children, NEW ids, NEW q,
           Replaced(s, op, children, ids, q), CursorsInside(children)
    PROVE  RangesInv'
<1> DEFINE n == Len(children)
           r == shards[s]
<1>1. /\ s \in DOMAIN shards /\ r.status = "Active" /\ children \in Seq(Child) /\ n \in Nat
      /\ \A i \in 1..n : ids[i] \notin DOMAIN shards
      /\ \A i, j \in 1..n : ids[i] = ids[j] => i = j
      /\ DOMAIN shards' = DOMAIN shards \cup {ids[i] : i \in 1..n}
      /\ \A x \in DOMAIN shards : x # s => shards'[x] = shards[x]
      /\ shards'[s] = q /\ q.status = "Split" /\ q.cursor = r.cursor /\ q.lo = r.lo /\ q.hi = r.hi
  BY DEF Replaced
<1>2. \A i \in 1..n : /\ shards'[ids[i]].status = "Active"
                      /\ shards'[ids[i]].lo = children[i].lo
                      /\ shards'[ids[i]].hi = children[i].hi
                      /\ shards'[ids[i]].cursor = children[i].cursor
  <2>1. \A i \in 1..n :
           shards'[ids[i]] = NewShard(children[i].lo, children[i].hi, children[i].cursor, s)
    BY DEF Replaced
  <2>2. \A lo, hi, c : LET z == NewShard(lo, hi, c, s)
                       IN z.status = "Active" /\ z.lo = lo /\ z.hi = hi /\ z.cursor = c
    BY DEF NewShard
  <2> QED BY <2>1, <2>2
<1>3. r.lo \in Int /\ r.hi \in Int
  BY DEF Replaced, Shard, Bound
<1>4. \A i \in 1..n : children[i].lo \in Int /\ children[i].hi \in Int
  <2>1. \A i \in 1..n : children[i] \in Child
    BY <1>1
  <2>2. \A c \in Child : c.lo \in Int /\ c.hi \in Int
    BY DEF Child, Bound
  <2> QED BY <2>1, <2>2
<1>5. /\ \A i, j \in 1..n : i < j => children[i].hi <= children[j].lo
      /\ \A k \in Int : InRange(k, r.lo, r.hi) <=>
            \E i \in 1..n : InRange(k, children[i].lo, children[i].hi)
  BY <1>1, <1>3, ChildrenPartition DEF Replaced
<1>6. ASSUME NEW k \in 1..K, NEW i \in 1..n, NEW j \in 1..n,
             InRange(k, children[i].lo, children[i].hi), InRange(k, children[j].lo, children[j].hi)
      PROVE  i = j
  <2>1. /\ children[i].lo \in Int /\ children[i].hi \in Int /\ children[j].lo \in Int
        /\ children[j].hi \in Int /\ k \in Int
    BY <1>4
  <2>2. ~(i < j)
    BY <1>5, <1>6, <2>1 DEF InRange
  <2>3. ~(j < i)
    BY <1>5, <1>6, <2>1 DEF InRange
  <2> QED BY <2>2, <2>3
<1> HIDE DEF n
<1>7. \A k : ~Owns(s, k)'
  BY <1>1 DEF Owns
<1>8. \A k : \A x \in DOMAIN shards : x # s => (Owns(x, k)' <=> Owns(x, k))
  BY <1>1 DEF Owns
<1>9. \A k : \A i \in 1..n : Owns(ids[i], k)' <=> InRange(k, children[i].lo, children[i].hi)
  BY <1>2 DEF Owns
<1>10. \A k \in 1..K : Owns(s, k) <=> \E i \in 1..n : InRange(k, children[i].lo, children[i].hi)
  <2>1. \A k \in 1..K : k \in Int
    OBVIOUS
  <2> QED BY <1>1, <1>5, <2>1 DEF Owns
<1>11. SoleOwner'
  <2> SUFFICES ASSUME NEW k \in 1..K, NEW x \in DOMAIN shards', NEW y \in DOMAIN shards',
                      Owns(x, k)', Owns(y, k)'
               PROVE  x = y
    BY DEF SoleOwner
  <2>1. x # s /\ y # s
    BY <1>7
  <2>2. CASE x \in DOMAIN shards /\ y \in DOMAIN shards
    BY <1>8, <2>1, <2>2 DEF RangesInv, SoleOwner
  <2>3. ASSUME NEW a \in DOMAIN shards, NEW b \in DOMAIN shards', b \notin DOMAIN shards,
               a # s, Owns(a, k)', Owns(b, k)'
        PROVE  FALSE
    <3>1. Owns(a, k)
      BY <1>8, <2>3
    <3>2. Owns(s, k)
      BY <1>1, <1>9, <1>10, <2>3
    <3> QED BY <1>1, <2>3, <3>1, <3>2 DEF RangesInv, SoleOwner
  <2>5. CASE x \notin DOMAIN shards /\ y \notin DOMAIN shards
    <3>1. PICK i \in 1..n, j \in 1..n : x = ids[i] /\ y = ids[j]
      BY <1>1, <2>5
    <3>2. InRange(k, children[i].lo, children[i].hi) /\ InRange(k, children[j].lo, children[j].hi)
      BY <1>9, <3>1
    <3> QED BY <1>6, <3>1, <3>2
  <2> QED BY <2>1, <2>2, <2>3, <2>5
<1>12. Covered'
  <2> SUFFICES ASSUME NEW k \in 1..K
               PROVE  (\E x \in DOMAIN shards' : Owns(x, k)') <=> Rooted(k)
    BY DEF Covered, Rooted
  <2>1. (\E x \in DOMAIN shards : Owns(x, k)) <=> Rooted(k)
    BY DEF RangesInv, Covered
  <2>2. ASSUME NEW x \in DOMAIN shards, Owns(x, k)
        PROVE  \E y \in DOMAIN shards' : Owns(y, k)'
    BY <1>1, <1>8, <1>9, <1>10, <2>2
  <2>3. ASSUME NEW y \in DOMAIN shards', Owns(y, k)'
        PROVE  \E x \in DOMAIN shards : Owns(x, k)
    BY <1>1, <1>7, <1>8, <1>9, <1>10, <2>3
  <2> QED BY <2>1, <2>2, <2>3
<1>13. CursorInRange'
  <2> SUFFICES ASSUME NEW x \in DOMAIN shards', shards'[x].cursor # NoKey
               PROVE  InRange(shards'[x].cursor, shards'[x].lo, shards'[x].hi)
    BY DEF CursorInRange
  <2>1. CASE x \in DOMAIN shards
    BY <1>1, <2>1 DEF RangesInv, CursorInRange
  <2>2. CASE x \notin DOMAIN shards
    BY <1>1, <1>2, <2>2 DEF CursorsInside, n
  <2> QED BY <2>1, <2>2
<1> QED BY <1>11, <1>12, <1>13 DEF RangesInv

\* A carved shard and its residual share the keys at one point, and the cursor
\* stays on the left of it.
LEMMA RangesCarved ==
    ASSUME Inv, RangesInv, NEW s, NEW op, NEW newParent, NEW residual, NEW id, NEW q,
           Carved(s, op, newParent, residual, id, q)
    PROVE  RangesInv'
<1> DEFINE r == shards[s]
<1>1. /\ s \in DOMAIN shards /\ r.status = "Active" /\ id \notin DOMAIN shards
      /\ DOMAIN shards' = DOMAIN shards \cup {id}
      /\ \A x \in DOMAIN shards : x # s => shards'[x] = shards[x]
      /\ shards'[s] = q /\ q.status = "Active" /\ q.cursor = r.cursor
      /\ q.lo = newParent.lo /\ q.hi = newParent.hi
      /\ r.cursor # NoKey => InRange(r.cursor, newParent.lo, newParent.hi)
  BY DEF Carved
<1>2. /\ shards'[id].status = "Active" /\ shards'[id].cursor = NoKey
      /\ shards'[id].lo = residual.lo /\ shards'[id].hi = residual.hi
  BY DEF Carved, NewShard
<1>3. /\ newParent.lo \in Int /\ newParent.hi \in Int /\ residual.hi \in Int
      /\ r.lo = newParent.lo /\ newParent.lo < newParent.hi /\ residual.lo = newParent.hi
      /\ residual.lo < residual.hi /\ r.hi = residual.hi
  <2>1. \A c \in KeyRange : c.lo \in Int /\ c.hi \in Int
    BY DEF KeyRange, Bound
  <2> QED BY <2>1 DEF Carved
<1>4. \A k \in 1..K : /\ Owns(s, k) <=> Owns(s, k)' \/ Owns(id, k)'
                      /\ ~(Owns(s, k)' /\ Owns(id, k)')
  <2> SUFFICES ASSUME NEW k \in 1..K
               PROVE  /\ Owns(s, k) <=> Owns(s, k)' \/ Owns(id, k)'
                      /\ ~(Owns(s, k)' /\ Owns(id, k)')
    OBVIOUS
  <2>1. Owns(s, k) <=> r.lo <= k /\ k < r.hi
    BY <1>1 DEF Owns, InRange
  <2>2. Owns(s, k)' <=> newParent.lo <= k /\ k < newParent.hi
    BY <1>1 DEF Owns, InRange
  <2>3. Owns(id, k)' <=> residual.lo <= k /\ k < residual.hi
    BY <1>2 DEF Owns, InRange
  <2> QED BY <1>3, <2>1, <2>2, <2>3
<1>5. \A k : \A x \in DOMAIN shards : x # s => (Owns(x, k)' <=> Owns(x, k))
  BY <1>1 DEF Owns
<1>6. SoleOwner'
  <2> SUFFICES ASSUME NEW k \in 1..K, NEW x \in DOMAIN shards', NEW y \in DOMAIN shards',
                      Owns(x, k)', Owns(y, k)'
               PROVE  x = y
    BY DEF SoleOwner
  <2>1. \A a, b \in DOMAIN shards : Owns(a, k) /\ Owns(b, k) => a = b
    BY DEF RangesInv, SoleOwner
  <2> QED BY <1>1, <1>4, <1>5, <2>1
<1>7. Covered'
  <2> SUFFICES ASSUME NEW k \in 1..K
               PROVE  (\E x \in DOMAIN shards' : Owns(x, k)') <=> Rooted(k)
    BY DEF Covered, Rooted
  <2>1. (\E x \in DOMAIN shards : Owns(x, k)) <=> Rooted(k)
    BY DEF RangesInv, Covered
  <2> QED BY <1>1, <1>4, <1>5, <2>1
<1>8. CursorInRange'
  BY <1>1, <1>2 DEF RangesInv, CursorInRange
<1> QED BY <1>6, <1>7, <1>8 DEF RangesInv

\* No other step moves a range.
LEMMA RangesRewritten ==
    ASSUME Inv, RangesInv, NEW s, NEW q, Rewritten(s, q)
    PROVE  RangesInv'
<1>1. /\ DOMAIN shards' = DOMAIN shards /\ shards'[s] = q /\ s \in DOMAIN shards
      /\ \A x \in DOMAIN shards : x # s => shards'[x] = shards[x]
      /\ q.lo = shards[s].lo /\ q.hi = shards[s].hi
      /\ shards[s].status # "Split" /\ q.status # "Split"
      /\ q.cursor = shards[s].cursor \/ InRange(q.cursor, q.lo, q.hi)
  BY DEF Rewritten
<1>2. \A k : \A x \in DOMAIN shards : Owns(x, k)' <=> Owns(x, k)
  BY <1>1 DEF Owns
<1>3. SoleOwner' /\ Covered'
  BY <1>1, <1>2 DEF RangesInv, SoleOwner, Covered, Rooted
<1>4. CursorInRange'
  BY <1>1 DEF RangesInv, CursorInRange
<1> QED BY <1>3, <1>4 DEF RangesInv

\* Every step keeps the key ranges sound.
LEMMA RangesNext == Inv /\ RangesInv /\ [Next]_vars => RangesInv'
<1> SUFFICES ASSUME Inv, RangesInv, [Next]_vars PROVE RangesInv'
  OBVIOUS
<1>1. CASE shards' = shards
  BY <1>1 DEF RangesInv, SoleOwner, Covered, CursorInRange, Owns, Rooted
<1> QED BY <1>1, NextShapes, RangesRewritten, RangesReplaced, RangesCarved

\* However a run's shards are split, retried, parked and taken over, every key
\* of the manifest keeps exactly one shard to answer for it, and no cursor lies
\* outside its shard (split_replace, split_residual,
\* validate_split_coverage_bounds, validate_cursor_update_pooled).
THEOREM RangesStaySound == Spec => []RangesSound
BY Invariance, RangesInit, RangesNext, RangesCounted, PTL DEF Spec

-----------------------------------------------------------------------------
(* Lineage and replay                                                      *)

\* What a logged split says of the record: a residual is found by the index it
\* was derived with, and a record that logs a split-replace is retired, so that
\* nothing is spawned after the children.
ReplayInv ==
    \A s \in DOMAIN shards : \A e \in OpLogEntries(shards[s]) :
        /\ e.hash[1] = "SplitResidual" => ReplayedResiduals(s, shards[s], e.op) # {}
        /\ e.hash[1] = "SplitReplace" =>
              LET n == Len(e.hash[2])
              IN /\ shards[s].status = "Split"
                 /\ Len(shards[s].spawned) >= n
                 /\ ReplayChildIds(s, shards[s], e.op, n)
                      = SubSeq(shards[s].spawned, Len(shards[s].spawned) - n + 1,
                               Len(shards[s].spawned))

\* The invariant of the lineage.
LineageInv == Lineage /\ ReplayInv

\* New shards w, listed by s and naming it as their parent, keep the lineage a tree.
LEMMA LineageGrown ==
    ASSUME Inv, Lineage, NEW s \in DOMAIN shards, NEW w \in Seq(ShardId),
           \A i \in 1..Len(w) : w[i] \notin DOMAIN shards,
           \A i, j \in 1..Len(w) : w[i] = w[j] => i = j,
           DOMAIN shards' = DOMAIN shards \cup {w[i] : i \in 1..Len(w)},
           \A i \in 1..Len(w) : shards'[w[i]].parent = s /\ shards'[w[i]].spawned = <<>>,
           \A x \in DOMAIN shards : x # s => shards'[x] = shards[x],
           shards'[s].parent = shards[s].parent,
           shards'[s].spawned = shards[s].spawned \o w
    PROVE  Lineage'
<1> DEFINE a == shards[s].spawned
           b == shards'[s].spawned
<1>1. a \in Seq(ShardId) /\ Len(a) \in Nat /\ Len(w) \in Nat /\ s \in ShardId
  BY DEF Inv, TypeOK, ShardOK, Shard
<1>2. /\ b = a \o w /\ Len(b) = Len(a) + Len(w) /\ DOMAIN b = 1..(Len(a) + Len(w))
      /\ \A i \in 1..Len(a) : b[i] = a[i]
      /\ \A i \in 1..Len(w) : b[Len(a) + i] = w[i]
      /\ \A i \in 1..(Len(a) + Len(w)) : i \in 1..Len(a) \/ i - Len(a) \in 1..Len(w)
  BY <1>1, SpawnedGrows
<1>3. DOMAIN a = 1..Len(a)
  BY <1>1
<1> HIDE DEF b
<1>4. \A x \in DOMAIN shards : \A i, j \in DOMAIN shards[x].spawned :
         shards[x].spawned[i] = shards[x].spawned[j] => i = j
  BY DEF Lineage
<1>5. \A x \in DOMAIN shards : \A i \in DOMAIN shards[x].spawned :
         shards[x].spawned[i] \in DOMAIN shards /\ shards[shards[x].spawned[i]].parent = x
  BY DEF Lineage
<1>6. \A i, j \in 1..Len(a) : a[i] = a[j] => i = j
  BY <1>3, <1>4
<1>7. \A i \in DOMAIN b : (i \in 1..Len(a) /\ b[i] = a[i])
                           \/ (i - Len(a) \in 1..Len(w) /\ b[i] = w[i - Len(a)])
  <2> SUFFICES ASSUME NEW i \in DOMAIN b, i - Len(a) \in 1..Len(w)
               PROVE  b[i] = w[i - Len(a)]
    BY <1>2
  <2>1. i = Len(a) + (i - Len(a))
    BY <1>1, <1>2
  <2> QED BY <1>2, <2>1
<1>8. \A i \in 1..Len(a) : a[i] \in DOMAIN shards /\ shards[a[i]].parent = s
  BY <1>3, <1>5
<1>9. \A x \in DOMAIN shards : x \in DOMAIN shards' /\ shards'[x].parent = shards[x].parent
  OBVIOUS
<1>10. \A i, j \in DOMAIN b : b[i] = b[j] => i = j
  <2> SUFFICES ASSUME NEW i \in DOMAIN b, NEW j \in DOMAIN b, b[i] = b[j] PROVE i = j
    OBVIOUS
  <2>1. i \in Int /\ j \in Int
    BY <1>1, <1>2
  <2>2. CASE i \in 1..Len(a) /\ b[i] = a[i] /\ j \in 1..Len(a) /\ b[j] = a[j]
    <3>1. i \in 1..Len(a) /\ j \in 1..Len(a) /\ a[i] = a[j]
      BY <2>2
    <3> HIDE DEF a
    <3> QED BY <1>6, <3>1
  <2>3. CASE /\ i - Len(a) \in 1..Len(w) /\ b[i] = w[i - Len(a)]
             /\ j - Len(a) \in 1..Len(w) /\ b[j] = w[j - Len(a)]
    <3>1. i - Len(a) = j - Len(a)
      BY <2>3
    <3> QED BY <1>1, <2>1, <3>1
  <2>4. CASE i \in 1..Len(a) /\ b[i] = a[i] /\ j - Len(a) \in 1..Len(w) /\ b[j] = w[j - Len(a)]
    BY <1>8, <2>4
  <2>5. CASE j \in 1..Len(a) /\ b[j] = a[j] /\ i - Len(a) \in 1..Len(w) /\ b[i] = w[i - Len(a)]
    BY <1>8, <2>5
  <2> QED BY <1>7, <2>2, <2>3, <2>4, <2>5
<1>11. \A i \in DOMAIN b : b[i] \in DOMAIN shards' /\ shards'[b[i]].parent = s
  <2> SUFFICES ASSUME NEW i \in DOMAIN b
               PROVE  b[i] \in DOMAIN shards' /\ shards'[b[i]].parent = s
    OBVIOUS
  <2>1. CASE i \in 1..Len(a) /\ b[i] = a[i]
    <3>1. a[i] \in DOMAIN shards /\ shards[a[i]].parent = s
      BY <1>8, <2>1
    <3>2. a[i] \in DOMAIN shards' /\ shards'[a[i]].parent = s
      BY <1>9, <3>1
    <3> QED BY <2>1, <3>2
  <2>2. CASE i - Len(a) \in 1..Len(w) /\ b[i] = w[i - Len(a)]
    BY <2>2
  <2> QED BY <1>7, <2>1, <2>2
<1>12. ASSUME NEW x \in DOMAIN shards, shards[x].parent # NoShard
       PROVE  /\ shards[x].parent \in DOMAIN shards'
              /\ \E i \in DOMAIN shards'[shards[x].parent].spawned :
                    shards'[shards[x].parent].spawned[i] = x
  <2> DEFINE p == shards[x].parent
  <2>1. p \in DOMAIN shards /\ \E i \in DOMAIN shards[p].spawned : shards[p].spawned[i] = x
    BY <1>12 DEF Lineage
  <2> HIDE DEF p
  <2>2. CASE p # s
    BY <2>1, <2>2 DEF p
  <2>3. CASE p = s
    <3>1. PICK i \in 1..Len(a) : a[i] = x
      BY <1>3, <2>1, <2>3
    <3>2. i \in DOMAIN b /\ b[i] = x
      BY <1>1, <1>2, <3>1
    <3> QED BY <2>1, <2>3, <3>2 DEF p, b
  <2> QED BY <2>2, <2>3
<1>13. \A i \in 1..Len(w) : \E j \in DOMAIN b : b[j] = w[i]
  <2> SUFFICES ASSUME NEW i \in 1..Len(w) PROVE Len(a) + i \in DOMAIN b /\ b[Len(a) + i] = w[i]
    OBVIOUS
  <2> QED BY <1>1, <1>2
<1>14. ASSUME NEW x \in DOMAIN shards'
       PROVE  /\ \A i, j \in DOMAIN shards'[x].spawned :
                    shards'[x].spawned[i] = shards'[x].spawned[j] => i = j
              /\ \A i \in DOMAIN shards'[x].spawned :
                    /\ shards'[x].spawned[i] \in DOMAIN shards'
                    /\ shards'[shards'[x].spawned[i]].parent = x
              /\ shards'[x].parent # NoShard =>
                    /\ shards'[x].parent \in DOMAIN shards'
                    /\ \E i \in DOMAIN shards'[shards'[x].parent].spawned :
                          shards'[shards'[x].parent].spawned[i] = x
  <2>1. CASE x = s
    <3>1. \A i, j \in DOMAIN shards'[s].spawned :
             shards'[s].spawned[i] = shards'[s].spawned[j] => i = j
      BY <1>10 DEF b
    <3>2. \A i \in DOMAIN shards'[s].spawned :
             shards'[s].spawned[i] \in DOMAIN shards' /\ shards'[shards'[s].spawned[i]].parent = s
      BY <1>11 DEF b
    <3>3. shards'[s].parent # NoShard =>
             /\ shards'[s].parent \in DOMAIN shards'
             /\ \E i \in DOMAIN shards'[shards'[s].parent].spawned :
                   shards'[shards'[s].parent].spawned[i] = s
      BY <1>12
    <3> QED BY <2>1, <3>1, <3>2, <3>3
  <2>2. CASE x \in DOMAIN shards /\ x # s
    <3>1. shards'[x] = shards[x]
      BY <2>2
    <3>2. \A i \in DOMAIN shards[x].spawned :
             shards[x].spawned[i] \in DOMAIN shards' /\ shards'[shards[x].spawned[i]].parent = x
      <4> SUFFICES ASSUME NEW i \in DOMAIN shards[x].spawned
                   PROVE  /\ shards[x].spawned[i] \in DOMAIN shards'
                          /\ shards'[shards[x].spawned[i]].parent = x
        OBVIOUS
      <4>1. shards[x].spawned[i] \in DOMAIN shards /\ shards[shards[x].spawned[i]].parent = x
        BY <1>5, <2>2
      <4> QED BY <1>9, <4>1
    <3>3. \A i, j \in DOMAIN shards[x].spawned : shards[x].spawned[i] = shards[x].spawned[j] => i = j
      BY <1>4, <2>2
    <3> QED BY <1>12, <2>2, <3>1, <3>2, <3>3
  <2>3. CASE x \notin DOMAIN shards
    <3>1. PICK i \in 1..Len(w) : x = w[i]
      BY <2>3
    <3>2. shards'[x].parent = s /\ shards'[x].spawned = <<>>
      BY <3>1
    <3>3. \E j \in DOMAIN shards'[s].spawned : shards'[s].spawned[j] = x
      BY <1>13, <3>1 DEF b
    <3>4. DOMAIN shards'[x].spawned = {}
      BY <3>2
    <3> QED BY <3>2, <3>3, <3>4
  <2> QED BY <2>1, <2>2, <2>3
<1> QED BY <1>14 DEF Lineage

\* A rewritten record keeps its lineage, and no new split is to be replayed.
LEMMA LineageRewritten ==
    ASSUME Inv, LineageInv, NEW s, NEW q, Rewritten(s, q)
    PROVE  LineageInv'
<1>1. /\ DOMAIN shards' = DOMAIN shards /\ shards'[s] = q /\ s \in DOMAIN shards
      /\ \A x \in DOMAIN shards : x # s => shards'[x] = shards[x]
      /\ q.parent = shards[s].parent /\ q.spawned = shards[s].spawned
      /\ shards[s].status # "Split"
      /\ \A e \in OpLogEntries(q) :
            e \in OpLogEntries(shards[s]) \/ e.hash[1] \notin {"SplitReplace", "SplitResidual"}
  BY DEF Rewritten
<1>2. \A x \in DOMAIN shards : /\ shards'[x].parent = shards[x].parent
                               /\ shards'[x].spawned = shards[x].spawned
  BY <1>1
<1>3. Lineage'
  BY <1>1, <1>2 DEF LineageInv, Lineage
<1>4. ReplayInv'
  <2> SUFFICES ASSUME NEW x \in DOMAIN shards, NEW e \in OpLogEntries(shards'[x])
               PROVE  /\ e.hash[1] = "SplitResidual" => ReplayedResiduals(x, shards'[x], e.op) # {}
                      /\ e.hash[1] = "SplitReplace" =>
                            LET n == Len(e.hash[2])
                                r == shards'[x]
                            IN /\ r.status = "Split" /\ Len(r.spawned) >= n
                               /\ ReplayChildIds(x, r, e.op, n)
                                    = SubSeq(r.spawned, Len(r.spawned) - n + 1, Len(r.spawned))
    BY <1>1 DEF ReplayInv
  <2>1. CASE x # s
    BY <1>1, <2>1 DEF LineageInv, ReplayInv
  <2>2. CASE x = s /\ e \in OpLogEntries(shards[s])
    <3>1. /\ e.hash[1] = "SplitResidual" => ReplayedResiduals(s, shards[s], e.op) # {}
          /\ e.hash[1] # "SplitReplace"
      BY <1>1, <2>2 DEF LineageInv, ReplayInv
    <3>2. ReplayedResiduals(s, q, e.op) = ReplayedResiduals(s, shards[s], e.op)
      BY <1>1 DEF ReplayedResiduals
    <3> QED BY <1>1, <2>2, <3>1, <3>2
  <2>3. CASE x = s /\ e \notin OpLogEntries(shards[s])
    BY <1>1, <2>3
  <2> QED BY <2>1, <2>2, <2>3
<1> QED BY <1>3, <1>4 DEF LineageInv

\* A split-replace lists its children last, where its replay looks for them.
LEMMA LineageReplaced ==
    ASSUME Inv, LineageInv, NEW s, NEW op, NEW children, NEW ids, NEW q,
           Replaced(s, op, children, ids, q)
    PROVE  LineageInv'
<1> DEFINE n == Len(children)
           r == shards[s]
<1>1. /\ s \in DOMAIN shards /\ r \in Shard /\ r.status = "Active" /\ n \in Nat
      /\ ids \in [1..n -> ShardId]
      /\ \A i \in 1..n : ids[i] \notin DOMAIN shards
      /\ \A i, j \in 1..n : ids[i] = ids[j] => i = j
      /\ DOMAIN shards' = DOMAIN shards \cup {ids[i] : i \in 1..n}
      /\ \A x \in DOMAIN shards : x # s => shards'[x] = shards[x]
      /\ shards'[s] = q /\ q.status = "Split" /\ q.parent = r.parent
      /\ q.spawned = r.spawned \o ids
      /\ ids = ChildIds(s, r, op, n)
      /\ \A e \in OpLogEntries(q) :
            e \in OpLogEntries(r) \/ e = [op |-> op, hash |-> <<"SplitReplace", children>>]
  BY DEF Replaced
<1>2. \A i \in 1..n : /\ shards'[ids[i]].parent = s
                      /\ shards'[ids[i]].spawned = <<>>
                      /\ OpLogEntries(shards'[ids[i]]) = {}
  <2>1. \A i \in 1..n :
           shards'[ids[i]] = NewShard(children[i].lo, children[i].hi, children[i].cursor, s)
    BY DEF Replaced
  <2> QED BY <2>1, NewShardBlank
<1> HIDE DEF n
<1>3. ids \in Seq(ShardId) /\ Len(ids) = n /\ r.spawned \in Seq(ShardId) /\ Len(r.spawned) \in Nat
  <2>1. r.spawned \in Seq(ShardId)
    BY <1>1, ShardFields
  <2>2. n \in Nat /\ ids \in [1..n -> ShardId]
    BY <1>1
  <2> QED BY <2>1, <2>2
<1>4. Lineage'
  <2>1. /\ \A i \in 1..Len(ids) : ids[i] \notin DOMAIN shards
        /\ \A i, j \in 1..Len(ids) : ids[i] = ids[j] => i = j
        /\ \A i \in 1..Len(ids) : shards'[ids[i]].parent = s /\ shards'[ids[i]].spawned = <<>>
    BY <1>1, <1>2, <1>3
  <2>2. DOMAIN shards' = DOMAIN shards \cup {ids[i] : i \in 1..Len(ids)}
    BY <1>1, <1>3
  <2>3. /\ s \in DOMAIN shards /\ shards'[s].parent = shards[s].parent
        /\ shards'[s].spawned = shards[s].spawned \o ids
        /\ \A x \in DOMAIN shards : x # s => shards'[x] = shards[x]
    BY <1>1
  <2> QED BY <1>3, <2>1, <2>2, <2>3, LineageGrown DEF LineageInv
<1> DEFINE a == r.spawned
           b == q.spawned
<1>5. /\ b = a \o ids /\ Len(b) = Len(a) + n
      /\ \A i \in 1..Len(a) : b[i] = a[i]
      /\ DOMAIN a = 1..Len(a) /\ DOMAIN b = 1..(Len(a) + n)
      /\ SubSeq(b, Len(b) - n + 1, Len(b)) = ids
  <2>1. b = a \o ids /\ a \in Seq(ShardId) /\ ids \in Seq(ShardId) /\ Len(ids) = n
    BY <1>1, <1>3
  <2> HIDE DEF a, b
  <2>2. SubSeq(a \o ids, Len(a \o ids) - Len(ids) + 1, Len(a \o ids)) = ids
    BY <2>1, LastPart
  <2>3. /\ Len(b) = Len(a) + n /\ DOMAIN b = 1..(Len(a) + n)
        /\ \A i \in 1..Len(a) : b[i] = a[i]
    BY <2>1, SpawnedGrows
  <2>4. DOMAIN a = 1..Len(a)
    BY <2>1
  <2> QED BY <2>1, <2>2, <2>3, <2>4
<1>6. ReplayChildIds(s, q, op, n) = SubSeq(b, Len(b) - n + 1, Len(b))
  <2>1. \A i \in 1..n : Len(b) - n + i - 1 = Len(a) + i - 1
    <3>1. Len(a) \in Nat /\ Len(b) = Len(a) + n /\ n \in Nat
      BY <1>1, <1>3, <1>5
    <3> HIDE DEF a, b
    <3> QED BY <3>1
  <2>2. ReplayChildIds(s, q, op, n) = [i \in 1..n |-> Derive(s, op, "Child", Len(a) + i - 1)]
    BY <2>1 DEF ReplayChildIds
  <2>3. ids = [i \in 1..n |-> Derive(s, op, "Child", Len(a) + i - 1)]
    BY <1>1 DEF ChildIds
  <2> QED BY <1>5, <2>2, <2>3
<1>7. ReplayInv'
  <2> SUFFICES ASSUME NEW x \in DOMAIN shards', NEW e \in OpLogEntries(shards'[x])
               PROVE  /\ e.hash[1] = "SplitResidual" => ReplayedResiduals(x, shards'[x], e.op) # {}
                      /\ e.hash[1] = "SplitReplace" =>
                            LET m == Len(e.hash[2])
                                z == shards'[x]
                            IN /\ z.status = "Split" /\ Len(z.spawned) >= m
                               /\ ReplayChildIds(x, z, e.op, m)
                                    = SubSeq(z.spawned, Len(z.spawned) - m + 1, Len(z.spawned))
    BY DEF ReplayInv
  <2>1. CASE x \in DOMAIN shards /\ x # s
    <3>1. shards'[x] = shards[x]
      BY <1>1, <2>1
    <3> QED BY <2>1, <3>1 DEF LineageInv, ReplayInv
  <2>2. CASE x \notin DOMAIN shards
    BY <1>1, <1>2, <2>2
  <2>3. CASE x = s /\ e \in OpLogEntries(r)
    <3>1. /\ e.hash[1] = "SplitResidual" => ReplayedResiduals(s, r, e.op) # {}
          /\ e.hash[1] # "SplitReplace"
      BY <1>1, <2>3 DEF LineageInv, ReplayInv
    <3>2. ReplayedResiduals(s, r, e.op) \subseteq ReplayedResiduals(s, q, e.op)
      <4>1. \A i \in DOMAIN a : i \in DOMAIN b /\ b[i] = a[i]
        BY <1>1, <1>3, <1>5
      <4> QED BY <4>1 DEF ReplayedResiduals
    <3> QED BY <1>1, <2>3, <3>1, <3>2
  <2>4. CASE x = s /\ e = [op |-> op, hash |-> <<"SplitReplace", children>>]
    <3>1. e.hash[1] = "SplitReplace" /\ e.hash[2] = children /\ e.op = op
      BY <2>4
    <3>2. Len(e.hash[2]) = n
      BY <3>1 DEF n
    <3>3. Len(b) >= n
      <4>1. Len(a) \in Nat /\ Len(b) = Len(a) + n /\ n \in Nat
        BY <1>1, <1>3, <1>5
      <4> HIDE DEF a, b
      <4> QED BY <4>1
    <3> QED BY <1>1, <1>6, <2>4, <3>1, <3>2, <3>3
  <2> QED BY <1>1, <2>1, <2>2, <2>3, <2>4
<1> QED BY <1>4, <1>7 DEF LineageInv

\* A split-residual lists its residual under the index it was derived with.
LEMMA LineageCarved ==
    ASSUME Inv, LineageInv, NEW s, NEW op, NEW newParent, NEW residual, NEW id, NEW q,
           Carved(s, op, newParent, residual, id, q)
    PROVE  LineageInv'
<1> DEFINE r == shards[s]
           w == <<id>>
<1>1. /\ s \in DOMAIN shards /\ r \in Shard /\ r.status = "Active"
      /\ id \in ShardId /\ id \notin DOMAIN shards
      /\ DOMAIN shards' = DOMAIN shards \cup {id}
      /\ \A x \in DOMAIN shards : x # s => shards'[x] = shards[x]
      /\ shards'[s] = q /\ q.status = "Active" /\ q.parent = r.parent
      /\ q.spawned = Append(r.spawned, id)
      /\ id = Derive(s, op, "Residual", Len(r.spawned))
      /\ \A e \in OpLogEntries(q) :
            \/ e \in OpLogEntries(r)
            \/ e = [op |-> op, hash |-> <<"SplitResidual", <<newParent, residual>>>>]
  BY DEF Carved
<1>2. shards'[id].parent = s /\ shards'[id].spawned = <<>> /\ OpLogEntries(shards'[id]) = {}
  <2>1. shards'[id] = NewShard(residual.lo, residual.hi, NoKey, s)
    BY DEF Carved
  <2> QED BY <2>1, NewShardBlank
<1>3. /\ r.spawned \in Seq(ShardId) /\ Len(r.spawned) \in Nat
      /\ w \in Seq(ShardId) /\ Len(w) = 1 /\ w[1] = id
      /\ {w[i] : i \in 1..Len(w)} = {id}
      /\ Append(r.spawned, id) = r.spawned \o w
  BY <1>1 DEF Shard
<1> HIDE DEF w
<1>4. Lineage'
  <2>1. /\ \A i \in 1..Len(w) : i = 1 /\ w[i] = id
    BY <1>3
  <2>2. DOMAIN shards' = DOMAIN shards \cup {w[i] : i \in 1..Len(w)}
    BY <1>1, <1>3
  <2>3. /\ \A i \in 1..Len(w) : w[i] \notin DOMAIN shards
        /\ \A i, j \in 1..Len(w) : w[i] = w[j] => i = j
        /\ \A i \in 1..Len(w) : shards'[w[i]].parent = s /\ shards'[w[i]].spawned = <<>>
    BY <1>1, <1>2, <2>1
  <2>4. /\ s \in DOMAIN shards /\ shards'[s].parent = shards[s].parent
        /\ shards'[s].spawned = shards[s].spawned \o w
        /\ \A x \in DOMAIN shards : x # s => shards'[x] = shards[x]
    BY <1>1, <1>3
  <2> QED BY <1>3, <2>2, <2>3, <2>4, LineageGrown DEF LineageInv
<1>5. /\ Len(q.spawned) = Len(r.spawned) + 1
      /\ q.spawned[Len(r.spawned) + 1] = id
      /\ \A i \in 1..Len(r.spawned) : q.spawned[i] = r.spawned[i]
      /\ DOMAIN q.spawned = 1..(Len(r.spawned) + 1) /\ DOMAIN r.spawned = 1..Len(r.spawned)
  BY <1>1, <1>3
<1>6. ReplayInv'
  <2> SUFFICES ASSUME NEW x \in DOMAIN shards', NEW e \in OpLogEntries(shards'[x])
               PROVE  /\ e.hash[1] = "SplitResidual" => ReplayedResiduals(x, shards'[x], e.op) # {}
                      /\ e.hash[1] = "SplitReplace" =>
                            LET m == Len(e.hash[2])
                                z == shards'[x]
                            IN /\ z.status = "Split" /\ Len(z.spawned) >= m
                               /\ ReplayChildIds(x, z, e.op, m)
                                    = SubSeq(z.spawned, Len(z.spawned) - m + 1, Len(z.spawned))
    BY DEF ReplayInv
  <2>1. CASE x \in DOMAIN shards /\ x # s
    <3>1. shards'[x] = shards[x]
      BY <1>1, <2>1
    <3> QED BY <2>1, <3>1 DEF LineageInv, ReplayInv
  <2>2. CASE x \notin DOMAIN shards
    BY <1>1, <1>2, <2>2
  <2>3. CASE x = s /\ e \in OpLogEntries(r)
    <3>1. /\ e.hash[1] = "SplitResidual" => ReplayedResiduals(s, r, e.op) # {}
          /\ e.hash[1] # "SplitReplace"
      BY <1>1, <2>3 DEF LineageInv, ReplayInv
    <3>2. ReplayedResiduals(s, r, e.op) \subseteq ReplayedResiduals(s, q, e.op)
      <4> SUFFICES ASSUME NEW i \in DOMAIN r.spawned, r.spawned[i] = Derive(s, e.op, "Residual", i - 1)
                   PROVE  i \in DOMAIN q.spawned /\ q.spawned[i] = Derive(s, e.op, "Residual", i - 1)
        BY DEF ReplayedResiduals
      <4>1. i \in 1..Len(r.spawned) /\ Len(r.spawned) \in Nat
        BY <1>3, <1>5
      <4>2. i \in 1..(Len(r.spawned) + 1) /\ q.spawned[i] = r.spawned[i]
        BY <1>5, <4>1
      <4> QED BY <1>5, <4>2
    <3> QED BY <1>1, <2>3, <3>1, <3>2
  <2>4. CASE x = s /\ e = [op |-> op, hash |-> <<"SplitResidual", <<newParent, residual>>>>]
    <3>1. e.hash[1] = "SplitResidual" /\ e.op = op
      BY <2>4
    <3>2. Len(r.spawned) + 1 \in ReplayedResiduals(s, q, op)
      <4>1. (Len(r.spawned) + 1) - 1 = Len(r.spawned) /\ Len(r.spawned) + 1 \in 1..(Len(r.spawned) + 1)
        BY <1>3
      <4> QED BY <1>1, <1>5, <4>1 DEF ReplayedResiduals
    <3> QED BY <1>1, <2>4, <3>1, <3>2
  <2> QED BY <1>1, <2>1, <2>2, <2>3, <2>4
<1> QED BY <1>4, <1>6 DEF LineageInv

\* Every step keeps the lineage and what replays read off it.
LEMMA LineageNext == Inv /\ LineageInv /\ [Next]_vars => LineageInv'
<1> SUFFICES ASSUME Inv, LineageInv, [Next]_vars PROVE LineageInv'
  OBVIOUS
<1>1. CASE shards' = shards
  <2>1. Lineage'
    BY <1>1 DEF LineageInv, Lineage
  <2>2. ReplayInv'
    BY <1>1, Zenon DEF LineageInv, ReplayInv
  <2> QED BY <2>1, <2>2 DEF LineageInv
<1> QED BY <1>1, NextShapes, LineageRewritten, LineageReplaced, LineageCarved

\* The roots of a manifest have no lineage yet.
LEMMA LineageInit == Init => LineageInv
<1> SUFFICES ASSUME Init PROVE LineageInv
  OBVIOUS
<1>1. \A s \in DOMAIN shards :
         shards[s].parent = NoShard /\ shards[s].spawned = <<>> /\ OpLogEntries(shards[s]) = {}
  BY NewShardBlank DEF Init, RootShards
<1>2. Lineage
  <2>1. DOMAIN <<>> = {}
    OBVIOUS
  <2> QED BY <1>1, <2>1 DEF Lineage
<1>3. ReplayInv
  BY <1>1 DEF ReplayInv
<1> QED BY <1>2, <1>3 DEF LineageInv

\* The split tree can be walked both ways at all times, and a split retried
\* after its answer was lost finds exactly the shards it made, evicted log
\* entries notwithstanding (new_split_child, find_replayed_residual,
\* split_replace_replay_child_ids).
THEOREM LineageStaysSound == Spec => []LineageSound
<1>1. LineageInv => LineageSound
  BY DEF LineageInv, LineageSound, ReplayInv, ReplayFindsChildren
<1> QED BY <1>1, Invariance, LineageInit, LineageNext, PTL DEF Spec

-----------------------------------------------------------------------------
(* Retries                                                                 *)

\* A log never loses the operation it recorded last, and the log is asked
\* before the lease.
LEMMA LastOpReplayed == Inv => RetryIsReplayed
<1> SUFFICES ASSUME Inv, NEW lease \in grants, shards[lease.shard].log # <<>>
             PROVE  LET r == shards[lease.shard]
                        e == r.log[Len(r.log)]
                    IN LeaseOpOutcome(r, lease, now, e.op, e.hash, FALSE) = "Replayed"
  BY DEF RetryIsReplayed
<1> DEFINE r == shards[lease.shard]
           e == r.log[Len(r.log)]
<1>1. r.log \in Seq([op : OpId, hash : PayloadHash])
  BY GrantedShard, ShardFields
<1>2. Len(r.log) \in DOMAIN r.log /\ e \in [op : OpId, hash : PayloadHash]
  <2> DEFINE log == r.log
             E == [op : OpId, hash : PayloadHash]
  <2>1. log \in Seq(E) /\ log # <<>>
    BY <1>1
  <2> HIDE DEF log, E
  <2>2. Len(log) \in Nat \ {0} /\ DOMAIN log = 1..Len(log)
    BY <2>1, EmptySeq, LenProperties
  <2>3. Len(log) \in DOMAIN log /\ log[Len(log)] \in E
    BY <2>1, <2>2
  <2> QED BY <2>3 DEF log, E
<1>3. e \in OpLogEntries(r)
  BY <1>2 DEF OpLogEntries
<1>4. e = [op |-> e.op, hash |-> e.hash]
  BY <1>2
<1> HIDE DEF e, r
<1>5. CheckOpIdempotency(r, e.op, e.hash) = "Replayed"
  BY <1>3, <1>4 DEF CheckOpIdempotency
<1>6. LeaseOpOutcome(r, lease, now, e.op, e.hash, FALSE) = "Replayed"
  BY <1>5 DEF LeaseOpOutcome
<1> QED BY <1>6 DEF e, r

\* Whoever retries the latest operation on a shard, with whichever lease and
\* however late, is answered from the log (check_op_idempotency).
THEOREM RetriesReplayed == Spec => []RetryIsReplayed
BY LastOpReplayed, Invariance, PTL

\* What a structural operation that took effect leaves in the record for good.
Trace(e) ==
    /\ e.shard \in DOMAIN shards
    /\ e.kind = "Complete" => shards[e.shard].status = "Done"
    /\ e.kind = "SplitReplace" => shards[e.shard].status = "Split"
    /\ e.kind = "SplitResidual" => ReplayedResiduals(e.shard, shards[e.shard], e.op) # {}
    /\ e.kind = "Park" => \/ e.fence < shards[e.shard].fence
                          \/ e.fence = shards[e.shard].fence /\ shards[e.shard].status = "Parked"

Once ==
    \A e \in DOMAIN history :
        /\ history[e] \in Nat
        /\ e.kind # "Unpark" => history[e] = 1
        /\ \A f \in DOMAIN history :
              (e.kind \in {"Complete", "SplitReplace", "SplitResidual"}
                 /\ f.kind = e.kind /\ f.shard = e.shard /\ f.op = e.op) => f = e

\* Once is inductive with the trace every effect leaves on its shard.
OnceInv == Once /\ \A e \in DOMAIN history : e.fence \in Int /\ Trace(e)

\* A step that is not recorded already in a trace, and leaves one.
NewEffect(e) ==
    /\ history' = history (+) SetToBag({e})
    /\ e.shard \in DOMAIN shards /\ e.fence \in Int
    /\ \/ e.kind = "Unpark"
       \/ /\ e.kind \in {"Complete", "SplitReplace"}
          /\ shards[e.shard].status = "Active"
       \/ /\ e.kind = "SplitResidual"
          /\ ReplayedResiduals(e.shard, shards[e.shard], e.op) = {}
       \/ /\ e.kind = "Park"
          /\ shards[e.shard].status = "Active" /\ e.fence = shards[e.shard].fence
    /\ Trace(e)'

\* Records only move on: a closed one stays, an epoch never falls, a park is
\* undone under a higher epoch only, and lineage is kept.
MovesOn ==
    \A s \in DOMAIN shards :
        /\ s \in DOMAIN shards'
        /\ shards[s].status \in {"Done", "Split"} => shards'[s].status = shards[s].status
        /\ shards'[s].fence >= shards[s].fence
        /\ shards[s].status = "Parked" /\ shards'[s].fence = shards[s].fence =>
              shards'[s].status = "Parked"
        /\ \A op : ReplayedResiduals(s, shards[s], op) \subseteq ReplayedResiduals(s, shards'[s], op)

\* No step takes back an epoch, a lineage or a terminal status.
LEMMA RecordsMoveOn == Inv /\ [Next]_vars => MovesOn
<1> SUFFICES ASSUME Inv, [Next]_vars PROVE MovesOn
  OBVIOUS
<1>1. \A s \in DOMAIN shards : shards[s] \in Shard /\ shards[s].fence \in Int
  BY FenceIsInt DEF Inv, TypeOK, ShardOK
<1>2. [FrozenStep]_vars
  BY NextFrozen
<1>3. \A s \in DOMAIN shards :
        /\ s \in DOMAIN shards'
        /\ shards[s].status \in {"Done", "Split"} => shards'[s] = shards[s]
        /\ shards[s].status = "Parked" /\ shards'[s] # shards[s] =>
              shards'[s].status = "Active" /\ shards'[s].fence > shards[s].fence
  BY <1>2 DEF FrozenStep, vars
<1>4. ASSUME NEW s \in DOMAIN shards
      PROVE  /\ shards'[s].fence >= shards[s].fence
             /\ \/ shards'[s].spawned = shards[s].spawned
                \/ \E w \in Seq(ShardId) : shards'[s].spawned = shards[s].spawned \o w
  <2>1. CASE shards' = shards
    BY <1>1, <2>1
  <2>2. ASSUME NEW x, NEW q, Rewritten(x, q)
        PROVE  shards'[s].fence >= shards[s].fence /\ shards'[s].spawned = shards[s].spawned
    BY <1>1, <2>2 DEF Rewritten
  <2>3. ASSUME NEW x, NEW op, NEW children, NEW ids, NEW q, Replaced(x, op, children, ids, q)
        PROVE  /\ shards'[s].fence = shards[s].fence
               /\ \/ shards'[s].spawned = shards[s].spawned
                  \/ \E w \in Seq(ShardId) : shards'[s].spawned = shards[s].spawned \o w
    <3>1. /\ \A y \in DOMAIN shards : y # x => shards'[y] = shards[y]
          /\ shards'[x] = q /\ q.fence = shards[x].fence /\ q.spawned = shards[x].spawned \o ids
      BY <2>3 DEF Replaced
    <3>2. Len(children) \in Nat /\ ids \in [1..Len(children) -> ShardId]
      BY <2>3 DEF Replaced
    <3>3. ids \in Seq(ShardId)
      <4>1. \A n \in Nat : \A f \in [1..n -> ShardId] : f \in Seq(ShardId)
        OBVIOUS
      <4> QED BY <3>2, <4>1
    <3> QED BY <3>1, <3>3
  <2>4. ASSUME NEW x, NEW op, NEW newParent, NEW residual, NEW id, NEW q,
               Carved(x, op, newParent, residual, id, q)
        PROVE  /\ shards'[s].fence = shards[s].fence
               /\ \/ shards'[s].spawned = shards[s].spawned
                  \/ \E w \in Seq(ShardId) : shards'[s].spawned = shards[s].spawned \o w
    <3>1. /\ \A y \in DOMAIN shards : y # x => shards'[y] = shards[y]
          /\ shards'[x] = q /\ q.fence = shards[x].fence
          /\ q.spawned = Append(shards[x].spawned, id) /\ id \in ShardId
          /\ shards[x] \in Shard
      BY <2>4 DEF Carved
    <3>2. shards[x].spawned \in Seq(ShardId)
      BY <3>1, ShardFields
    <3>3. Append(shards[x].spawned, id) = shards[x].spawned \o <<id>> /\ <<id>> \in Seq(ShardId)
      <4> DEFINE sp == shards[x].spawned
      <4>1. sp \in Seq(ShardId) /\ id \in ShardId
        BY <3>1, <3>2
      <4> HIDE DEF sp
      <4>2. Append(sp, id) = sp \o <<id>> /\ <<id>> \in Seq(ShardId)
        BY <4>1, AppendIsConcat
      <4> QED BY <4>2 DEF sp
    <3> QED BY <3>1, <3>3
  <2> QED BY <1>1, <2>1, <2>2, <2>3, <2>4, NextShapes
<1>5. ASSUME NEW s \in DOMAIN shards, NEW op
      PROVE  ReplayedResiduals(s, shards[s], op) \subseteq ReplayedResiduals(s, shards'[s], op)
  <2>1. CASE shards'[s].spawned = shards[s].spawned
    BY <2>1 DEF ReplayedResiduals
  <2>2. ASSUME NEW w \in Seq(ShardId), shards'[s].spawned = shards[s].spawned \o w
        PROVE  ReplayedResiduals(s, shards[s], op) \subseteq ReplayedResiduals(s, shards'[s], op)
    <3> DEFINE a == shards[s].spawned
               b == shards'[s].spawned
    <3>1. a \in Seq(ShardId) /\ b = a \o w
      BY <1>1, <2>2, ShardFields
    <3> HIDE DEF a, b
    <3>2. \A i \in DOMAIN a : i \in DOMAIN b /\ b[i] = a[i]
      BY <3>1
    <3> QED BY <3>2 DEF ReplayedResiduals, a, b
  <2> QED BY <1>4, <2>1, <2>2
<1> QED BY <1>1, <1>3, <1>4, <1>5 DEF MovesOn

\* What is recorded took effect now: it left no trace before, and it does after.
LEMMA EffectSteps ==
    ASSUME Inv, [Next]_vars
    PROVE  history' = history \/ \E e : NewEffect(e)
<1> USE DEF Record
<1>1. CASE Tick \/ UNCHANGED vars
  BY <1>1 DEF Tick, vars
<1>2. CASE \E w \in Worker, s \in DOMAIN shards : Acquire(w, s)
  BY <1>2 DEF Acquire
<1>3. CASE \E lease \in grants : Renew(lease)
  BY <1>3 DEF Renew
<1>4. ASSUME NEW s \in DOMAIN shards, NEW op \in OpId, Unpark(s, op)
      PROVE  \E e : NewEffect(e)
  <2> DEFINE e == [kind |-> "Unpark", shard |-> s, op |-> op, fence |-> shards[s].fence]
  <2>1. s \in DOMAIN shards' /\ history' = history (+) SetToBag({e}) /\ shards[s].fence \in Int
    BY <1>4, FenceIsInt DEF Unpark, Inv, TypeOK, ShardOK
  <2>2. NewEffect(e)
    BY <2>1 DEF NewEffect, Trace
  <2> QED BY <2>2
<1>5. ASSUME NEW lease \in grants, NEW op \in OpId, LeaseOp(lease, op)
      PROVE  history' = history \/ \E e : NewEffect(e)
  <2> DEFINE s == lease.shard
             r == shards[s]
  <2>1. s \in DOMAIN shards /\ r \in Shard /\ r.status \in Status /\ r.fence \in Int
    BY GrantedShard, ShardFields, FenceIsInt
  <2>2. ASSUME NEW hash, NEW valid \in BOOLEAN,
               LeaseOpOutcome(r, lease, now, op, hash, valid) = "Executed"
        PROVE  r.status = "Active" /\ lease.fence = r.fence
    BY <2>1, <2>2, ExecutedMeans DEF ValidLease, IsTerminal, Status
  <2>3. CASE \E k \in Cursor : Checkpoint(lease, op, k)
    BY <2>3 DEF Checkpoint
  <2>4. ASSUME NEW k \in Cursor, Complete(lease, op, k)
        PROVE  \E e : NewEffect(e)
    <3> DEFINE e == [kind |-> "Complete", shard |-> s, op |-> op, fence |-> lease.fence]
               c == [r EXCEPT !.cursor = k, !.status = "Done"]
               q == OpLogPush(Released(c), op, <<"Complete", k>>)
    <3>1. r.status = "Active" /\ lease.fence = r.fence
      BY <2>2, <2>4 DEF Complete, ValidCursorUpdate
    <3>2. history' = history (+) SetToBag({e}) /\ shards' = [shards EXCEPT ![s] = q]
      BY <2>4 DEF Complete
    <3>3. c \in Shard /\ c.status = "Done"
      BY <2>1, ShardFields DEF Status
    <3> HIDE DEF c
    <3>4. q.status = "Done"
      BY <3>3, ReleasedFields, ShardFields DEF OpLogPush
    <3> HIDE DEF q
    <3>5. /\ e.shard = s /\ e.kind = "Complete" /\ e.fence = r.fence
          /\ s \in DOMAIN shards' /\ shards'[s] = q
      BY <2>1, <3>1, <3>2
    <3> HIDE DEF e
    <3>6. NewEffect(e)
      BY <2>1, <3>1, <3>2, <3>4, <3>5 DEF NewEffect, Trace
    <3> QED BY <3>6
  <2>5. ASSUME NEW reason \in Reason, Park(lease, op, reason)
        PROVE  \E e : NewEffect(e)
    <3> DEFINE e == [kind |-> "Park", shard |-> s, op |-> op, fence |-> lease.fence]
               c == [r EXCEPT !.status = "Parked", !.reason = reason]
               q == OpLogPush(Released(c), op, <<"Park", reason>>)
    <3>1. r.status = "Active" /\ lease.fence = r.fence
      BY <2>2, <2>5 DEF Park
    <3>2. history' = history (+) SetToBag({e}) /\ shards' = [shards EXCEPT ![s] = q]
      BY <2>5 DEF Park
    <3>3. c \in Shard /\ c.status = "Parked" /\ c.fence = r.fence
      BY <2>1, ShardFields DEF Status
    <3> HIDE DEF c
    <3>4. q.status = "Parked" /\ q.fence = r.fence
      BY <3>3, ReleasedFields, ShardFields DEF OpLogPush
    <3> HIDE DEF q
    <3>5. /\ e.shard = s /\ e.kind = "Park" /\ e.fence = r.fence
          /\ s \in DOMAIN shards' /\ shards'[s] = q
      BY <2>1, <3>1, <3>2
    <3> HIDE DEF e
    <3>6. NewEffect(e)
      BY <2>1, <3>1, <3>2, <3>4, <3>5 DEF NewEffect, Trace
    <3> QED BY <3>6
  <2>6. ASSUME NEW children \in Seq(Child), SplitReplace(lease, op, children)
        PROVE  \E e : NewEffect(e)
    <3> DEFINE e == [kind |-> "SplitReplace", shard |-> s, op |-> op, fence |-> lease.fence]
    <3>1. history' = history (+) SetToBag({e})
      BY <2>6 DEF SplitReplace
    <3>2. PICK ids, q : Replaced(s, op, children, ids, q)
      BY <2>6, ReplaceSteps
    <3>3. r.status = "Active" /\ s \in DOMAIN shards' /\ shards'[s] = q /\ q.status = "Split"
      BY <3>2 DEF Replaced
    <3>4. e.shard = s /\ e.kind = "SplitReplace" /\ e.fence = r.fence
      <4>1. ValidSplitReplace(r, children, Cardinality(DOMAIN shards)) \in BOOLEAN
        BY DEF ValidSplitReplace
      <4> QED BY <2>2, <2>6, <4>1 DEF SplitReplace
    <3> HIDE DEF e
    <3>5. NewEffect(e)
      BY <2>1, <3>1, <3>3, <3>4 DEF NewEffect, Trace
    <3> QED BY <3>5
  <2>7. ASSUME NEW newParent \in KeyRange, NEW residual \in KeyRange,
               SplitResidual(lease, op, newParent, residual)
        PROVE  \E e : NewEffect(e)
    <3> DEFINE e == [kind |-> "SplitResidual", shard |-> s, op |-> op, fence |-> lease.fence]
    <3>1. history' = history (+) SetToBag({e}) /\ ReplayedResiduals(s, r, op) = {}
      BY <2>7 DEF SplitResidual
    <3>2. PICK id, q : Carved(s, op, newParent, residual, id, q)
      BY <2>7, CarveSteps
    <3>3. /\ s \in DOMAIN shards' /\ shards'[s] = q /\ id \in ShardId
          /\ q.spawned = Append(r.spawned, id) /\ id = Derive(s, op, "Residual", Len(r.spawned))
      BY <3>2 DEF Carved
    <3>4. Len(r.spawned) + 1 \in ReplayedResiduals(s, q, op)
      <4>1. r.spawned \in Seq(ShardId) /\ Len(r.spawned) \in Nat
        BY <2>1, ShardFields
      <4>2. /\ Len(r.spawned) + 1 \in DOMAIN q.spawned /\ q.spawned[Len(r.spawned) + 1] = id
            /\ (Len(r.spawned) + 1) - 1 = Len(r.spawned)
        BY <3>3, <4>1
      <4> QED BY <3>3, <4>2 DEF ReplayedResiduals
    <3>5. e.shard = s /\ e.kind = "SplitResidual" /\ e.op = op /\ e.fence = r.fence
      <4>1. ValidSplitResidual(r, newParent, residual, Cardinality(DOMAIN shards)) \in BOOLEAN
        BY DEF ValidSplitResidual
      <4> QED BY <2>2, <2>7, <4>1 DEF SplitResidual
    <3> HIDE DEF e
    <3>6. NewEffect(e)
      BY <2>1, <3>1, <3>3, <3>4, <3>5 DEF NewEffect, Trace
    <3> QED BY <3>6
  <2>8. ASSUME NEW cut \in Cuts(MaxChildren), NEW inherit \in BOOLEAN
        PROVE  PlannedChildren(cut, r.cursor, inherit) \in Seq(Child)
    BY <2>1, ShardFields, PlannedChildrenType, BoundsAssumption
  <2>9. ASSUME NEW cut \in Cuts(2)
        PROVE  [lo |-> cut[1], hi |-> cut[2]] \in KeyRange /\ [lo |-> cut[2], hi |-> cut[3]] \in KeyRange
    <3>1. PICK m \in 2..2 : cut \in [1..(m + 1) -> Bound]
      BY CutsType
    <3>2. cut[1] \in Bound /\ cut[2] \in Bound /\ cut[3] \in Bound
      BY <3>1
    <3> QED BY <3>2 DEF KeyRange
  <2>10. ASSUME NEW children, SplitReplaceFails(lease, op, children)
         PROVE  history' = history
    BY <2>10, FailedSplitRestores
  <2> QED BY <1>5, <2>3, <2>4, <2>5, <2>6, <2>7, <2>8, <2>9, <2>10 DEF LeaseOp
<1> QED BY <1>1, <1>2, <1>3, <1>4, <1>5 DEF Next

\* A trace is never lost.
LEMMA TraceKept ==
    ASSUME Inv, Inv', MovesOn, NEW e, Trace(e), e.fence \in Int
    PROVE  Trace(e)'
<1>1. /\ e.shard \in DOMAIN shards /\ shards[e.shard].fence \in Int
      /\ shards'[e.shard].fence \in Int
  <2>1. e.shard \in DOMAIN shards /\ e.shard \in DOMAIN shards'
    BY DEF Trace, MovesOn
  <2>2. shards[e.shard] \in Shard /\ shards'[e.shard] \in Shard
    BY <2>1 DEF Inv, TypeOK, ShardOK, Shard
  <2> QED BY <2>1, <2>2, FenceIsInt
<1> DEFINE s == e.shard
<1>2. /\ s \in DOMAIN shards' /\ shards'[s].fence >= shards[s].fence
      /\ shards[s].status \in {"Done", "Split"} => shards'[s].status = shards[s].status
      /\ shards[s].status = "Parked" /\ shards'[s].fence = shards[s].fence =>
              shards'[s].status = "Parked"
      /\ ReplayedResiduals(s, shards[s], e.op) \subseteq ReplayedResiduals(s, shards'[s], e.op)
  BY DEF MovesOn, Trace
<1> QED BY <1>1, <1>2 DEF Trace

\* Every step keeps each structural operation single, and its trace.
LEMMA OnceNext == Inv /\ Inv' /\ OnceInv /\ [Next]_vars => OnceInv'
<1> SUFFICES ASSUME Inv, Inv', OnceInv, [Next]_vars PROVE OnceInv'
  OBVIOUS
<1>1. MovesOn
  BY RecordsMoveOn
<1>2. \A e \in DOMAIN history : e.fence \in Int /\ Trace(e)'
  BY <1>1, TraceKept DEF OnceInv
<1>3. CASE history' = history
  BY <1>2, <1>3 DEF OnceInv, Once
<1>4. ASSUME NEW e, NewEffect(e) PROVE OnceInv'
  <2>1. e \notin DOMAIN history \/ e.kind = "Unpark"
    BY <1>4 DEF OnceInv, NewEffect, Trace
  <2>2. \A f \in DOMAIN history :
           ~(/\ e.kind \in {"Complete", "SplitReplace", "SplitResidual"}
             /\ f.kind = e.kind /\ f.shard = e.shard /\ f.op = e.op)
    BY <1>4 DEF OnceInv, NewEffect, Trace
  <2>3. /\ DOMAIN history' = DOMAIN history \cup {e}
        /\ \A f \in DOMAIN history : f # e => history'[f] = history[f] + 0
        /\ e \notin DOMAIN history => history'[e] = 0 + 1
        /\ e \in DOMAIN history => history'[e] = history[e] + 1
    BY <1>4 DEF NewEffect, SetToBag, (+)
  <2>4. \A f \in DOMAIN history : history[f] \in Nat /\ (f.kind # "Unpark" => history[f] = 1)
    BY DEF OnceInv, Once
  <2>5. \A f \in DOMAIN history' : history'[f] \in Nat /\ (f.kind # "Unpark" => history'[f] = 1)
    BY <2>1, <2>3, <2>4
  <2>6. ASSUME NEW f \in DOMAIN history', NEW g \in DOMAIN history',
               f.kind \in {"Complete", "SplitReplace", "SplitResidual"},
               g.kind = f.kind, g.shard = f.shard, g.op = f.op
        PROVE  g = f
    <3>1. CASE f \in DOMAIN history /\ g \in DOMAIN history
      BY <2>6, <3>1 DEF OnceInv, Once
    <3>2. CASE f \notin DOMAIN history
      BY <2>2, <2>3, <2>6, <3>2
    <3>3. CASE g \notin DOMAIN history
      BY <2>2, <2>3, <2>6, <3>3
    <3> QED BY <3>1, <3>2, <3>3
  <2>7. \A f \in DOMAIN history' : f.fence \in Int /\ Trace(f)'
    BY <1>2, <1>4, <2>3 DEF NewEffect
  <2> QED BY <2>5, <2>6, <2>7 DEF OnceInv, Once
<1> QED BY <1>3, <1>4, EffectSteps

\* Nothing was executed at the start.
LEMMA OnceInit == Init => OnceInv
<1> SUFFICES ASSUME Init PROVE OnceInv
  OBVIOUS
<1>1. DOMAIN history = {}
  BY DEF Init, EmptyBag, SetToBag
<1> QED BY <1>1 DEF OnceInv, Once

\* No retry, however late and whatever the log has forgotten, completes,
\* replaces or carves a shard a second time, or parks it a second time under one
\* lease (record.rs, op_log_lookup: "Eviction failure mode").
THEOREM StructuralOpsOnce == Spec => []StructuralOnce
<1>1. OnceInv => StructuralOnce
  BY DEF OnceInv, Once, StructuralOnce, BagToSet
<1> QED BY <1>1, Invariance, OnceInit, OnceNext, PTL DEF Spec

-----------------------------------------------------------------------------
(* The records implement FencedShards                                      *)

\* The records as FencedShards sees them.
View == [s \in DOMAIN shards |-> Abs(shards[s])]

\* The operators of the instance are those of ShardRecords itself: its constants
\* are not renamed.
LEMMA FencedPuts ==
    ASSUME NEW s, NEW r, NEW op, NEW req
    PROVE  Fenced!Puts(s, r, op, req) = Puts(s, r, op, req)
BY DEF Fenced!Puts, Puts, Fenced!AfterCheckpoint, AfterCheckpoint, Fenced!AfterComplete,
       AfterComplete, Fenced!AfterPark, AfterPark, Fenced!SplitReplacePuts, SplitReplacePuts,
       Fenced!SplitResidualPuts, SplitResidualPuts, Fenced!OpLogPush, OpLogPush,
       Fenced!Released, Released, Fenced!NewShard, NewShard, Fenced!ChildIds, ChildIds,
       Fenced!NoKey, NoKey

\* So are its tests of the log and the lineage, and what unpark_shard writes.
LEMMA FencedFresh ==
    ASSUME NEW s, NEW r, NEW op, NEW req
    PROVE  /\ Fenced!IsFresh(s, r, op, req) = IsFresh(s, r, op, req)
           /\ Fenced!CheckOpIdempotency(r, op, req) = CheckOpIdempotency(r, op, req)
           /\ Fenced!DistinctIds(s, r, op, req) = DistinctIds(s, r, op, req)
           /\ Fenced!AfterUnpark(s, r, op) = AfterUnpark(s, r, op)
<1>1. /\ Fenced!CheckOpIdempotency(r, op, req) = CheckOpIdempotency(r, op, req)
      /\ Fenced!ReplayedResiduals(s, r, op) = ReplayedResiduals(s, r, op)
  BY DEF Fenced!CheckOpIdempotency, CheckOpIdempotency, Fenced!OpLogEntries, OpLogEntries,
         Fenced!ReplayedResiduals, ReplayedResiduals
<1>2. Fenced!IsFresh(s, r, op, req) = IsFresh(s, r, op, req)
  BY <1>1 DEF Fenced!IsFresh, IsFresh
<1>3. Fenced!DistinctIds(s, r, op, req) = DistinctIds(s, r, op, req)
  BY DEF Fenced!DistinctIds, DistinctIds, Fenced!ChildIds, ChildIds, Fenced!Cardinality, Cardinality
<1>4. Fenced!AfterUnpark(s, r, op) = AfterUnpark(s, r, op)
  BY DEF Fenced!AfterUnpark, AfterUnpark, Fenced!OpLogPush, OpLogPush, Fenced!Released, Released
<1> QED BY <1>1, <1>2, <1>3, <1>4

\* So is what an operation demands of the record.
LEMMA FencedPermitted ==
    ASSUME NEW r, NEW req, NEW c
    PROVE  Fenced!Permitted(r, req, c) = Permitted(r, req, c)
BY DEF Fenced!Permitted, Permitted, Fenced!ValidCursorUpdate, ValidCursorUpdate,
       Fenced!ValidSplitReplace, ValidSplitReplace, Fenced!ValidSplitResidual,
       ValidSplitResidual, Fenced!ValidSplitCoverage, ValidSplitCoverage, Fenced!CanSpawn,
       CanSpawn, Fenced!InRange, InRange, Fenced!NoKey, NoKey

\* So is the count of a set.
LEMMA FencedCount ==
    ASSUME NEW S
    PROVE  Fenced!Cardinality(S) = Cardinality(S)
BY DEF Fenced!Cardinality, Cardinality

\* So are the bags of effects.
LEMMA FencedBag ==
    ASSUME NEW S, NEW b, NEW c
    PROVE  /\ Fenced!SetToBag(S) = SetToBag(S)
           /\ Fenced!(+)(b, c) = b (+) c
           /\ Fenced!EmptyBag = EmptyBag
<1>1. Fenced!SetToBag(S) = SetToBag(S)
  BY DEF Fenced!SetToBag, SetToBag
<1>2. Fenced!(+)(b, c) = b (+) c
  BY DEF Fenced!(+), (+)
<1>3. Fenced!EmptyBag = EmptyBag
  BY DEF Fenced!EmptyBag, EmptyBag, Fenced!SetToBag, SetToBag
<1> QED BY <1>1, <1>2, <1>3

\* So are the requests of a lease holder.
LEMMA FencedRequests == Fenced!LeaseRequests = LeaseRequests
BY DEF Fenced!LeaseRequests, LeaseRequests, Fenced!PlannedChildren, PlannedChildren,
       Fenced!Cuts, Cuts, Fenced!InRange, InRange, Fenced!NoKey, NoKey, Fenced!Cursor, Cursor,
       Fenced!Bound, Bound

\* What an operation of a lease holder asks of the records, and what it leaves.
Effect(s, op, req) ==
    LET r == Abs(shards[s])
        puts == Puts(s, r, op, req)
    IN /\ s \in DOMAIN shards /\ op \in OpId /\ req \in LeaseRequests
       /\ r.status = "Active" /\ r.owner # NoWorker
       /\ IsFresh(s, r, op, req)
       /\ Permitted(r, req, Cardinality(DOMAIN shards))
       /\ DistinctIds(s, r, op, req)
       /\ (DOMAIN puts \ {s}) \cap DOMAIN shards = {}
       /\ DOMAIN shards' = DOMAIN shards \cup DOMAIN puts
       /\ \A x \in DOMAIN shards' :
             Abs(shards'[x]) = IF x \in DOMAIN puts THEN puts[x] ELSE Abs(shards[x])
       /\ history' = Fenced!Counted(history, req[1], s, op, r.fence)

\* Such an operation is a step of FencedShards.
LEMMA EffectIsFenced ==
    ASSUME NEW s, NEW op, NEW req, Effect(s, op, req)
    PROVE  Fenced!FencedNext
<1> DEFINE r == Abs(shards[s])
           puts == Puts(s, r, op, req)
<1>1. s \in DOMAIN View /\ View[s] = r /\ DOMAIN View = DOMAIN shards
  BY DEF Effect, View
<1>2. Fenced!Puts(s, r, op, req) = puts
  BY FencedPuts
<1>3. Fenced!Permitted(r, req, Cardinality(DOMAIN shards)) /\ Fenced!IsFresh(s, r, op, req)
      /\ Fenced!DistinctIds(s, r, op, req) /\ req \in Fenced!LeaseRequests
  BY FencedPermitted, FencedFresh, FencedRequests DEF Effect
<1>4. View' = Fenced!Written(View, puts)
  <2> HIDE DEF puts
  <2>1. DOMAIN shards' = DOMAIN shards \cup DOMAIN puts
        /\ \A x \in DOMAIN shards' :
             Abs(shards'[x]) = IF x \in DOMAIN puts THEN puts[x] ELSE Abs(shards[x])
    BY DEF Effect, puts
  <2>2. Fenced!Written(View, puts) = [x \in DOMAIN View \cup DOMAIN puts |->
            IF x \in DOMAIN puts THEN puts[x] ELSE View[x]]
    BY DEF Fenced!Written
  <2>3. View' = [x \in DOMAIN shards' |-> Abs(shards'[x])]
    BY DEF View, Abs
  <2>4. \A x \in DOMAIN shards : View[x] = Abs(shards[x])
    BY DEF View
  <2> QED BY <1>1, <2>1, <2>2, <2>3, <2>4
<1>5. /\ r.status = "Active" /\ r.owner # NoWorker
      /\ (DOMAIN puts \ {s}) \cap DOMAIN shards = {}
      /\ history' = Fenced!Counted(history, req[1], s, op, r.fence) /\ op \in OpId
  BY DEF Effect
<1> HIDE DEF puts, r
<1>6. /\ [x \in DOMAIN shards |-> [shards[x] EXCEPT !.deadline = 0]] = View
      /\ [x \in DOMAIN shards' |-> [shards'[x] EXCEPT !.deadline = 0]] = View'
  BY DEF View, Abs
<1>7. Fenced!FencedExecute(s, op, req)
  BY <1>1, <1>2, <1>3, <1>4, <1>5, <1>6, FencedCount DEF Fenced!FencedExecute
<1> QED BY <1>1, <1>3, <1>5, <1>6, <1>7 DEF Fenced!FencedNext

\* One record rewritten by the holder of its lease, in the terms of FencedShards.
LEMMA RewriteEffect ==
    ASSUME Inv, NEW lease \in grants, NEW op \in OpId, NEW req \in LeaseRequests, NEW p,
           ValidLease(shards[lease.shard], lease, now),
           CheckOpIdempotency(shards[lease.shard], op, req) = "Fresh",
           req[1] \in {"Checkpoint", "Complete", "Park"},
           Permitted(Abs(shards[lease.shard]), req, Cardinality(DOMAIN shards)),
           Puts(lease.shard, Abs(shards[lease.shard]), op, req) = [x \in {lease.shard} |-> Abs(p)],
           shards' = [shards EXCEPT ![lease.shard] = p],
           history' = Fenced!Counted(history, req[1], lease.shard, op, lease.fence)
    PROVE  Fenced!FencedNext
<1> DEFINE s == lease.shard
           r == shards[s]
           puts == Puts(s, Abs(r), op, req)
<1>1. /\ s \in DOMAIN shards /\ r \in Shard /\ Abs(r).log = r.log /\ Abs(r).status = r.status
      /\ Abs(r).owner = r.owner /\ Abs(r).fence = r.fence
  BY GrantedShard, AbsFields
<1>2. r.status = "Active" /\ r.owner # NoWorker /\ lease.fence = r.fence
  BY <1>1 DEF ValidLease, IsTerminal, Shard, Status
<1>3. IsFresh(s, Abs(r), op, req) /\ DistinctIds(s, Abs(r), op, req)
  <2>1. CheckOpIdempotency(Abs(r), op, req) = "Fresh"
    BY <1>1 DEF CheckOpIdempotency, OpLogEntries
  <2> QED BY <2>1 DEF IsFresh, DistinctIds
<1> HIDE DEF r, puts
<1>4. DOMAIN puts = {s} /\ puts[s] = Abs(p)
  BY DEF puts, r
<1>5. /\ DOMAIN shards' = DOMAIN shards /\ shards'[s] = p
      /\ \A x \in DOMAIN shards : x # s => shards'[x] = shards[x]
  BY <1>1
<1>6. Effect(s, op, req)
  BY <1>1, <1>2, <1>3, <1>4, <1>5 DEF Effect, r, puts
<1> QED BY <1>6, EffectIsFenced

\* checkpoint as a step of FencedShards.
LEMMA CheckpointFenced ==
    ASSUME Inv, NEW lease \in grants, NEW op \in OpId, NEW k \in Cursor, Checkpoint(lease, op, k)
    PROVE  Fenced!FencedNext
<1> DEFINE s == lease.shard
           r == shards[s]
           req == <<"Checkpoint", k>>
           moved == [r EXCEPT !.cursor = k]
           p == OpLogPush(moved, op, req)
<1>1. r \in Shard
  BY GrantedShard
<1>2. /\ CheckOpIdempotency(r, op, req) = "Fresh" /\ ValidLease(r, lease, now)
      /\ ValidCursorUpdate(r, k)
  BY ExecutedMeans DEF Checkpoint, ValidCursorUpdate
<1>3. Permitted(Abs(r), req, Cardinality(DOMAIN shards))
  BY <1>1, <1>2, AbsFields DEF Permitted, ValidCursorUpdate
<1>4. req \in LeaseRequests /\ req[1] = "Checkpoint"
  BY DEF LeaseRequests
<1>5. moved \in Shard /\ Abs(moved) = [Abs(r) EXCEPT !.cursor = k]
  BY <1>1, ShardFields DEF Abs
<1>6. shards' = [shards EXCEPT ![s] = p] /\ history' = history
  BY DEF Checkpoint
<1>7. Abs(p) = AfterCheckpoint(Abs(r), op, k)
  <2> HIDE DEF moved
  <2> QED BY <1>5, AbsPush DEF AfterCheckpoint
<1>8. Puts(s, Abs(r), op, req) = [x \in {s} |-> AfterCheckpoint(Abs(r), op, k)]
  BY DEF Puts
<1>9. history' = Fenced!Counted(history, req[1], s, op, lease.fence)
  BY <1>4, <1>6 DEF Fenced!Counted, Fenced!Structural
<1> HIDE DEF p, req, r
<1> QED BY <1>2, <1>3, <1>4, <1>6, <1>7, <1>8, <1>9, RewriteEffect DEF r

\* complete as a step of FencedShards.
LEMMA CompleteFenced ==
    ASSUME Inv, NEW lease \in grants, NEW op \in OpId, NEW k \in Cursor, Complete(lease, op, k)
    PROVE  Fenced!FencedNext
<1> DEFINE s == lease.shard
           r == shards[s]
           req == <<"Complete", k>>
           moved == [r EXCEPT !.cursor = k, !.status = "Done"]
           free == Released(moved)
           p == OpLogPush(free, op, req)
<1>1. r \in Shard
  BY GrantedShard
<1>2. /\ CheckOpIdempotency(r, op, req) = "Fresh" /\ ValidLease(r, lease, now)
      /\ ValidCursorUpdate(r, k)
  BY ExecutedMeans DEF Complete, ValidCursorUpdate
<1>3. Permitted(Abs(r), req, Cardinality(DOMAIN shards))
  BY <1>1, <1>2, AbsFields DEF Permitted, ValidCursorUpdate
<1>4. req \in LeaseRequests /\ req[1] = "Complete"
  BY DEF LeaseRequests
<1>5. moved \in Shard /\ Abs(moved) = [Abs(r) EXCEPT !.cursor = k, !.status = "Done"]
  BY <1>1, ShardFields DEF Abs, Status
<1>6. shards' = [shards EXCEPT ![s] = p] /\ Record("Complete", s, op, lease.fence)
  BY DEF Complete
<1>7. Abs(p) = AfterComplete(Abs(r), op, k)
  <2> HIDE DEF moved
  <2>1. free \in Shard /\ Abs(free) = Released(Abs(moved))
    BY <1>5, ReleasedFields, AbsReleased
  <2> HIDE DEF free
  <2> QED BY <1>5, <2>1, AbsPush DEF AfterComplete
<1>8. Puts(s, Abs(r), op, req) = [x \in {s} |-> AfterComplete(Abs(r), op, k)]
  BY DEF Puts
<1>9. history' = Fenced!Counted(history, req[1], s, op, lease.fence)
  BY <1>4, <1>6, FencedBag DEF Fenced!Counted, Fenced!Structural, Record
<1> HIDE DEF p, req, r
<1> QED BY <1>2, <1>3, <1>4, <1>6, <1>7, <1>8, <1>9, RewriteEffect DEF r

\* park_shard as a step of FencedShards.
LEMMA ParkFenced ==
    ASSUME Inv, NEW lease \in grants, NEW op \in OpId, NEW reason \in Reason,
           Park(lease, op, reason)
    PROVE  Fenced!FencedNext
<1> DEFINE s == lease.shard
           r == shards[s]
           req == <<"Park", reason>>
           moved == [r EXCEPT !.status = "Parked", !.reason = reason]
           free == Released(moved)
           p == OpLogPush(free, op, req)
<1>1. r \in Shard
  BY GrantedShard
<1>2. CheckOpIdempotency(r, op, req) = "Fresh" /\ ValidLease(r, lease, now)
  BY ExecutedMeans DEF Park
<1>3. Permitted(Abs(r), req, Cardinality(DOMAIN shards))
  BY DEF Permitted
<1>4. req \in LeaseRequests /\ req[1] = "Park"
  BY DEF LeaseRequests
<1>5. moved \in Shard /\ Abs(moved) = [Abs(r) EXCEPT !.status = "Parked", !.reason = reason]
  BY <1>1, ShardFields DEF Abs, Status
<1>6. shards' = [shards EXCEPT ![s] = p] /\ Record("Park", s, op, lease.fence)
  BY DEF Park
<1>7. Abs(p) = AfterPark(Abs(r), op, reason)
  <2> HIDE DEF moved
  <2>1. free \in Shard /\ Abs(free) = Released(Abs(moved))
    BY <1>5, ReleasedFields, AbsReleased
  <2> HIDE DEF free
  <2> QED BY <1>5, <2>1, AbsPush DEF AfterPark
<1>8. Puts(s, Abs(r), op, req) = [x \in {s} |-> AfterPark(Abs(r), op, reason)]
  BY DEF Puts
<1>9. history' = Fenced!Counted(history, req[1], s, op, lease.fence)
  BY <1>4, <1>6, FencedBag DEF Fenced!Counted, Fenced!Structural, Record
<1> HIDE DEF p, req, r
<1> QED BY <1>2, <1>3, <1>4, <1>6, <1>7, <1>8, <1>9, RewriteEffect DEF r

\* split_replace as a step of FencedShards.
LEMMA ReplaceFenced ==
    ASSUME Inv, NEW lease \in grants, NEW op \in OpId, NEW children \in Seq(Child),
           <<"SplitReplace", children>> \in LeaseRequests,
           SplitReplace(lease, op, children)
    PROVE  Fenced!FencedNext
<1> DEFINE s == lease.shard
           r == shards[s]
           req == <<"SplitReplace", children>>
           n == Len(children)
           ids == ChildIds(s, r, op, n)
           new == {ids[i] : i \in 1..n}
           closed == [r EXCEPT !.spawned = r.spawned \o ids, !.status = "Split"]
           free == Released(closed)
           q == OpLogPush(free, op, req)
           child(x) == LET c == children[CHOOSE i \in 1..n : ids[i] = x]
                       IN NewShard(c.lo, c.hi, c.cursor, s)
           puts == Puts(s, Abs(r), op, req)
<1>1. /\ s \in DOMAIN shards /\ s \in ShardId /\ r \in Shard /\ n \in Nat
      /\ Abs(r).log = r.log /\ Abs(r).status = r.status /\ Abs(r).spawned = r.spawned
      /\ Abs(r).owner = r.owner /\ Abs(r).fence = r.fence /\ Abs(r).lo = r.lo /\ Abs(r).hi = r.hi
      /\ req[1] = "SplitReplace" /\ req[2] = children
  BY GrantedShard, AbsFields
<1>2. /\ CheckOpIdempotency(r, op, req) = "Fresh" /\ ValidLease(r, lease, now)
      /\ ValidSplitReplace(r, children, Cardinality(DOMAIN shards))
  <2>1. ValidSplitReplace(r, children, Cardinality(DOMAIN shards)) \in BOOLEAN
    BY DEF ValidSplitReplace
  <2> QED BY <2>1, ExecutedMeans DEF SplitReplace
<1>3. r.status = "Active" /\ r.owner # NoWorker /\ lease.fence = r.fence
  BY <1>1, <1>2 DEF ValidLease, IsTerminal, Shard, Status
<1>4. Permitted(Abs(r), req, Cardinality(DOMAIN shards))
  <2>1. ValidSplitReplace(Abs(r), children, Cardinality(DOMAIN shards))
    BY <1>1, <1>2 DEF ValidSplitReplace, CanSpawn
  <2> QED BY <1>1, <2>1 DEF Permitted
<1>5. /\ \A i \in 1..n : ids[i] \notin DOMAIN shards
      /\ \A i, j \in 1..n : i # j => ids[i] # ids[j]
      /\ shards' = [x \in DOMAIN shards \cup new |->
                       IF x \in new THEN child(x) ELSE IF x = s THEN q ELSE shards[x]]
      /\ Record("SplitReplace", s, op, lease.fence)
  BY DEF SplitReplace
<1>6. ids = ChildIds(s, Abs(r), op, n)
  BY <1>1 DEF ChildIds
<1>7. IsFresh(s, Abs(r), op, req)
  <2>1. CheckOpIdempotency(Abs(r), op, req) = "Fresh"
    BY <1>1, <1>2 DEF CheckOpIdempotency, OpLogEntries
  <2> QED BY <1>1, <2>1 DEF IsFresh
<1>8. DistinctIds(s, Abs(r), op, req)
  <2>1. ids \in [1..n -> {ids[i] : i \in 1..n}]
    BY DEF ChildIds
  <2>2. n \in Nat /\ \A i, j \in 1..n : i # j => ids[i] # ids[j]
    BY <1>1, <1>5
  <2>3. Cardinality({ids[i] : i \in 1..n}) = n
    <3> HIDE DEF ids, n
    <3> QED BY <2>1, <2>2, CountDistinct
  <2> HIDE DEF ids
  <2> QED BY <1>1, <1>6, <2>3 DEF DistinctIds
<1>9. closed \in Shard /\ Abs(closed) = [Abs(r) EXCEPT !.spawned = Abs(r).spawned \o ids, !.status = "Split"]
  <2>1. ids \in [1..n -> ShardId]
    <3>1. PICK i0, q0 : Replaced(s, op, children, i0, q0)
      BY ReplaceSteps
    <3> QED BY <3>1 DEF Replaced
  <2>2. r.spawned \o ids \in Seq(ShardId)
    <3>1. r.spawned \in Seq(ShardId)
      BY <1>1 DEF Shard
    <3> QED BY <1>1, <2>1, <3>1
  <2> HIDE DEF ids
  <2> QED BY <1>1, <2>2, ShardFields DEF Abs, Status
<1> HIDE DEF ids
<1>10. free \in Shard /\ Abs(free) = Released(Abs(closed))
  <2> HIDE DEF closed
  <2> QED BY <1>9, ReleasedFields, AbsReleased
<1>11. Abs(q) = OpLogPush(Released([Abs(r) EXCEPT !.spawned = Abs(r).spawned \o ids, !.status = "Split"]), op, req)
  <2> HIDE DEF closed, free
  <2> QED BY <1>9, <1>10, AbsPush
<1>12. puts = [x \in {s} \cup new |-> IF x = s THEN Abs(q) ELSE child(x)]
  <2>1. puts = SplitReplacePuts(s, Abs(r), op, children)
    BY DEF Puts
  <2> HIDE DEF q, puts, r, req
  <2> QED BY <1>6, <1>11, <2>1 DEF SplitReplacePuts, req
<1>13. \A x : Abs(child(x)) = child(x)
  BY AbsNew
<1>14. history' = Fenced!Counted(history, req[1], s, op, lease.fence)
  BY <1>5, FencedBag DEF Fenced!Counted, Fenced!Structural, Record
<1> HIDE DEF q, puts, child, req
<1>15. /\ DOMAIN shards' = DOMAIN shards \cup new /\ s \notin new
       /\ new \cap DOMAIN shards = {}
       /\ \A x \in new : shards'[x] = child(x)
       /\ shards'[s] = q
       /\ \A x \in DOMAIN shards : x # s => shards'[x] = shards[x]
  BY <1>1, <1>5
<1>16. /\ (DOMAIN puts \ {s}) \cap DOMAIN shards = {}
       /\ DOMAIN shards' = DOMAIN shards \cup DOMAIN puts
       /\ \A x \in DOMAIN shards' :
             Abs(shards'[x]) = IF x \in DOMAIN puts THEN puts[x] ELSE Abs(shards[x])
  BY <1>1, <1>12, <1>13, <1>15
<1>17. Effect(s, op, req)
  BY <1>1, <1>3, <1>4, <1>7, <1>8, <1>14, <1>16 DEF Effect, puts, req
<1> QED BY <1>17, EffectIsFenced

\* split_residual as a step of FencedShards.
LEMMA CarveFenced ==
    ASSUME Inv, NEW lease \in grants, NEW op \in OpId,
           NEW newParent \in KeyRange, NEW residual \in KeyRange,
           <<"SplitResidual", <<newParent, residual>>>> \in LeaseRequests,
           SplitResidual(lease, op, newParent, residual)
    PROVE  Fenced!FencedNext
<1> DEFINE s == lease.shard
           r == shards[s]
           req == <<"SplitResidual", <<newParent, residual>>>>
           id == Derive(s, op, "Residual", Len(r.spawned))
           kept == [r EXCEPT !.lo = newParent.lo, !.hi = newParent.hi,
                             !.spawned = Append(r.spawned, id)]
           q == OpLogPush(kept, op, req)
           new == NewShard(residual.lo, residual.hi, NoKey, s)
           puts == Puts(s, Abs(r), op, req)
<1>1. /\ s \in DOMAIN shards /\ s \in ShardId /\ r \in Shard
      /\ Abs(r).log = r.log /\ Abs(r).status = r.status /\ Abs(r).spawned = r.spawned
      /\ Abs(r).owner = r.owner /\ Abs(r).fence = r.fence /\ Abs(r).lo = r.lo /\ Abs(r).hi = r.hi
      /\ Abs(r).cursor = r.cursor
      /\ req[1] = "SplitResidual" /\ req[2][1] = newParent /\ req[2][2] = residual
  BY GrantedShard, AbsFields
<1>2. /\ CheckOpIdempotency(r, op, req) = "Fresh" /\ ValidLease(r, lease, now)
      /\ ValidSplitResidual(r, newParent, residual, Cardinality(DOMAIN shards))
  <2>1. ValidSplitResidual(r, newParent, residual, Cardinality(DOMAIN shards)) \in BOOLEAN
    BY DEF ValidSplitResidual
  <2> QED BY <2>1, ExecutedMeans DEF SplitResidual
<1>3. r.status = "Active" /\ r.owner # NoWorker /\ lease.fence = r.fence
  BY <1>1, <1>2 DEF ValidLease, IsTerminal, Shard, Status
<1>4. Permitted(Abs(r), req, Cardinality(DOMAIN shards))
  <2>1. ValidSplitResidual(Abs(r), newParent, residual, Cardinality(DOMAIN shards))
    BY <1>1, <1>2 DEF ValidSplitResidual, CanSpawn
  <2> QED BY <1>1, <2>1 DEF Permitted
<1>5. /\ id \notin DOMAIN shards /\ ReplayedResiduals(s, r, op) = {}
      /\ shards' = [x \in DOMAIN shards \cup {id} |->
                       IF x = id THEN new ELSE IF x = s THEN q ELSE shards[x]]
      /\ Record("SplitResidual", s, op, lease.fence)
  BY DEF SplitResidual
<1>6. id = Derive(s, op, "Residual", Len(Abs(r).spawned))
  BY <1>1
<1>7. IsFresh(s, Abs(r), op, req) /\ DistinctIds(s, Abs(r), op, req)
  <2>1. CheckOpIdempotency(Abs(r), op, req) = "Fresh"
    BY <1>1, <1>2 DEF CheckOpIdempotency, OpLogEntries
  <2>2. ReplayedResiduals(s, Abs(r), op) = {}
    BY <1>1, <1>5 DEF ReplayedResiduals
  <2> QED BY <1>1, <2>1, <2>2 DEF IsFresh, DistinctIds
<1>8. id \in ShardId /\ Append(r.spawned, id) \in Seq(ShardId)
      /\ newParent.lo \in Bound /\ newParent.hi \in Bound
  <2>1. r.spawned \in Seq(ShardId) /\ Len(r.spawned) \in Nat
    BY <1>1 DEF Shard
  <2>2. Len(r.spawned) \in 0..MaxSpawned
    BY <1>2, <2>1, BoundsAssumption DEF ValidSplitResidual, CanSpawn
  <2>3. id \in ShardId
    BY <1>1, <2>2, DeriveAssumption
  <2> HIDE DEF id
  <2> QED BY <2>1, <2>3 DEF KeyRange
<1> HIDE DEF id
<1>9. kept \in Shard /\ Abs(kept) = [Abs(r) EXCEPT !.lo = newParent.lo, !.hi = newParent.hi,
                                                   !.spawned = Append(Abs(r).spawned, id)]
  BY <1>1, <1>8, ShardFields DEF Abs
<1>10. Abs(q) = OpLogPush([Abs(r) EXCEPT !.lo = newParent.lo, !.hi = newParent.hi,
                                        !.spawned = Append(Abs(r).spawned, id)], op, req)
  <2> HIDE DEF kept
  <2> QED BY <1>9, AbsPush
<1>11. puts = [x \in {s, id} |-> IF x = s THEN Abs(q) ELSE new]
  <2>1. puts = SplitResidualPuts(s, Abs(r), op, newParent, residual)
    BY DEF Puts
  <2> HIDE DEF q, puts, r, req
  <2> QED BY <1>6, <1>10, <2>1 DEF SplitResidualPuts, req
<1>12. Abs(new) = new
  BY AbsNew
<1>13. history' = Fenced!Counted(history, req[1], s, op, lease.fence)
  BY <1>5, FencedBag DEF Fenced!Counted, Fenced!Structural, Record
<1> HIDE DEF q, puts, new, req
<1>14. /\ DOMAIN shards' = DOMAIN shards \cup {id} /\ s # id
       /\ shards'[id] = new /\ shards'[s] = q
       /\ \A x \in DOMAIN shards : x # s => shards'[x] = shards[x]
  BY <1>1, <1>5
<1>15. /\ (DOMAIN puts \ {s}) \cap DOMAIN shards = {}
       /\ DOMAIN shards' = DOMAIN shards \cup DOMAIN puts
       /\ \A x \in DOMAIN shards' :
             Abs(shards'[x]) = IF x \in DOMAIN puts THEN puts[x] ELSE Abs(shards[x])
  BY <1>1, <1>5, <1>11, <1>12, <1>14
<1>16. Effect(s, op, req)
  BY <1>1, <1>3, <1>4, <1>7, <1>13, <1>15 DEF Effect, puts, req
<1> QED BY <1>16, EffectIsFenced

\* One record rewritten outside FencedExecute.
LEMMA ViewRewritten ==
    ASSUME NEW s \in DOMAIN shards, NEW p, shards' = [shards EXCEPT ![s] = p]
    PROVE  View' = [View EXCEPT ![s] = Abs(p)]
<1>1. /\ DOMAIN shards' = DOMAIN shards /\ shards'[s] = p
      /\ \A x \in DOMAIN shards : x # s => shards'[x] = shards[x]
  OBVIOUS
<1>2. View' = [x \in DOMAIN shards' |-> Abs(shards'[x])]
  BY DEF View, Abs
<1>3. DOMAIN View = DOMAIN shards /\ \A x \in DOMAIN shards : View[x] = Abs(shards[x])
  BY DEF View
<1> QED BY <1>1, <1>2, <1>3

\* acquire_and_restore_into as a takeover of FencedShards.
LEMMA AcquireFenced ==
    ASSUME Inv, NEW w \in Worker, NEW s \in DOMAIN shards, Acquire(w, s)
    PROVE  Fenced!FencedNext
<1> DEFINE r == shards[s]
           q == [r EXCEPT !.fence = r.fence + 1, !.owner = w, !.deadline = Deadline(now)]
<1>1. r \in Shard /\ Abs(r).status = r.status /\ Abs(r).fence = r.fence
  BY AbsFields DEF Inv, TypeOK, ShardOK
<1>2. /\ r.status = "Active" /\ r.fence < MaxFence /\ history' = history
      /\ shards' = [shards EXCEPT ![s] = q]
  BY DEF Acquire
<1>3. Abs(q) = [Abs(r) EXCEPT !.fence = @ + 1, !.owner = w]
  BY <1>1, ShardFields DEF Abs
<1> HIDE DEF q
<1>4. View' = [View EXCEPT ![s] = Abs(q)] /\ View[s] = Abs(r) /\ DOMAIN View = DOMAIN shards
  <2>1. View' = [View EXCEPT ![s] = Abs(q)]
    BY <1>2, ViewRewritten
  <2> QED BY <2>1 DEF View
<1>5. /\ [x \in DOMAIN shards |-> [shards[x] EXCEPT !.deadline = 0]] = View
      /\ [x \in DOMAIN shards' |-> [shards'[x] EXCEPT !.deadline = 0]] = View'
  BY DEF View, Abs
<1>6. View' = [View EXCEPT ![s].fence = @ + 1, ![s].owner = w]
  <2>1. [View EXCEPT ![s].fence = @ + 1, ![s].owner = w]
           = [View EXCEPT ![s] = [View[s] EXCEPT !.fence = @ + 1, !.owner = w]]
    <3> HIDE DEF r
    <3> QED BY <1>4, <1>1
  <2> QED BY <1>3, <1>4, <2>1
<1> HIDE DEF r
<1>7. Fenced!FencedAcquire(w, s)
  BY <1>1, <1>2, <1>4, <1>5, <1>6 DEF Fenced!FencedAcquire
<1> QED BY <1>4, <1>5, <1>7 DEF Fenced!FencedNext

\* unpark_shard as a step of FencedShards.
LEMMA UnparkFenced ==
    ASSUME Inv, NEW s \in DOMAIN shards, NEW op \in OpId, Unpark(s, op)
    PROVE  Fenced!FencedNext
<1> DEFINE r == shards[s]
           open == [r EXCEPT !.fence = r.fence + 1, !.reason = NoReason, !.status = "Active"]
           free == Released(open)
           q == OpLogPush(free, op, <<"Unpark", s>>)
<1>1. /\ r \in Shard /\ Abs(r).status = r.status /\ Abs(r).fence = r.fence /\ Abs(r).log = r.log
      /\ r.fence \in Fence
  <2>1. r \in Shard
    BY DEF Inv, TypeOK, ShardOK
  <2> QED BY <2>1, AbsFields, FenceIsInt
<1>2. /\ CheckOpIdempotency(r, op, <<"Unpark", s>>) = "Fresh" /\ r.status = "Parked"
      /\ r.fence < MaxFence /\ shards' = [shards EXCEPT ![s] = q]
      /\ Record("Unpark", s, op, r.fence)
  BY DEF Unpark, UnparkOutcome, CheckOpIdempotency
<1>3. CheckOpIdempotency(Abs(r), op, <<"Unpark", s>>) = "Fresh"
  BY <1>1, <1>2 DEF CheckOpIdempotency, OpLogEntries
<1>4. /\ open \in Shard
      /\ Abs(open) = [Abs(r) EXCEPT !.fence = Abs(r).fence + 1, !.reason = NoReason, !.status = "Active"]
  <2>1. r.fence + 1 \in Fence
    BY <1>1, <1>2, BoundsAssumption DEF Fence
  <2> QED BY <1>1, <2>1, ShardFields DEF Abs, Status
<1>5. free \in Shard /\ Abs(free) = Released(Abs(open))
  <2> HIDE DEF open
  <2> QED BY <1>4, ReleasedFields, AbsReleased
<1>6. Abs(q) = AfterUnpark(s, Abs(r), op)
  <2> HIDE DEF open, free
  <2> QED BY <1>4, <1>5, AbsPush DEF AfterUnpark
<1>7. history' = Fenced!Counted(history, "Unpark", s, op, r.fence)
  BY <1>2, FencedBag DEF Fenced!Counted, Fenced!Structural, Record
<1> HIDE DEF q
<1>8. View' = [View EXCEPT ![s] = Abs(q)] /\ View[s] = Abs(r) /\ DOMAIN View = DOMAIN shards
  <2>1. View' = [View EXCEPT ![s] = Abs(q)]
    BY <1>2, ViewRewritten
  <2> QED BY <2>1 DEF View
<1>9. /\ [x \in DOMAIN shards |-> [shards[x] EXCEPT !.deadline = 0]] = View
      /\ [x \in DOMAIN shards' |-> [shards'[x] EXCEPT !.deadline = 0]] = View'
  BY DEF View, Abs
<1>10. /\ Fenced!CheckOpIdempotency(Abs(r), op, <<"Unpark", s>>) = "Fresh"
       /\ Fenced!AfterUnpark(s, Abs(r), op) = Abs(q)
  <2> HIDE DEF r
  <2> QED BY <1>3, <1>6, FencedFresh
<1> HIDE DEF r
<1>11. Fenced!FencedUnpark(s, op)
  BY <1>1, <1>2, <1>7, <1>8, <1>9, <1>10 DEF Fenced!FencedUnpark
<1> QED BY <1>8, <1>9, <1>11 DEF Fenced!FencedNext

\* A renewal moves a deadline, which FencedShards does not see.
LEMMA RenewFenced ==
    ASSUME Inv, NEW lease \in grants, Renew(lease)
    PROVE  View' = View /\ history' = history
<1> DEFINE s == lease.shard
           r == shards[s]
           q == [r EXCEPT !.owner = lease.owner, !.deadline = Deadline(now)]
<1>1. s \in DOMAIN shards /\ r \in Shard
  BY GrantedShard
<1>2. r.owner = lease.owner /\ shards' = [shards EXCEPT ![s] = q] /\ history' = history
  BY DEF Renew, ValidLease
<1>3. Abs(q) = Abs(r)
  BY <1>1, <1>2, ShardFields DEF Abs
<1> HIDE DEF q
<1>4. View' = [View EXCEPT ![s] = Abs(q)]
  BY <1>1, <1>2, ViewRewritten
<1>5. View[s] = Abs(r) /\ DOMAIN View = DOMAIN shards /\ View = [x \in DOMAIN View |-> View[x]]
  BY <1>1 DEF View
<1> HIDE DEF r
<1>6. [View EXCEPT ![s] = View[s]] = View
  BY <1>5
<1> QED BY <1>2, <1>3, <1>4, <1>5, <1>6

\* Every step of the backend is a step of FencedShards, or does not show there.
LEMMA FencedSteps ==
    ASSUME Inv, [Next]_vars
    PROVE  Fenced!FencedNext \/ (View' = View /\ history' = history)
<1>1. CASE Tick \/ UNCHANGED vars
  <2>1. shards' = shards /\ history' = history
    BY <1>1 DEF Tick, vars
  <2> QED BY <2>1 DEF View, Abs
<1>2. CASE \E w \in Worker, s \in DOMAIN shards : Acquire(w, s)
  BY <1>2, AcquireFenced
<1>3. CASE \E lease \in grants : Renew(lease)
  BY <1>3, RenewFenced
<1>4. CASE \E s \in DOMAIN shards, op \in OpId : Unpark(s, op)
  BY <1>4, UnparkFenced
<1>5. ASSUME NEW lease \in grants, NEW op \in OpId, LeaseOp(lease, op)
      PROVE  Fenced!FencedNext \/ (View' = View /\ history' = history)
  <2>1. CASE \E k \in Cursor : Checkpoint(lease, op, k)
    BY <2>1, CheckpointFenced
  <2>2. CASE \E k \in Cursor : Complete(lease, op, k)
    BY <2>2, CompleteFenced
  <2>3. CASE \E reason \in Reason : Park(lease, op, reason)
    BY <2>3, ParkFenced
  <2>4. ASSUME NEW cut \in Cuts(MaxChildren), NEW inherit \in BOOLEAN,
               SplitReplace(lease, op, PlannedChildren(cut, shards[lease.shard].cursor, inherit))
        PROVE  Fenced!FencedNext
    <3> DEFINE children == PlannedChildren(cut, shards[lease.shard].cursor, inherit)
    <3>1. shards[lease.shard].cursor \in Cursor
      BY GrantedShard DEF Shard
    <3>2. children \in Seq(Child) /\ SplitReplace(lease, op, children)
      BY <2>4, <3>1, PlannedChildrenType, BoundsAssumption
    <3>3. <<"SplitReplace", children>> \in LeaseRequests
      BY <3>1 DEF LeaseRequests
    <3> HIDE DEF children
    <3> QED BY <3>2, <3>3, ReplaceFenced
  <2>5. ASSUME NEW cut \in Cuts(2),
               SplitResidual(lease, op, [lo |-> cut[1], hi |-> cut[2]], [lo |-> cut[2], hi |-> cut[3]])
        PROVE  Fenced!FencedNext
    <3> DEFINE newParent == [lo |-> cut[1], hi |-> cut[2]]
               residual == [lo |-> cut[2], hi |-> cut[3]]
    <3>1. PICK m \in 2..2 : cut \in [1..(m + 1) -> Bound]
      BY CutsType
    <3>2. cut[1] \in Bound /\ cut[2] \in Bound /\ cut[3] \in Bound
      BY <3>1
    <3>3. newParent \in KeyRange /\ residual \in KeyRange
      BY <3>2 DEF KeyRange
    <3>4. <<"SplitResidual", <<newParent, residual>>>> \in LeaseRequests
      <4>1. <<"SplitResidual", <<newParent, residual>>>> \in
               {<<"SplitResidual", <<[lo |-> c[1], hi |-> c[2]], [lo |-> c[2], hi |-> c[3]]>>>> :
                   c \in Cuts(2)}
        OBVIOUS
      <4> HIDE DEF newParent, residual
      <4> QED BY <4>1 DEF LeaseRequests
    <3>5. SplitResidual(lease, op, newParent, residual)
      BY <2>5
    <3> HIDE DEF newParent, residual
    <3> QED BY <3>3, <3>4, <3>5, CarveFenced
  <2>6. ASSUME NEW children, SplitReplaceFails(lease, op, children)
        PROVE  View' = View /\ history' = history
    <3>1. /\ DOMAIN shards' = DOMAIN shards
          /\ \A x \in DOMAIN shards : shards'[x] = shards[x]
          /\ history' = history
      BY <2>6, FailedSplitRestores
    <3> QED BY <3>1 DEF View, Abs
  <2> QED BY <1>5, <2>1, <2>2, <2>3, <2>4, <2>5, <2>6 DEF LeaseOp
<1> QED BY <1>1, <1>2, <1>3, <1>4, <1>5 DEF Next

\* The first records are those of FencedShards.
LEMMA FencedStart == Init => Fenced!FencedInit
<1> SUFFICES ASSUME Init PROVE Fenced!FencedInit
  OBVIOUS
<1>1. /\ DOMAIN shards = DOMAIN Manifest
      /\ \A s \in DOMAIN Manifest :
            Abs(shards[s]) = NewShard(Manifest[s].lo, Manifest[s].hi, Manifest[s].cursor, NoShard)
  BY AbsNew DEF Init, RootShards
<1>2. \A lo, hi, cursor, parent :
         Fenced!NewShard(lo, hi, cursor, parent) = NewShard(lo, hi, cursor, parent)
  BY DEF Fenced!NewShard, NewShard
<1>3. history = Fenced!EmptyBag
  BY FencedBag DEF Init
<1> QED BY <1>1, <1>2, <1>3 DEF Fenced!FencedInit, Abs

\* The in-memory backend implements FencedShards: whatever its clock and its
\* callers do, a takeover happens under the next epoch only, and an effect only
\* in the hands of the holder and under the epoch that the record names
\* (acquire_and_restore_into, validate_lease).
THEOREM FencedRefinement == Spec => ImplementsFenced
<1>1. Init => Fenced!FencedInit
  BY FencedStart
<1>2. Inv /\ [Next]_vars => [Fenced!FencedNext]_(Fenced!fencedVars)
  <2> SUFFICES ASSUME Inv, [Next]_vars, ~Fenced!FencedNext
               PROVE  UNCHANGED Fenced!fencedVars
    OBVIOUS
  <2>1. View' = View /\ history' = history
    BY FencedSteps
  <2> QED BY <2>1 DEF Fenced!fencedVars, View, Abs
<1>3. Spec => []Inv
  BY Invariance
<1> QED BY <1>1, <1>2, <1>3, PTL DEF Spec, ImplementsFenced, Fenced!FencedSpec
=============================================================================

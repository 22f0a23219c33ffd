----------------------- MODULE EtcdCoordinationProofs -----------------------
(***************************************************************************)
(* Machine-checked proofs about EtcdCoordination, for every number of      *)
(* workers, clients, shards, etcd leases, retries and lost transactions.   *)
(*                                                                         *)
(* The invariant says what a transaction under way is worth: as long as    *)
(* no key it read was written (dirty is empty), what it puts is what its   *)
(* operation computes from the record as it is now, and what the operation *)
(* demanded of the record still holds.                                     *)
(***************************************************************************)
EXTENDS EtcdCoordination, ShardRecordsProofs

-----------------------------------------------------------------------------
(* The inductive invariant                                                 *)

\* The fields of a transaction.
TxnShape(t) ==
    t = [shard |-> t.shard, ownerIs |-> t.ownerIs, newOwner |-> t.newOwner, attach |-> t.attach,
         puts |-> t.puts, reads |-> t.reads, dirty |-> t.dirty, count |-> t.count,
         kind |-> t.kind, op |-> t.op, fence |-> t.fence]

\* acquire: the shard was Active and, then or now, not live.
AcquireCurrent(t, R, tm) ==
    LET r == R[t.shard]
    IN /\ t.kind = "Acquire"
       /\ r.status = "Active" /\ r.fence < MaxFence
       /\ t.ownerIs # NoOwner => r.deadline <= tm
       /\ t.newOwner \in OwnerKey /\ t.attach = t.newOwner.lease
       /\ t.newOwner.fence = r.fence + 1 /\ t.fence = r.fence + 1
       /\ t.reads = {t.shard}
       /\ \E d \in 0..MaxTime :
             t.puts = [x \in {t.shard} |-> [r EXCEPT !.fence = r.fence + 1,
                                                     !.owner = t.newOwner.worker, !.deadline = d]]

\* renew: only the deadline moves.
RenewCurrent(t, R) ==
    LET r == R[t.shard]
    IN /\ t.kind = "Renew"
       /\ t.newOwner = NoOwner /\ t.attach = NoLease
       /\ r.status = "Active"
       /\ t.reads = {t.shard}
       /\ \E d \in 0..MaxTime :
             t.puts = [x \in {t.shard} |-> [r EXCEPT !.deadline = d]]

\* unpark_shard: the shard is parked and the run has not ended.
UnparkCurrent(t, R, ended) ==
    LET r == R[t.shard]
    IN /\ t.kind = "Unpark"
       /\ t.newOwner = NoOwner /\ t.attach = NoLease /\ t.ownerIs = NoOwner
       /\ ~ended
       /\ t.op \in OpId
       /\ CheckOpIdempotency(r, t.op, <<"Unpark", t.shard>>) = "Fresh"
       /\ r.status = "Parked" /\ r.fence < MaxFence /\ t.fence = r.fence
       /\ t.reads = {t.shard, RunKey}
       /\ t.puts = [x \in {t.shard} |-> AfterUnpark(t.shard, r, t.op)]

\* The operations of a lease holder; a split has read the shard counter as well.
LeaseOpCurrent(t, R, n) ==
    LET r == R[t.shard]
        splits == t.kind \in {"SplitReplace", "SplitResidual"}
    IN /\ t.newOwner = NoOwner /\ t.attach = NoLease
       /\ r.status = "Active" /\ r.owner # NoWorker /\ t.fence = r.fence
       /\ t.op \in OpId
       /\ t.reads = IF splits THEN {t.shard, CounterKey} ELSE {t.shard}
       /\ splits => t.count = n + Cardinality(DOMAIN t.puts) - 1
       /\ \E req \in LeaseRequests :
             /\ t.kind = req[1]
             /\ IsFresh(t.shard, r, t.op, req)
             /\ Permitted(r, req, n)
             /\ DistinctIds(t.shard, r, t.op, req)
             /\ t.puts = Puts(t.shard, r, t.op, req)

\* A transaction under way when the records are R, the counter n, the time tm and
\* the run has ended or not.
TxnOK(t, R, n, tm, ended) ==
    /\ TxnShape(t)
    /\ t.shard \in DOMAIN R
    /\ t.dirty \subseteq t.reads
    /\ t.dirty = {} => \/ AcquireCurrent(t, R, tm)
                       \/ RenewCurrent(t, R)
                       \/ UnparkCurrent(t, R, ended)
                       \/ LeaseOpCurrent(t, R, n)

\* A call under way: what its next attempt will be made of.
CallOK(k, R, tm) ==
    /\ k = [req |-> k.req, shard |-> k.shard, worker |-> k.worker, fence |-> k.fence, op |-> k.op,
            now |-> k.now, tries |-> k.tries, txn |-> k.txn]
    /\ k.shard \in DOMAIN R
    /\ k.now \in Time /\ k.now <= tm
    /\ \/ k.req[1] = "Acquire" /\ k.worker \in Worker
       \/ k.req[1] = "Renew"
       \/ k.req = <<"Unpark", k.shard>> /\ k.op \in OpId
       \/ k.req \in LeaseRequests /\ k.op \in OpId

\* The keys in etcd.
KeysOK ==
    /\ now \in Time
    /\ DOMAIN recs \subseteq ShardId /\ IsFiniteSet(DOMAIN recs)
    /\ recs = [s \in DOMAIN recs |-> recs[s]]
    /\ \A s \in DOMAIN recs : ShardOK(recs[s])
    /\ owner = [s \in DOMAIN recs |-> owner[s]]
    /\ \A s \in DOMAIN recs : owner[s] # NoOwner => owner[s] \in OwnerKey
    /\ runEnded \in BOOLEAN

\* What the clients wait for and what they were told.
CallsOK ==
    /\ calls = [c \in Client |-> calls[c]]
    /\ \A c \in Client : calls[c] # Idle => CallOK(calls[c], recs, now)
    /\ \A c \in Client : calls[c] # Idle /\ calls[c].txn # Idle =>
          TxnOK(calls[c].txn, recs, count, now, runEnded)
    /\ \A t \in lost : TxnOK(t, recs, count, now, runEnded)
    /\ \A g \in known : g.shard \in DOMAIN recs /\ g.fence \in Int

\* OwnersSound and DerivedKeysExact are not inductive: a transaction decided on
\* what was read before, so what it decided must be known still to hold.
EtcdInv == KeysOK /\ CallsOK /\ OwnersSound /\ DerivedKeysExact

-----------------------------------------------------------------------------
(* A transaction under way                                                 *)

\* The fields of a transaction whose compares now see that keys were written.
LEMMA DirtiedFields ==
    ASSUME NEW t, NEW W, TxnShape(t)
    PROVE  LET u == Dirtied(t, W)
           IN /\ TxnShape(u) /\ u.dirty = t.dirty \cup (t.reads \cap W)
              /\ u.shard = t.shard /\ u.ownerIs = t.ownerIs /\ u.newOwner = t.newOwner
              /\ u.attach = t.attach /\ u.puts = t.puts /\ u.reads = t.reads
              /\ u.count = t.count /\ u.kind = t.kind /\ u.op = t.op /\ u.fence = t.fence
<1>1. ASSUME NEW a, NEW b, NEW c, NEW d, NEW e, NEW f, NEW g, NEW h, NEW i, NEW j, NEW k,
             t = [shard |-> a, ownerIs |-> b, newOwner |-> c, attach |-> d, puts |-> e, reads |-> f,
                  dirty |-> g, count |-> h, kind |-> i, op |-> j, fence |-> k]
      PROVE  Dirtied(t, W) = [shard |-> a, ownerIs |-> b, newOwner |-> c, attach |-> d, puts |-> e,
                  reads |-> f, dirty |-> g \cup (f \cap W), count |-> h, kind |-> i, op |-> j, fence |-> k]
  <2>1. t.dirty = g /\ t.reads = f
    BY <1>1
  <2>2. Dirtied(t, W) = [t EXCEPT !.dirty = g \cup (f \cap W)]
    BY <2>1 DEF Dirtied
  <2> DEFINE v == g \cup (f \cap W)
  <2> HIDE DEF v
  <2>3. [t EXCEPT !.dirty = v] = [shard |-> a, ownerIs |-> b, newOwner |-> c, attach |-> d,
           puts |-> e, reads |-> f, dirty |-> v, count |-> h, kind |-> i, op |-> j, fence |-> k]
    BY <1>1
  <2> QED BY <2>2, <2>3 DEF v
<1>2. Dirtied(t, W) = [shard |-> t.shard, ownerIs |-> t.ownerIs, newOwner |-> t.newOwner,
         attach |-> t.attach, puts |-> t.puts, reads |-> t.reads,
         dirty |-> t.dirty \cup (t.reads \cap W), count |-> t.count,
         kind |-> t.kind, op |-> t.op, fence |-> t.fence]
  BY <1>1 DEF TxnShape
<1> QED BY <1>2 DEF TxnShape

\* Only the splits look at the number of shards.
LEMMA CountIrrelevant ==
    ASSUME NEW r, NEW req \in LeaseRequests, NEW n, NEW m,
           req[1] \notin {"SplitReplace", "SplitResidual"}, Permitted(r, req, n)
    PROVE  Permitted(r, req, m)
BY RequestKinds DEF Permitted

\* A transaction that stays clean while keys are written stays what its operation
\* computes: everything it was decided on is among the keys it compares.
LEMMA TxnKept ==
    ASSUME NEW t, NEW R, NEW R2, NEW n, NEW n2, NEW tm \in Int, NEW tm2 \in Int,
           NEW e \in BOOLEAN, NEW e2 \in BOOLEAN, NEW W,
           TxnOK(t, R, n, tm, e), tm <= tm2, DOMAIN R \subseteq DOMAIN R2,
           \A x \in DOMAIN R : R[x].deadline \in Int,
           \A x \in DOMAIN R : x \notin W => R2[x] = R[x],
           CounterKey \notin W => n2 = n,
           RunKey \notin W => e2 = e
    PROVE  TxnOK(Dirtied(t, W), R2, n2, tm2, e2)
<1> DEFINE u == Dirtied(t, W)
           s == t.shard
<1>1. TxnShape(t) /\ s \in DOMAIN R /\ t.dirty \subseteq t.reads
  BY DEF TxnOK
<1>2. /\ TxnShape(u) /\ u.dirty = t.dirty \cup (t.reads \cap W)
      /\ u.shard = t.shard /\ u.ownerIs = t.ownerIs /\ u.newOwner = t.newOwner
      /\ u.attach = t.attach /\ u.puts = t.puts /\ u.reads = t.reads
      /\ u.count = t.count /\ u.kind = t.kind /\ u.op = t.op /\ u.fence = t.fence
  BY <1>1, DirtiedFields
<1> HIDE DEF u
<1>3. ASSUME u.dirty = {}
      PROVE  \/ AcquireCurrent(u, R2, tm2) \/ RenewCurrent(u, R2)
             \/ UnparkCurrent(u, R2, e2) \/ LeaseOpCurrent(u, R2, n2)
  <2>1. t.dirty = {} /\ t.reads \cap W = {}
    BY <1>2, <1>3
  <2>2. s \in t.reads => R2[s] = R[s]
    BY <1>1, <2>1
  <2>3. CASE AcquireCurrent(t, R, tm)
    <3>1. R2[s] = R[s] /\ R[s].deadline \in Int
      BY <1>1, <2>2, <2>3 DEF AcquireCurrent
    <3>2. t.ownerIs # NoOwner => R[s].deadline <= tm2
      BY <2>3, <3>1 DEF AcquireCurrent
    <3>3. PICK d \in 0..MaxTime :
             t.puts = [x \in {s} |-> [R[s] EXCEPT !.fence = R[s].fence + 1,
                                                  !.owner = t.newOwner.worker, !.deadline = d]]
      BY <2>3 DEF AcquireCurrent
    <3>4. u.puts = [x \in {u.shard} |-> [R2[u.shard] EXCEPT !.fence = R2[u.shard].fence + 1,
                                             !.owner = u.newOwner.worker, !.deadline = d]]
      BY <1>2, <3>1, <3>3
    <3>5. AcquireCurrent(u, R2, tm2)
      BY <1>2, <2>3, <3>1, <3>2, <3>4 DEF AcquireCurrent
    <3> QED BY <3>5
  <2>4. CASE RenewCurrent(t, R)
    <3>1. R2[s] = R[s]
      BY <2>2, <2>4 DEF RenewCurrent
    <3>2. RenewCurrent(u, R2)
      BY <1>2, <2>4, <3>1 DEF RenewCurrent
    <3> QED BY <3>2
  <2>5. CASE UnparkCurrent(t, R, e)
    <3>1. R2[s] = R[s] /\ e2 = e
      BY <2>1, <2>2, <2>5 DEF UnparkCurrent
    <3>2. UnparkCurrent(u, R2, e2)
      BY <1>2, <2>5, <3>1 DEF UnparkCurrent
    <3> QED BY <3>2
  <2>6. CASE LeaseOpCurrent(t, R, n)
    <3>1. R2[s] = R[s]
      BY <2>2, <2>6 DEF LeaseOpCurrent
    <3>2. PICK req \in LeaseRequests :
             /\ t.kind = req[1]
             /\ IsFresh(s, R[s], t.op, req)
             /\ Permitted(R[s], req, n)
             /\ DistinctIds(s, R[s], t.op, req)
             /\ t.puts = Puts(s, R[s], t.op, req)
      BY <2>6 DEF LeaseOpCurrent
    <3>3. t.kind \in {"SplitReplace", "SplitResidual"} => n2 = n
      BY <2>1, <2>6 DEF LeaseOpCurrent
    <3>4. Permitted(R[s], req, n2)
      BY <3>2, <3>3, CountIrrelevant
    <3>5. LeaseOpCurrent(u, R2, n2)
      BY <1>2, <2>6, <3>1, <3>2, <3>3, <3>4 DEF LeaseOpCurrent
    <3> QED BY <3>5
  <2> QED BY <2>1, <2>3, <2>4, <2>5, <2>6 DEF TxnOK
<1>4. u.shard \in DOMAIN R2 /\ u.dirty \subseteq u.reads
  BY <1>1, <1>2
<1> QED BY <1>2, <1>3, <1>4 DEF TxnOK, u

\* What a clean transaction does when it is applied: it puts well-formed records,
\* those of new shards Active; it leaves the shard claimable exactly when it
\* keeps or puts its index key; the owner key it leaves is the one its record
\* names; it counts the shards it makes; it takes no live owner's shard and
\* reopens none of an ended run.
Lands(t) ==
    LET s == t.shard
        p == t.puts
    IN /\ s \in DOMAIN recs /\ s \in DOMAIN p
       /\ DOMAIN p \subseteq ShardId /\ IsFiniteSet(DOMAIN p) /\ p = [x \in DOMAIN p |-> p[x]]
       /\ \A x \in DOMAIN p : ShardOK(p[x])
       /\ \A x \in DOMAIN p \ {s} : p[x].status = "Active"
       /\ recs[s].fence <= p[s].fence
       /\ t.kind = "Acquire" => recs[s].fence < t.fence /\ p[s].fence = t.fence
       /\ t.kind = "Acquire" /\ t.ownerIs # NoOwner => recs[s].deadline <= now
       /\ t.kind = "Unpark" => t.ownerIs = NoOwner /\ ~runEnded
       /\ t.kind # "Unpark" => recs[s].status = "Active"
       /\ t.kind \notin {"Acquire", "Unpark"} => p[s].fence = recs[s].fence
       /\ IF t.kind \in {"Complete", "Park", "SplitReplace"} THEN p[s].status # "Active"
          ELSE IF t.kind = "Unpark" THEN p[s].status = "Active"
          ELSE p[s].status = recs[s].status
       /\ t.newOwner # NoOwner =>
             /\ t.newOwner \in OwnerKey /\ t.attach = t.newOwner.lease
             /\ p[s].owner = t.newOwner.worker /\ p[s].fence = t.newOwner.fence
       /\ t.newOwner = NoOwner =>
             \/ DeletesOwner(t.kind)
             \/ t.ownerIs = NoOwner
             \/ p[s].owner = recs[s].owner /\ p[s].fence = recs[s].fence
       /\ IF CounterKey \in t.reads
            THEN /\ Cardinality(DOMAIN p) > 1
                 /\ t.count = count + Cardinality(DOMAIN p) - 1
                 /\ t.count <= MaxShards
            ELSE DOMAIN p = {s}

\* A clean acquire lands so.
LEMMA AcquireLands ==
    ASSUME KeysOK, NEW t, t.shard \in DOMAIN recs, AcquireCurrent(t, recs, now)
    PROVE  Lands(t)
<1> DEFINE s == t.shard
           r == recs[s]
           w == t.newOwner.worker
<1>1. s \in ShardId /\ r \in Shard /\ ShardOK(r) /\ r.fence \in Fence /\ r.fence + 1 \in Fence
  <2>1. r \in Shard /\ ShardOK(r) /\ s \in ShardId
    BY DEF KeysOK, ShardOK
  <2> QED BY <2>1, BoundsAssumption DEF AcquireCurrent, Shard, Fence
<1>2. /\ t.kind = "Acquire" /\ r.status = "Active"
      /\ t.newOwner \in OwnerKey /\ t.attach = t.newOwner.lease
      /\ t.newOwner.fence = r.fence + 1 /\ t.fence = r.fence + 1 /\ t.reads = {s}
  BY DEF AcquireCurrent
<1>3. w \in Worker
  BY <1>2 DEF OwnerKey
<1>4. PICK d \in 0..MaxTime :
         t.puts = [x \in {s} |-> [r EXCEPT !.fence = r.fence + 1, !.owner = w, !.deadline = d]]
  BY DEF AcquireCurrent
<1> DEFINE q == [r EXCEPT !.fence = r.fence + 1, !.owner = w, !.deadline = d]
<1>5. /\ q \in Shard /\ q.fence = r.fence + 1 /\ q.owner = w /\ q.status = r.status
      /\ q.log = r.log /\ q.spawned = r.spawned /\ q.reason = r.reason
  BY <1>1, <1>3, ShardFields
<1> HIDE DEF q
<1>6. ShardOK(q)
  BY <1>1, <1>2, <1>5 DEF ShardOK, IsTerminal
<1>7. IsFiniteSet({s}) /\ CounterKey \notin t.reads
  BY <1>1, <1>2, FS_Singleton, EtcdAssumption
<1>8. t.puts = [x \in {s} |-> q]
  BY <1>4 DEF q
<1>9. DOMAIN t.puts = {s} /\ t.puts[s] = q /\ t.puts = [x \in DOMAIN t.puts |-> t.puts[x]]
  BY <1>8
<1>10. r.fence <= r.fence + 1 /\ r.fence < r.fence + 1 /\ t.newOwner # NoOwner
  BY <1>1, <1>2, EtcdAssumption DEF Fence
<1>11. t.ownerIs # NoOwner => r.deadline <= now
  BY DEF AcquireCurrent
<1> HIDE DEF r, w
<1> QED BY <1>11, <1>1, <1>2, <1>5, <1>6, <1>7, <1>9, <1>10 DEF Lands, r, w

\* A clean renew lands so.
LEMMA RenewLands ==
    ASSUME KeysOK, NEW t, t.shard \in DOMAIN recs, RenewCurrent(t, recs)
    PROVE  Lands(t)
<1> DEFINE s == t.shard
           r == recs[s]
<1>1. s \in ShardId /\ r \in Shard /\ ShardOK(r) /\ r.fence \in Int
  <2>1. r \in Shard /\ ShardOK(r) /\ s \in ShardId
    BY DEF KeysOK, ShardOK
  <2> QED BY <2>1 DEF Shard, Fence
<1>2. t.kind = "Renew" /\ r.status = "Active" /\ t.newOwner = NoOwner /\ t.reads = {s}
  BY DEF RenewCurrent
<1>3. PICK d \in 0..MaxTime : t.puts = [x \in {s} |-> [r EXCEPT !.deadline = d]]
  BY DEF RenewCurrent
<1> DEFINE q == [r EXCEPT !.deadline = d]
<1>4. /\ q \in Shard /\ q.fence = r.fence /\ q.owner = r.owner /\ q.status = r.status
      /\ q.log = r.log /\ q.spawned = r.spawned /\ q.reason = r.reason
  BY <1>1, ShardFields
<1> HIDE DEF q
<1>5. ShardOK(q)
  BY <1>1, <1>4 DEF ShardOK
<1>6. IsFiniteSet({s}) /\ CounterKey \notin t.reads
  BY <1>1, <1>2, FS_Singleton, EtcdAssumption
<1>7. t.puts = [x \in {s} |-> q]
  BY <1>3 DEF q
<1>8. DOMAIN t.puts = {s} /\ t.puts[s] = q /\ t.puts = [x \in DOMAIN t.puts |-> t.puts[x]]
  BY <1>7
<1> HIDE DEF r
<1> QED BY <1>1, <1>2, <1>4, <1>5, <1>6, <1>8 DEF Lands, r

\* A clean unpark lands so.
LEMMA UnparkLands ==
    ASSUME KeysOK, NEW t, t.shard \in DOMAIN recs, UnparkCurrent(t, recs, runEnded)
    PROVE  Lands(t)
<1> DEFINE s == t.shard
           r == recs[s]
           q == AfterUnpark(s, r, t.op)
<1>1. s \in ShardId /\ ShardOK(r) /\ r.fence \in Int
  <2>1. r \in Shard /\ ShardOK(r) /\ s \in ShardId
    BY DEF KeysOK, ShardOK
  <2> QED BY <2>1 DEF Shard, Fence
<1>2. /\ t.kind = "Unpark" /\ t.newOwner = NoOwner /\ t.ownerIs = NoOwner
      /\ t.reads = {s, RunKey} /\ t.puts = [x \in {s} |-> q]
      /\ r.status = "Parked" /\ r.fence < MaxFence /\ ~runEnded
      /\ t.op \in OpId /\ CheckOpIdempotency(r, t.op, <<"Unpark", s>>) = "Fresh"
  BY DEF UnparkCurrent
<1>3. ShardOK(q) /\ q.fence = r.fence + 1 /\ q.status = "Active"
  BY <1>1, <1>2, UnparkPut
<1>4. IsFiniteSet({s}) /\ CounterKey # s /\ CounterKey # RunKey
  BY <1>1, FS_Singleton, EtcdAssumption
<1> HIDE DEF q
<1>5. DOMAIN t.puts = {s} /\ t.puts[s] = q /\ t.puts = [x \in DOMAIN t.puts |-> t.puts[x]]
  BY <1>2
<1>6. r.fence <= r.fence + 1
  BY <1>1
<1> HIDE DEF r
<1> QED BY <1>1, <1>2, <1>3, <1>4, <1>5, <1>6 DEF Lands, r

\* A clean operation of a lease holder lands so.
LEMMA LeaseOpLands ==
    ASSUME KeysOK, count \in Nat, NEW t, t.shard \in DOMAIN recs, LeaseOpCurrent(t, recs, count)
    PROVE  Lands(t)
<1> DEFINE s == t.shard
           r == recs[s]
           p == t.puts
           splits == t.kind \in {"SplitReplace", "SplitResidual"}
<1>1. s \in ShardId /\ ShardOK(r) /\ r.fence \in Int
  <2>1. r \in Shard /\ ShardOK(r) /\ s \in ShardId
    BY DEF KeysOK, ShardOK
  <2> QED BY <2>1 DEF Shard, Fence
<1>2. /\ t.newOwner = NoOwner /\ r.status = "Active" /\ t.op \in OpId
      /\ t.reads = IF splits THEN {s, CounterKey} ELSE {s}
      /\ splits => t.count = count + Cardinality(DOMAIN p) - 1
  BY DEF LeaseOpCurrent
<1>3. PICK req \in LeaseRequests :
         /\ t.kind = req[1]
         /\ IsFresh(s, r, t.op, req)
         /\ Permitted(r, req, count)
         /\ DistinctIds(s, r, t.op, req)
         /\ p = Puts(s, r, t.op, req)
  BY DEF LeaseOpCurrent
<1>4. t.kind \in {"Checkpoint", "Complete", "Park", "SplitReplace", "SplitResidual"}
  BY <1>3, RequestKinds
<1>5. /\ WrittenSoundly(s, r, t.kind, p)
      /\ t.kind \in {"Checkpoint", "Complete", "Park"} => DOMAIN p = {s}
      /\ splits => /\ Cardinality(DOMAIN p) > 1
                   /\ count + Cardinality(DOMAIN p) - 1 <= MaxShards
  <2> HIDE DEF r, p
  <2>1. t.op \in OpId /\ r.status = "Active"
    BY <1>2
  <2>2. /\ WrittenSoundly(s, r, req[1], Puts(s, r, t.op, req))
        /\ req[1] \in {"Checkpoint", "Complete", "Park"} => DOMAIN Puts(s, r, t.op, req) = {s}
        /\ req[1] \in {"SplitReplace", "SplitResidual"} =>
              /\ Cardinality(DOMAIN Puts(s, r, t.op, req)) > 1
              /\ count + Cardinality(DOMAIN Puts(s, r, t.op, req)) - 1 <= MaxShards
    BY <1>1, <1>3, <2>1, PutsSound
  <2> QED BY <1>3, <2>2
<1>6. CounterKey # s
  BY <1>1, EtcdAssumption
<1>7. CounterKey \in t.reads <=> splits
  BY <1>2, <1>6
<1>8. IF CounterKey \in t.reads
        THEN /\ Cardinality(DOMAIN p) > 1
             /\ t.count = count + Cardinality(DOMAIN p) - 1
             /\ t.count <= MaxShards
        ELSE DOMAIN p = {s}
  BY <1>2, <1>4, <1>5, <1>7
<1> HIDE DEF r, p
<1>9. /\ s \in DOMAIN p /\ DOMAIN p \subseteq ShardId /\ IsFiniteSet(DOMAIN p)
      /\ p = [x \in DOMAIN p |-> p[x]]
      /\ \A x \in DOMAIN p : ShardOK(p[x])
      /\ \A x \in DOMAIN p \ {s} : p[x].status = "Active"
      /\ p[s].fence = r.fence
  BY <1>5 DEF WrittenSoundly
<1>10. /\ t.kind \in {"Checkpoint", "SplitResidual"} => p[s].owner = r.owner /\ p[s].status = r.status
       /\ t.kind \in {"Complete", "Park", "SplitReplace"} => p[s].status # "Active"
  BY <1>5 DEF WrittenSoundly
<1>11. t.kind # "Acquire" /\ t.kind # "Unpark" /\ (DeletesOwner(t.kind) \/ p[s].owner = r.owner)
  BY <1>4, <1>10 DEF DeletesOwner
<1>12. IF t.kind \in {"Complete", "Park", "SplitReplace"} THEN p[s].status # "Active"
       ELSE IF t.kind = "Unpark" THEN p[s].status = "Active"
       ELSE p[s].status = r.status
  BY <1>4, <1>10
<1>13. r.fence <= p[s].fence
  BY <1>1, <1>9
<1> QED BY <1>2, <1>8, <1>9, <1>11, <1>12, <1>13 DEF Lands, r, p

\* So does every clean transaction.
LEMMA CleanLands ==
    ASSUME KeysOK, count \in Nat, NEW t, TxnOK(t, recs, count, now, runEnded), t.dirty = {}
    PROVE  Lands(t)
BY AcquireLands, RenewLands, UnparkLands, LeaseOpLands DEF TxnOK

\* The records after a transaction is applied.
LEMMA AppliedRecords ==
    ASSUME KeysOK, NEW t, Lands(t), ComparesHold(t), NEW gone, Apply(t, gone)
    PROVE  /\ DOMAIN recs' = DOMAIN recs \cup DOMAIN t.puts
           /\ recs' = [x \in DOMAIN recs' |-> recs'[x]]
           /\ \A x \in DOMAIN t.puts : recs'[x] = t.puts[x]
           /\ \A x \in DOMAIN recs \ {t.shard} : recs'[x] = recs[x] /\ x \notin DOMAIN t.puts
           /\ \A x \in DOMAIN recs' : ShardOK(recs'[x])
           /\ \A x \in DOMAIN recs : recs[x].fence <= recs'[x].fence
           /\ \A x \in DOMAIN t.puts \ {t.shard} : x \notin DOMAIN recs
<1>1. recs' = [x \in DOMAIN recs \cup DOMAIN t.puts |->
                  IF x \in DOMAIN t.puts THEN t.puts[x] ELSE recs[x]]
  BY DEF Apply, Fenced!Written
<1>2. (DOMAIN t.puts \ {t.shard}) \cap DOMAIN recs = {}
  BY DEF ComparesHold
<1>3. /\ DOMAIN recs' = DOMAIN recs \cup DOMAIN t.puts
      /\ recs' = [x \in DOMAIN recs' |-> recs'[x]]
      /\ \A x \in DOMAIN t.puts : recs'[x] = t.puts[x]
  BY <1>1
<1>4. \A x \in DOMAIN recs \ {t.shard} : recs'[x] = recs[x] /\ x \notin DOMAIN t.puts
  BY <1>1, <1>2
<1>5. /\ \A x \in DOMAIN t.puts : ShardOK(t.puts[x])
      /\ t.shard \in DOMAIN t.puts /\ recs[t.shard].fence <= t.puts[t.shard].fence
  BY DEF Lands
<1>6. \A x \in DOMAIN recs : ShardOK(recs[x])
  BY DEF KeysOK
<1>7. \A x \in DOMAIN recs' : ShardOK(recs'[x])
  BY <1>3, <1>4, <1>5, <1>6
<1>8. \A x \in DOMAIN recs : recs[x].fence \in Int
  BY <1>6 DEF ShardOK, Shard, Fence
<1>9. \A x \in DOMAIN recs : recs[x].fence <= recs'[x].fence
  BY <1>3, <1>4, <1>5, <1>8
<1> QED BY <1>2, <1>3, <1>4, <1>7, <1>9

\* Every owner key still belongs to the holder and the epoch of its record.
LEMMA AppliedOwners ==
    ASSUME KeysOK, OwnerKeyConsistent, NEW t, Lands(t), ComparesHold(t), LeaseAlive(t),
           NEW gone, Apply(t, gone)
    PROVE  /\ owner' = [x \in DOMAIN recs' |-> owner'[x]]
           /\ \A x \in DOMAIN recs' : owner'[x] # NoOwner => owner'[x] \in OwnerKey
           /\ OwnerKeyConsistent'
<1> DEFINE s == t.shard
<1>1. owner' = [x \in DOMAIN recs' |->
                   IF OwnerAfter(t, x) # NoOwner /\ OwnerAfter(t, x).lease \in gone
                     THEN NoOwner ELSE OwnerAfter(t, x)]
  BY DEF Apply
<1>2. leases' = leases \ gone
  BY DEF Apply
<1>3. DOMAIN owner = DOMAIN recs /\ \A x \in DOMAIN recs : owner[x] # NoOwner => owner[x] \in OwnerKey
  BY DEF KeysOK
<1>4. owner[s] = t.ownerIs
  BY DEF ComparesHold
<1>5. /\ s \in DOMAIN recs /\ s \in DOMAIN t.puts
      /\ t.newOwner # NoOwner =>
             /\ t.newOwner \in OwnerKey /\ t.attach = t.newOwner.lease
             /\ t.puts[s].owner = t.newOwner.worker /\ t.puts[s].fence = t.newOwner.fence
      /\ t.newOwner = NoOwner =>
             \/ DeletesOwner(t.kind)
             \/ t.ownerIs = NoOwner
             \/ t.puts[s].owner = recs[s].owner /\ t.puts[s].fence = recs[s].fence
  BY DEF Lands
<1>6. /\ recs'[s] = t.puts[s]
      /\ \A x \in DOMAIN recs \ {s} : recs'[x] = recs[x]
  BY <1>5, AppliedRecords
<1>7. t.newOwner # NoOwner => t.newOwner.lease \in leases
  BY <1>5, EtcdAssumption DEF LeaseAlive, OwnerKey
<1>8. ASSUME NEW x \in DOMAIN recs', OwnerAfter(t, x) # NoOwner
      PROVE  LET o == OwnerAfter(t, x)
             IN /\ o \in OwnerKey /\ o.lease \in leases
                /\ recs'[x].owner = o.worker /\ recs'[x].fence = o.fence
  <2>1. x \in DOMAIN recs
    BY <1>3, <1>8 DEF OwnerAfter
  <2>2. CASE x # s
    BY <1>3, <1>6, <1>8, <2>1, <2>2 DEF OwnerAfter, OwnerKeyConsistent
  <2>3. CASE x = s /\ t.newOwner # NoOwner
    BY <1>3, <1>5, <1>6, <1>7, <2>1, <2>3 DEF OwnerAfter
  <2>4. CASE x = s /\ t.newOwner = NoOwner
    <3>1. OwnerAfter(t, s) = owner[s] /\ ~DeletesOwner(t.kind) /\ owner[s] # NoOwner
      BY <1>3, <1>8, <2>1, <2>4 DEF OwnerAfter
    <3>2. recs'[s].owner = recs[s].owner /\ recs'[s].fence = recs[s].fence
      BY <1>4, <1>5, <1>6, <2>4, <3>1
    <3> QED BY <1>3, <1>5, <2>4, <3>1, <3>2 DEF OwnerKeyConsistent
  <2> QED BY <2>2, <2>3, <2>4
<1>9. owner' = [x \in DOMAIN recs' |-> owner'[x]]
  BY <1>1
<1>10. \A x \in DOMAIN recs' : owner'[x] # NoOwner =>
          owner'[x] = OwnerAfter(t, x) /\ OwnerAfter(t, x).lease \notin gone
  BY <1>1
<1>11. \A x \in DOMAIN recs' : owner'[x] # NoOwner => owner'[x] \in OwnerKey
  BY <1>8, <1>10
<1>12. OwnerKeyConsistent'
  BY <1>2, <1>8, <1>10 DEF OwnerKeyConsistent
<1> QED BY <1>9, <1>11, <1>12

\* The claim index still names exactly the Active shards.
LEMMA AppliedIndex ==
    ASSUME KeysOK, IndexExact, NEW t, Lands(t), ComparesHold(t), NEW gone, Apply(t, gone)
    PROVE  IndexExact'
<1> DEFINE s == t.shard
           made == DOMAIN t.puts \ {s}
<1>1. index' = (index \ (IF t.kind \in {"Complete", "Park", "SplitReplace"} THEN {s} ELSE {}))
               \cup made \cup (IF t.kind = "Unpark" THEN {s} ELSE {})
  BY DEF Apply, IndexAfter
<1>2. /\ DOMAIN recs' = DOMAIN recs \cup DOMAIN t.puts
      /\ \A x \in DOMAIN t.puts : recs'[x] = t.puts[x]
      /\ \A x \in DOMAIN recs \ {s} : recs'[x] = recs[x] /\ x \notin DOMAIN t.puts
      /\ \A x \in made : x \notin DOMAIN recs
  BY AppliedRecords
<1>3. /\ s \in DOMAIN recs /\ s \in DOMAIN t.puts
      /\ \A x \in made : t.puts[x].status = "Active"
      /\ IF t.kind \in {"Complete", "Park", "SplitReplace"} THEN t.puts[s].status # "Active"
         ELSE IF t.kind = "Unpark" THEN t.puts[s].status = "Active"
         ELSE t.puts[s].status = recs[s].status
  BY DEF Lands
<1>4. \A x \in DOMAIN recs' : x \in made \/ x = s \/ x \in DOMAIN recs \ {s}
  BY <1>2
<1>5. \A x : x \in index <=> x \in DOMAIN recs /\ recs[x].status = "Active"
  BY DEF IndexExact
<1>6. ASSUME NEW x PROVE x \in index' <=> x \in DOMAIN recs' /\ recs'[x].status = "Active"
  <2>1. CASE x \in made
    BY <1>1, <1>2, <1>3, <2>1
  <2>2. CASE x = s
    <3>1. s \in DOMAIN recs' /\ recs'[s] = t.puts[s] /\ s \notin made
      BY <1>2, <1>3
    <3>2. s \in index' <=> t.puts[s].status = "Active"
      BY <1>1, <1>3, <1>5, <3>1
    <3> QED BY <2>2, <3>1, <3>2
  <2>3. CASE x \in DOMAIN recs \ {s}
    <3>1. x \notin made /\ x \in DOMAIN recs' /\ recs'[x] = recs[x]
      BY <1>2, <2>3
    <3>2. x \in index' <=> x \in index
      BY <1>1, <2>3, <3>1
    <3> QED BY <1>5, <2>3, <3>1, <3>2
  <2>4. CASE x \notin DOMAIN recs'
    <3>1. x \notin DOMAIN recs /\ x \notin made /\ x # s
      BY <1>2, <1>3, <2>4
    <3> QED BY <1>1, <1>5, <2>4, <3>1
  <2> QED BY <1>4, <2>1, <2>2, <2>3, <2>4
<1> QED BY <1>6 DEF IndexExact

\* The counter is still the number of shards.
LEMMA AppliedCount ==
    ASSUME KeysOK, CounterExact, NEW t, Lands(t), ComparesHold(t), NEW gone, Apply(t, gone)
    PROVE  /\ CounterExact' /\ IsFiniteSet(DOMAIN recs')
           /\ CounterKey \notin WrittenKeys(t) => count' = count
<1> DEFINE s == t.shard
           P == DOMAIN t.puts
           D == DOMAIN recs
<1>1. DOMAIN recs' = D \cup P /\ D \cap P = {s}
  <2>1. /\ DOMAIN recs' = D \cup P
        /\ \A x \in D \ {s} : x \notin P
    BY AppliedRecords
  <2>2. s \in D /\ s \in P
    BY DEF Lands
  <2> QED BY <2>1, <2>2
<1>2. /\ IsFiniteSet(P) /\ IsFiniteSet(D)
      /\ IF CounterKey \in t.reads
           THEN /\ Cardinality(P) > 1 /\ t.count = count + Cardinality(P) - 1 /\ t.count <= MaxShards
           ELSE P = {s}
  BY DEF Lands, KeysOK
<1>3. count' = IF CounterKey \in t.reads THEN t.count ELSE count
  BY DEF Apply
<1>4. count = Cardinality(D) /\ count <= MaxShards
  BY DEF CounterExact
<1>5. Cardinality({s}) = 1
  BY FS_Singleton
<1> HIDE DEF P, D, s
<1>6. /\ IsFiniteSet(D \cup P)
      /\ Cardinality(D \cup P) = Cardinality(D) + Cardinality(P) - Cardinality(D \cap P)
  BY <1>2, FS_Union
<1>7. Cardinality(D) \in Nat /\ Cardinality(P) \in Nat
  BY <1>2, FS_CardinalityType
<1>8. count' = Cardinality(D \cup P) /\ count' <= MaxShards
  <2>1. CASE CounterKey \in t.reads
    BY <1>1, <1>2, <1>3, <1>4, <1>5, <1>6, <1>7, <2>1
  <2>2. CASE CounterKey \notin t.reads
    BY <1>1, <1>2, <1>3, <1>4, <1>5, <1>6, <1>7, <2>2
  <2> QED BY <2>1, <2>2
<1>9. CounterKey \notin WrittenKeys(t) => count' = count
  BY <1>2, <1>3 DEF WrittenKeys, P
<1> QED BY <1>1, <1>6, <1>8, <1>9 DEF CounterExact

-----------------------------------------------------------------------------
(* What a step that writes the keys W leaves to the others                 *)

\* Keys outside W keep their values, time and the end of the run only advance.
Frame(W) ==
    /\ now \in Time /\ now' \in Time /\ now <= now'
    /\ runEnded \in BOOLEAN /\ runEnded' \in BOOLEAN
    /\ DOMAIN recs \subseteq DOMAIN recs'
    /\ \A x \in DOMAIN recs : recs[x].deadline \in Int
    /\ \A x \in DOMAIN recs : x \notin W => recs'[x] = recs[x]
    /\ CounterKey \notin W => count' = count
    /\ RunKey \notin W => runEnded' = runEnded

\* A transaction under way, once it is told of the written keys.
LEMMA FrameTxn ==
    ASSUME NEW W, Frame(W), NEW t, TxnOK(t, recs, count, now, runEnded)
    PROVE  TxnOK(Dirtied(t, W), recs', count', now', runEnded')
<1>1. now \in Int /\ now' \in Int
  BY BoundsAssumption DEF Frame, Time
<1>2. /\ now <= now' /\ runEnded \in BOOLEAN /\ runEnded' \in BOOLEAN
      /\ DOMAIN recs \subseteq DOMAIN recs'
      /\ \A x \in DOMAIN recs : recs[x].deadline \in Int
      /\ \A x \in DOMAIN recs : x \notin W => recs'[x] = recs[x]
      /\ CounterKey \notin W => count' = count
      /\ RunKey \notin W => runEnded' = runEnded
  BY DEF Frame
<1> QED BY <1>1, <1>2, TxnKept

\* Where nothing is written, the transaction itself.
LEMMA FrameSame ==
    ASSUME Frame({}), NEW t, TxnOK(t, recs, count, now, runEnded)
    PROVE  TxnOK(t, recs', count', now', runEnded')
<1>1. TxnShape(t)
  BY DEF TxnOK
<1>2. Dirtied(t, {}) = t
  <2>1. TxnShape(Dirtied(t, {})) /\ Dirtied(t, {}).dirty = t.dirty \cup (t.reads \cap {})
    BY <1>1, DirtiedFields
  <2>2. LET u == Dirtied(t, {})
        IN /\ u.shard = t.shard /\ u.ownerIs = t.ownerIs /\ u.newOwner = t.newOwner
           /\ u.attach = t.attach /\ u.puts = t.puts /\ u.reads = t.reads
           /\ u.count = t.count /\ u.kind = t.kind /\ u.op = t.op /\ u.fence = t.fence
    BY <1>1, DirtiedFields
  <2>3. Dirtied(t, {}).dirty = t.dirty
    BY <2>1
  <2> QED BY <1>1, <2>1, <2>2, <2>3 DEF TxnShape
<1> QED BY <1>2, FrameTxn

\* A call under way.
LEMMA FrameCall ==
    ASSUME NEW W, Frame(W), NEW k, CallOK(k, recs, now)
    PROVE  CallOK(k, recs', now')
<1>1. k.shard \in DOMAIN recs' /\ k.now <= now'
  <2>1. k.now \in Int /\ now \in Int /\ now' \in Int /\ now <= now' /\ k.now <= now
    BY BoundsAssumption DEF CallOK, Frame, Time
  <2>2. k.shard \in DOMAIN recs'
    BY DEF CallOK, Frame
  <2> QED BY <2>1, <2>2
<1> QED BY <1>1 DEF CallOK

\* A call whose transaction, or number of tries, changes.
LEMMA CallUpdated ==
    ASSUME NEW k, NEW R, NEW tm, CallOK(k, R, tm), NEW u, NEW m
    PROVE  /\ CallOK([k EXCEPT !.txn = u], R, tm) /\ [k EXCEPT !.txn = u].txn = u
           /\ CallOK([k EXCEPT !.tries = m, !.txn = u], R, tm)
           /\ [k EXCEPT !.tries = m, !.txn = u].txn = u
<1>1. ASSUME NEW a, NEW b, NEW c, NEW d, NEW e, NEW f, NEW g, NEW h,
             k = [req |-> a, shard |-> b, worker |-> c, fence |-> d, op |-> e, now |-> f,
                  tries |-> g, txn |-> h]
      PROVE  /\ [k EXCEPT !.txn = u] =
                [req |-> a, shard |-> b, worker |-> c, fence |-> d, op |-> e, now |-> f,
                 tries |-> g, txn |-> u]
             /\ [k EXCEPT !.tries = m, !.txn = u] =
                [req |-> a, shard |-> b, worker |-> c, fence |-> d, op |-> e, now |-> f,
                 tries |-> m, txn |-> u]
  <2>1. [k EXCEPT !.txn = u] =
          [req |-> a, shard |-> b, worker |-> c, fence |-> d, op |-> e, now |-> f,
           tries |-> g, txn |-> u]
    BY <1>1
  <2> DEFINE l == [k EXCEPT !.tries = m]
  <2>2. l = [req |-> a, shard |-> b, worker |-> c, fence |-> d, op |-> e, now |-> f,
             tries |-> m, txn |-> h]
    BY <1>1
  <2>3. [k EXCEPT !.tries = m, !.txn = u] = [l EXCEPT !.txn = u]
    OBVIOUS
  <2> HIDE DEF l
  <2>4. [l EXCEPT !.txn = u] =
          [req |-> a, shard |-> b, worker |-> c, fence |-> d, op |-> e, now |-> f,
           tries |-> m, txn |-> u]
    BY <2>2
  <2> QED BY <2>1, <2>3, <2>4
<1>2. /\ [k EXCEPT !.txn = u] =
          [req |-> k.req, shard |-> k.shard, worker |-> k.worker, fence |-> k.fence, op |-> k.op,
           now |-> k.now, tries |-> k.tries, txn |-> u]
      /\ [k EXCEPT !.tries = m, !.txn = u] =
          [req |-> k.req, shard |-> k.shard, worker |-> k.worker, fence |-> k.fence, op |-> k.op,
           now |-> k.now, tries |-> m, txn |-> u]
  BY <1>1 DEF CallOK
<1> DEFINE k1 == [k EXCEPT !.txn = u]
           k2 == [k EXCEPT !.tries = m, !.txn = u]
<1>3. /\ k1.req = k.req /\ k1.shard = k.shard /\ k1.worker = k.worker /\ k1.op = k.op
      /\ k1.now = k.now /\ k1.txn = u
      /\ k1 = [req |-> k1.req, shard |-> k1.shard, worker |-> k1.worker, fence |-> k1.fence,
               op |-> k1.op, now |-> k1.now, tries |-> k1.tries, txn |-> k1.txn]
  BY <1>2
<1>4. /\ k2.req = k.req /\ k2.shard = k.shard /\ k2.worker = k.worker /\ k2.op = k.op
      /\ k2.now = k.now /\ k2.txn = u
      /\ k2 = [req |-> k2.req, shard |-> k2.shard, worker |-> k2.worker, fence |-> k2.fence,
               op |-> k2.op, now |-> k2.now, tries |-> k2.tries, txn |-> k2.txn]
  BY <1>2
<1> HIDE DEF k1, k2
<1>5. CallOK(k1, R, tm)
  BY <1>3 DEF CallOK
<1>6. CallOK(k2, R, tm)
  BY <1>4 DEF CallOK
<1> QED BY <1>3, <1>4, <1>5, <1>6 DEF k1, k2

\* The calls of the other clients.
CallsKept ==
    /\ calls' = [d \in Client |-> calls'[d]]
    /\ \A d \in Client : calls'[d] # Idle => CallOK(calls'[d], recs', now')
    /\ \A d \in Client : calls'[d] # Idle /\ calls'[d].txn # Idle =>
          TxnOK(calls'[d].txn, recs', count', now', runEnded')

\* The clients that see the written keys keep their calls.
LEMMA OthersKept ==
    ASSUME CallsOK, NEW W, Frame(W), NEW c, OthersSee(c, W)
    PROVE  CallsKept
<1>1. calls' = [d \in Client |->
                    IF d = c THEN Idle
                    ELSE IF calls[d] = Idle \/ calls[d].txn = Idle THEN calls[d]
                    ELSE [calls[d] EXCEPT !.txn = Dirtied(calls[d].txn, W)]]
  BY DEF OthersSee
<1>2. ASSUME NEW d \in Client, calls'[d] # Idle
      PROVE  /\ CallOK(calls'[d], recs', now')
             /\ calls'[d].txn # Idle => TxnOK(calls'[d].txn, recs', count', now', runEnded')
  <2> DEFINE u == Dirtied(calls[d].txn, W)
  <2>1. d # c /\ calls[d] # Idle
    BY <1>1, <1>2
  <2>2. CallOK(calls[d], recs, now)
    BY <2>1 DEF CallsOK
  <2>3. CallOK(calls[d], recs', now')
    BY <2>2, FrameCall
  <2>4. CASE calls[d].txn = Idle
    <3>1. calls'[d] = calls[d]
      BY <1>1, <2>1, <2>4
    <3> QED BY <2>3, <2>4, <3>1
  <2>5. CASE calls[d].txn # Idle
    <3>1. calls'[d] = [calls[d] EXCEPT !.txn = u]
      BY <1>1, <2>1, <2>5
    <3>2. TxnOK(u, recs', count', now', runEnded')
      BY <2>1, <2>5, FrameTxn DEF CallsOK
    <3> HIDE DEF u
    <3>3. CallOK([calls[d] EXCEPT !.txn = u], recs', now') /\ [calls[d] EXCEPT !.txn = u].txn = u
      BY <2>3, CallUpdated
    <3> QED BY <3>1, <3>2, <3>3
  <2> QED BY <2>4, <2>5
<1>3. calls' = [d \in Client |-> calls'[d]]
  BY <1>1
<1> QED BY <1>2, <1>3 DEF CallsKept

\* What is left of transactions nobody waits for.
LEMMA LostKept ==
    ASSUME NEW W, Frame(W), NEW T, \A t \in T : TxnOK(t, recs, count, now, runEnded)
    PROVE  \A u \in LostAfter(T, W) : TxnOK(u, recs', count', now', runEnded')
<1> SUFFICES ASSUME NEW u \in LostAfter(T, W) PROVE TxnOK(u, recs', count', now', runEnded')
  OBVIOUS
<1>1. PICK t \in T : u = Dirtied(t, W)
  BY DEF LostAfter
<1> QED BY <1>1, FrameTxn

\* A transaction applied leaves what every other step relies on.
LEMMA ApplyKeeps ==
    ASSUME EtcdInv, NEW t, TxnOK(t, recs, count, now, runEnded), ComparesHold(t), LeaseAlive(t),
           NEW gone, Apply(t, gone), UNCHANGED <<now, runEnded>>
    PROVE  /\ KeysOK' /\ OwnerKeyConsistent' /\ DerivedKeysExact'
           /\ Frame(WrittenKeys(t)) /\ Lands(t)
           /\ \A x \in DOMAIN recs : recs[x].fence <= recs'[x].fence
<1>1. /\ KeysOK /\ OwnerKeyConsistent /\ IndexExact /\ CounterExact
  BY DEF EtcdInv, OwnersSound, DerivedKeysExact
<1>2. count \in Nat
  BY <1>1, FS_CardinalityType DEF KeysOK, CounterExact
<1>3. t.dirty = {}
  BY DEF ComparesHold
<1>4. Lands(t)
  BY <1>1, <1>2, <1>3, CleanLands
<1>5. /\ DOMAIN recs' = DOMAIN recs \cup DOMAIN t.puts
      /\ recs' = [x \in DOMAIN recs' |-> recs'[x]]
      /\ \A x \in DOMAIN recs \ {t.shard} : recs'[x] = recs[x] /\ x \notin DOMAIN t.puts
      /\ \A x \in DOMAIN recs' : ShardOK(recs'[x])
      /\ \A x \in DOMAIN recs : recs[x].fence <= recs'[x].fence
  BY <1>1, <1>4, AppliedRecords
<1>6. /\ owner' = [x \in DOMAIN recs' |-> owner'[x]]
      /\ \A x \in DOMAIN recs' : owner'[x] # NoOwner => owner'[x] \in OwnerKey
      /\ OwnerKeyConsistent'
  BY <1>1, <1>4, AppliedOwners
<1>7. IndexExact'
  BY <1>1, <1>4, AppliedIndex
<1>8. /\ CounterExact' /\ IsFiniteSet(DOMAIN recs')
      /\ CounterKey \notin WrittenKeys(t) => count' = count
  BY <1>1, <1>4, AppliedCount
<1>9. DOMAIN recs' \subseteq ShardId /\ t.shard \in DOMAIN t.puts
  BY <1>1, <1>4, <1>5 DEF KeysOK, Lands
<1>10. KeysOK'
  <2>1. now' \in Time /\ runEnded' \in BOOLEAN
    BY <1>1 DEF KeysOK
  <2> QED BY <1>5, <1>6, <1>8, <1>9, <2>1 DEF KeysOK
<1>11. Frame(WrittenKeys(t))
  <2>1. \A x \in DOMAIN recs : x \notin WrittenKeys(t) => recs'[x] = recs[x]
    BY <1>5, <1>9 DEF WrittenKeys
  <2>2. \A x \in DOMAIN recs : recs[x].deadline \in Int
    BY <1>1, BoundsAssumption DEF KeysOK, ShardOK, Shard
  <2>3. now \in Time /\ runEnded \in BOOLEAN /\ now <= now
    BY <1>1, BoundsAssumption DEF KeysOK, Time
  <2> QED BY <1>5, <1>8, <2>1, <2>2, <2>3 DEF Frame
<1> QED BY <1>4, <1>5, <1>6, <1>7, <1>8, <1>10, <1>11 DEF DerivedKeysExact

-----------------------------------------------------------------------------
(* Every attempt sends a transaction that is worth what it was decided on  *)

\* The fields of a transaction as it is sent.
LEMMA SentFields ==
    ASSUME NEW s, NEW ownerIs, NEW newOwner, NEW puts, NEW reads, NEW kind, NEW op, NEW fence
    PROVE  LET t == Txn(s, ownerIs, newOwner, puts, reads, kind, op, fence)
           IN /\ TxnShape(t)
              /\ t.shard = s /\ t.ownerIs = ownerIs /\ t.newOwner = newOwner
              /\ t.attach = IF newOwner = NoOwner THEN NoLease ELSE newOwner.lease
              /\ t.puts = puts /\ t.reads = {s} \cup reads /\ t.dirty = {}
              /\ t.count = IF CounterKey \in reads THEN count + Cardinality(DOMAIN puts) - 1 ELSE 0
              /\ t.kind = kind /\ t.op = op /\ t.fence = fence
BY DEF Txn, TxnShape

\* acquire_and_restore_into
LEMMA AcquireSent ==
    ASSUME KeysOK, NEW c, CallOK(c, recs, now), c.worker \in Worker, NEW t \in AcquireTxns(c)
    PROVE  TxnOK(t, recs, count, now, runEnded)
<1> DEFINE s == c.shard
           r == recs[s]
           d == Deadline(c.now)
           q == [r EXCEPT !.fence = r.fence + 1, !.owner = c.worker, !.deadline = d]
           puts == [x \in {s} |-> q]
<1>1. /\ r.status = "Active" /\ ~OwnerIsLiveAt(s, c.now) /\ r.fence < MaxFence
      /\ \E l \in EtcdLease \ UsedLeases :
           t = Txn(s, owner[s], [worker |-> c.worker, fence |-> r.fence + 1, lease |-> l],
                   puts, {}, "Acquire", c.op, r.fence + 1)
  BY DEF AcquireTxns
<1>2. PICK l \in EtcdLease :
         t = Txn(s, owner[s], [worker |-> c.worker, fence |-> r.fence + 1, lease |-> l],
                 puts, {}, "Acquire", c.op, r.fence + 1)
  BY <1>1
<1> DEFINE o == [worker |-> c.worker, fence |-> r.fence + 1, lease |-> l]
<1>3. s \in DOMAIN recs /\ r \in Shard /\ r.fence \in Fence /\ r.deadline \in Int
  <2>1. s \in DOMAIN recs /\ r \in Shard
    BY DEF KeysOK, CallOK, ShardOK
  <2> QED BY <2>1, BoundsAssumption DEF Shard
<1>4. o \in OwnerKey /\ o # NoOwner
  <2>1. r.fence + 1 \in Fence
    BY <1>1, <1>3, BoundsAssumption DEF Fence
  <2>2. o \in OwnerKey
    BY <2>1 DEF OwnerKey
  <2> QED BY <2>2, EtcdAssumption
<1>5. d \in 0..MaxTime
  BY DeadlineType DEF CallOK
<1> HIDE DEF q
<1>6. /\ TxnShape(t) /\ t.shard = s /\ t.ownerIs = owner[s] /\ t.newOwner = o
      /\ t.attach = l /\ t.puts = puts /\ t.reads = {s} /\ t.dirty = {}
      /\ t.kind = "Acquire" /\ t.fence = r.fence + 1
  <2> HIDE DEF puts
  <2>1. /\ TxnShape(t) /\ t.shard = s /\ t.ownerIs = owner[s] /\ t.newOwner = o
        /\ t.attach = IF o = NoOwner THEN NoLease ELSE o.lease
        /\ t.puts = puts /\ t.reads = {s} \cup {} /\ t.dirty = {}
        /\ t.kind = "Acquire" /\ t.fence = r.fence + 1
    <3> HIDE DEF o
    <3> QED BY <1>2, SentFields DEF o
  <2> QED BY <1>4, <2>1
<1>7. o.fence = r.fence + 1 /\ o.lease = l /\ o.worker = c.worker
  OBVIOUS
<1>8. t.ownerIs # NoOwner => r.deadline <= now
  <2>1. owner[s] # NoOwner => ~(c.now < r.deadline)
    BY <1>1 DEF OwnerIsLiveAt
  <2>2. c.now \in Int /\ now \in Int /\ c.now <= now
    BY BoundsAssumption DEF CallOK, KeysOK, Time
  <2> QED BY <1>3, <1>6, <2>1, <2>2
<1> HIDE DEF o, d
<1>9. t.puts = [x \in {t.shard} |-> [recs[t.shard] EXCEPT !.fence = recs[t.shard].fence + 1,
                                       !.owner = t.newOwner.worker, !.deadline = d]]
  BY <1>6, <1>7 DEF q
<1>10. AcquireCurrent(t, recs, now)
  BY <1>1, <1>4, <1>5, <1>6, <1>7, <1>8, <1>9 DEF AcquireCurrent
<1> QED BY <1>3, <1>6, <1>10 DEF TxnOK

\* A lease the record and the owner key both accept.
LEMMA LoadedLease ==
    ASSUME KeysOK, NEW c, CallOK(c, recs, now), ValidLoadedLease(c)
    PROVE  /\ c.shard \in DOMAIN recs /\ recs[c.shard] \in Shard
           /\ recs[c.shard].status = "Active" /\ recs[c.shard].owner # NoWorker
           /\ recs[c.shard].owner = c.worker /\ recs[c.shard].fence = c.fence
<1>1. c.shard \in DOMAIN recs /\ recs[c.shard] \in Shard
  BY DEF KeysOK, CallOK, ShardOK
<1>2. ValidLease(recs[c.shard], [owner |-> c.worker, fence |-> c.fence], c.now)
  BY DEF ValidLoadedLease
<1>3. recs[c.shard].status \in Status
  BY <1>1 DEF Shard
<1> QED BY <1>1, <1>2, <1>3 DEF ValidLease, IsTerminal, Status

\* renew
LEMMA RenewSent ==
    ASSUME KeysOK, NEW c, CallOK(c, recs, now), NEW t \in RenewTxns(c)
    PROVE  TxnOK(t, recs, count, now, runEnded)
<1> DEFINE s == c.shard
           r == recs[s]
           d == Deadline(c.now)
           q == [r EXCEPT !.owner = c.worker, !.deadline = d]
           puts == [x \in {s} |-> q]
<1>1. /\ ValidLoadedLease(c)
      /\ t = Txn(s, owner[s], NoOwner, puts, {}, "Renew", c.op, c.fence)
  BY DEF RenewTxns
<1>2. s \in DOMAIN recs /\ r \in Shard /\ r.status = "Active" /\ r.owner = c.worker
  BY <1>1, LoadedLease
<1>3. d \in 0..MaxTime
  BY DeadlineType DEF CallOK
<1>4. q = [r EXCEPT !.deadline = d]
  BY <1>2, <1>3, ShardFields
<1> HIDE DEF q, d
<1>5. /\ TxnShape(t) /\ t.shard = s /\ t.newOwner = NoOwner /\ t.attach = NoLease
      /\ t.puts = puts /\ t.reads = {s} /\ t.dirty = {} /\ t.kind = "Renew"
  <2> HIDE DEF puts
  <2>1. /\ TxnShape(t) /\ t.shard = s /\ t.newOwner = NoOwner
        /\ t.attach = IF NoOwner = NoOwner THEN NoLease ELSE NoOwner.lease
        /\ t.puts = puts /\ t.reads = {s} \cup {} /\ t.dirty = {} /\ t.kind = "Renew"
    BY <1>1, SentFields
  <2> QED BY <2>1
<1>6. RenewCurrent(t, recs)
  BY <1>2, <1>3, <1>4, <1>5 DEF RenewCurrent
<1> QED BY <1>2, <1>5, <1>6 DEF TxnOK

\* unpark_shard
LEMMA UnparkSent ==
    ASSUME KeysOK, NEW c, CallOK(c, recs, now), c.op \in OpId, c.req = <<"Unpark", c.shard>>,
           NEW t \in UnparkTxns(c)
    PROVE  TxnOK(t, recs, count, now, runEnded)
<1> DEFINE s == c.shard
           r == recs[s]
           puts == [x \in {s} |-> AfterUnpark(s, r, c.op)]
<1>1. /\ ~runEnded /\ CheckOpIdempotency(r, c.op, c.req) = "Fresh"
      /\ r.status = "Parked" /\ r.fence < MaxFence
      /\ t = Txn(s, NoOwner, NoOwner, puts, {RunKey}, "Unpark", c.op, r.fence)
  BY DEF UnparkTxns
<1>2. s \in DOMAIN recs
  BY DEF CallOK
<1>3. /\ TxnShape(t) /\ t.shard = s /\ t.newOwner = NoOwner /\ t.attach = NoLease
      /\ t.ownerIs = NoOwner /\ t.op = c.op /\ t.fence = r.fence
      /\ t.puts = puts /\ t.reads = {s, RunKey} /\ t.dirty = {} /\ t.kind = "Unpark"
  <2> HIDE DEF puts
  <2>1. /\ TxnShape(t) /\ t.shard = s /\ t.newOwner = NoOwner
        /\ t.attach = IF NoOwner = NoOwner THEN NoLease ELSE NoOwner.lease
        /\ t.ownerIs = NoOwner /\ t.op = c.op /\ t.fence = r.fence
        /\ t.puts = puts /\ t.reads = {s} \cup {RunKey} /\ t.dirty = {} /\ t.kind = "Unpark"
    BY <1>1, SentFields
  <2> QED BY <2>1
<1>4. UnparkCurrent(t, recs, runEnded)
  BY <1>1, <1>3 DEF UnparkCurrent
<1> QED BY <1>2, <1>3, <1>4 DEF TxnOK

\* The operations of a lease holder.
LEMMA LeaseOpSent ==
    ASSUME KeysOK, NEW c, CallOK(c, recs, now), c.op \in OpId, c.req \in LeaseRequests,
           NEW others, others = IF c.req[1] \in {"SplitReplace", "SplitResidual"}
                                  THEN {CounterKey} ELSE {},
           NEW t \in LeaseOpTxns(c, others)
    PROVE  TxnOK(t, recs, count, now, runEnded)
<1> DEFINE s == c.shard
           r == recs[s]
           puts == Puts(s, r, c.op, c.req)
           splits == t.kind \in {"SplitReplace", "SplitResidual"}
<1>1. /\ IsFresh(s, r, c.op, c.req) /\ ValidLoadedLease(c)
      /\ Permitted(r, c.req, count) /\ DistinctIds(s, r, c.op, c.req)
      /\ t = Txn(s, owner[s], NoOwner, puts, others, c.req[1], c.op, c.fence)
  BY DEF LeaseOpTxns
<1>2. /\ s \in DOMAIN recs /\ r.status = "Active" /\ r.owner # NoWorker /\ r.fence = c.fence
  BY <1>1, LoadedLease
<1> HIDE DEF puts
<1>3. /\ TxnShape(t) /\ t.shard = s /\ t.newOwner = NoOwner
      /\ t.attach = IF NoOwner = NoOwner THEN NoLease ELSE NoOwner.lease
      /\ t.puts = puts /\ t.reads = {s} \cup others /\ t.dirty = {}
      /\ t.count = IF CounterKey \in others THEN count + Cardinality(DOMAIN puts) - 1 ELSE 0
      /\ t.kind = c.req[1] /\ t.op = c.op /\ t.fence = c.fence
  BY <1>1, SentFields
<1>4. /\ t.reads = IF splits THEN {s, CounterKey} ELSE {s}
      /\ splits => t.count = count + Cardinality(DOMAIN t.puts) - 1
      /\ t.attach = NoLease
  BY <1>3
<1>5. /\ t.kind = c.req[1]
      /\ IsFresh(t.shard, recs[t.shard], t.op, c.req)
      /\ Permitted(recs[t.shard], c.req, count)
      /\ DistinctIds(t.shard, recs[t.shard], t.op, c.req)
      /\ t.puts = Puts(t.shard, recs[t.shard], t.op, c.req)
  BY <1>1, <1>3 DEF puts
<1>6. LeaseOpCurrent(t, recs, count)
  BY <1>2, <1>3, <1>4, <1>5 DEF LeaseOpCurrent
<1> QED BY <1>2, <1>3, <1>6 DEF TxnOK

\* Any attempt.
LEMMA AttemptSent ==
    ASSUME KeysOK, NEW c, CallOK(c, recs, now), NEW t \in AttemptTxns(c)
    PROVE  TxnOK(t, recs, count, now, runEnded)
<1>1. CASE c.req[1] = "Acquire" /\ c.worker \in Worker
  <2>1. t \in AcquireTxns(c)
    BY <1>1 DEF AttemptTxns
  <2> QED BY <1>1, <2>1, AcquireSent
<1>2. CASE c.req[1] = "Renew"
  <2>1. t \in RenewTxns(c)
    BY <1>2 DEF AttemptTxns
  <2> QED BY <2>1, RenewSent
<1>3. CASE c.req = <<"Unpark", c.shard>> /\ c.op \in OpId
  <2>1. c.req[1] = "Unpark"
    BY <1>3
  <2>2. t \in UnparkTxns(c)
    BY <2>1 DEF AttemptTxns
  <2> QED BY <1>3, <2>2, UnparkSent
<1>4. CASE c.req \in LeaseRequests /\ c.op \in OpId
  <2> DEFINE others == IF c.req[1] \in {"SplitReplace", "SplitResidual"} THEN {CounterKey} ELSE {}
  <2>1. c.req[1] \in {"Checkpoint", "Complete", "Park", "SplitReplace", "SplitResidual"}
    BY <1>4, RequestKinds
  <2>2. AttemptTxns(c) = LeaseOpTxns(c, others)
    <3>1. CASE c.req[1] = "Checkpoint"
      BY <3>1 DEF AttemptTxns, CheckpointTxns
    <3>2. CASE c.req[1] \in {"Complete", "Park"}
      BY <3>2 DEF AttemptTxns, TerminalTxns
    <3>3. CASE c.req[1] = "SplitReplace"
      BY <3>3 DEF AttemptTxns, SplitReplaceTxns
    <3>4. CASE c.req[1] = "SplitResidual"
      BY <3>4 DEF AttemptTxns, SplitResidualTxns
    <3> QED BY <2>1, <3>1, <3>2, <3>3, <3>4
  <2>3. t \in LeaseOpTxns(c, others)
    BY <2>2
  <2> HIDE DEF others
  <2>4. others = IF c.req[1] \in {"SplitReplace", "SplitResidual"} THEN {CounterKey} ELSE {}
    BY DEF others
  <2> QED BY <1>4, <2>3, <2>4, LeaseOpSent
<1> QED BY <1>1, <1>2, <1>3, <1>4 DEF CallOK

-----------------------------------------------------------------------------
(* Each action preserves the invariant                                     *)

\* Steps that write no record, counter or run leave every transaction as it is.
LEMMA QuietFrame ==
    ASSUME KeysOK, UNCHANGED <<recs, count, runEnded>>, now' \in Time, now <= now'
    PROVE  Frame({})
<1>1. \A x \in DOMAIN recs : recs[x].deadline \in Int
  BY BoundsAssumption DEF KeysOK, ShardOK, Shard
<1> QED BY <1>1 DEF KeysOK, Frame

\* One client's call is replaced.
LEMMA CallReplaced ==
    ASSUME CallsOK, Frame({}), NEW c \in Client, NEW k, calls' = [calls EXCEPT ![c] = k],
           k # Idle => CallOK(k, recs', now'),
           k # Idle /\ k.txn # Idle => TxnOK(k.txn, recs', count', now', runEnded')
    PROVE  CallsKept
<1>1. calls = [d \in Client |-> calls[d]]
  BY DEF CallsOK
<1>2. calls' = [d \in Client |-> calls'[d]] /\ calls'[c] = k
      /\ \A d \in Client \ {c} : calls'[d] = calls[d]
  BY <1>1
<1>3. \A d \in Client : calls[d] # Idle => CallOK(calls[d], recs', now')
  BY FrameCall DEF CallsOK
<1>4. \A d \in Client : calls[d] # Idle /\ calls[d].txn # Idle =>
          TxnOK(calls[d].txn, recs', count', now', runEnded')
  BY FrameSame DEF CallsOK
<1> QED BY <1>2, <1>3, <1>4 DEF CallsKept

\* No client's call changes.
LEMMA CallsUnchanged ==
    ASSUME CallsOK, Frame({}), calls' = calls
    PROVE  CallsKept
<1>1. \A d \in Client : calls[d] # Idle => CallOK(calls[d], recs', now')
  BY FrameCall DEF CallsOK
<1>2. \A d \in Client : calls[d] # Idle /\ calls[d].txn # Idle =>
          TxnOK(calls[d].txn, recs', count', now', runEnded')
  BY FrameSame DEF CallsOK
<1> QED BY <1>1, <1>2 DEF CallsKept, CallsOK

\* What the workers were told stays true while epochs only grow.
LEMMA KnownKept ==
    ASSUME EtcdInv, KeysOK', DOMAIN recs \subseteq DOMAIN recs',
           \A x \in DOMAIN recs : recs[x].fence <= recs'[x].fence, known' = known
    PROVE  EpochsNotShared' /\ \A g \in known' : g.shard \in DOMAIN recs' /\ g.fence \in Int
<1>1. \A x \in DOMAIN recs : recs[x].fence \in Int /\ recs'[x].fence \in Int
  BY DEF EtcdInv, KeysOK, ShardOK, Shard, Fence
<1>2. \A g \in known : g.shard \in DOMAIN recs /\ g.fence \in Int /\ g.fence <= recs[g.shard].fence
  BY DEF EtcdInv, CallsOK, OwnersSound, EpochsNotShared
<1>3. \A g \in known : g.fence <= recs'[g.shard].fence
  BY <1>1, <1>2
<1> QED BY <1>2, <1>3 DEF EtcdInv, OwnersSound, EpochsNotShared

\* The parts of the invariant put together.
LEMMA InvPut ==
    ASSUME KeysOK', OwnerKeyConsistent', DerivedKeysExact', CallsKept,
           \A t \in lost' : TxnOK(t, recs', count', now', runEnded'),
           EpochsNotShared', \A g \in known' : g.shard \in DOMAIN recs' /\ g.fence \in Int
    PROVE  EtcdInv'
BY DEF EtcdInv, CallsOK, CallsKept, OwnersSound, DerivedKeysExact

\* A step that touches neither records, counter, run nor what is known, and
\* lets etcd leases begin or end.
LEMMA QuietStep ==
    ASSUME EtcdInv, UNCHANGED <<recs, count, runEnded, known, index>>, now' \in Time, now <= now',
           \/ owner' = owner /\ leases \subseteq leases'
           \/ \E gone : LeasesEnd(gone),
           CallsKept, \A t \in lost' : TxnOK(t, recs', count', now', runEnded')
    PROVE  EtcdInv'
<1>1. KeysOK /\ OwnerKeyConsistent /\ IndexExact /\ CounterExact
  BY DEF EtcdInv, OwnersSound, DerivedKeysExact
<1>2. /\ owner' = [s \in DOMAIN recs |-> owner'[s]]
      /\ \A s \in DOMAIN recs : owner'[s] # NoOwner => owner'[s] = owner[s] /\ owner[s].lease \in leases'
  <2>1. CASE owner' = owner /\ leases \subseteq leases'
    BY <1>1, <2>1 DEF KeysOK, OwnerKeyConsistent
  <2>2. ASSUME NEW gone, LeasesEnd(gone)
        PROVE  /\ owner' = [s \in DOMAIN recs |-> owner'[s]]
               /\ \A s \in DOMAIN recs : owner'[s] # NoOwner =>
                     owner'[s] = owner[s] /\ owner[s].lease \in leases'
    <3>1. /\ leases' = leases \ gone /\ DOMAIN owner = DOMAIN recs
          /\ owner' = [x \in DOMAIN owner |->
                IF owner[x] # NoOwner /\ owner[x].lease \in gone THEN NoOwner ELSE owner[x]]
      BY <1>1, <2>2 DEF LeasesEnd, KeysOK
    <3>2. \A s \in DOMAIN recs : owner[s] # NoOwner => owner[s].lease \in leases
      BY <1>1 DEF OwnerKeyConsistent
    <3> QED BY <3>1, <3>2
  <2> QED BY <2>1, <2>2
<1>3. KeysOK'
  BY <1>1, <1>2 DEF KeysOK
<1>4. OwnerKeyConsistent'
  BY <1>1, <1>2 DEF OwnerKeyConsistent
<1>5. DerivedKeysExact'
  BY <1>1 DEF DerivedKeysExact, IndexExact, CounterExact
<1>6. \A x \in DOMAIN recs : recs[x].fence <= recs'[x].fence
  BY <1>1 DEF KeysOK, ShardOK, Shard, Fence
<1>7. EpochsNotShared' /\ \A g \in known' : g.shard \in DOMAIN recs' /\ g.fence \in Int
  BY <1>3, <1>6, KnownKept
<1> QED BY <1>3, <1>4, <1>5, <1>7, InvPut

\* Tick
LEMMA TickInv == EtcdInv /\ Tick => EtcdInv'
<1> SUFFICES ASSUME EtcdInv, Tick PROVE EtcdInv'
  OBVIOUS
<1>1. KeysOK /\ CallsOK /\ now' \in Time /\ now <= now'
  BY BoundsAssumption DEF EtcdInv, KeysOK, Tick, Time
<1>2. /\ UNCHANGED <<recs, count, runEnded, known, index, owner, calls, lost>>
      /\ leases \subseteq leases'
  BY DEF Tick, etcd
<1>3. Frame({})
  BY <1>1, <1>2, QuietFrame
<1>4. CallsKept
  BY <1>1, <1>2, <1>3, CallsUnchanged
<1>5. \A t \in lost' : TxnOK(t, recs', count', now', runEnded')
  BY <1>1, <1>2, <1>3, FrameSame DEF CallsOK
<1> QED BY <1>1, <1>2, <1>4, <1>5, QuietStep

\* The time is one, and does not go back, where it is unchanged.
LEMMA SameTime == KeysOK /\ now' = now => now' \in Time /\ now <= now'
BY BoundsAssumption DEF KeysOK, Time

\* Drop and Expire
LEMMA DropInv == ASSUME EtcdInv, NEW t, Drop(t) PROVE EtcdInv'
<1>1. KeysOK /\ CallsOK /\ now' \in Time /\ now <= now'
  BY SameTime DEF EtcdInv, Drop
<1>2. /\ UNCHANGED <<recs, count, runEnded, known, index, owner, calls>>
      /\ leases \subseteq leases' /\ lost' \subseteq lost
  BY DEF Drop, etcd
<1>3. Frame({})
  BY <1>1, <1>2, QuietFrame
<1>4. CallsKept
  BY <1>1, <1>2, <1>3, CallsUnchanged
<1>5. \A u \in lost' : TxnOK(u, recs', count', now', runEnded')
  BY <1>1, <1>2, <1>3, FrameSame DEF CallsOK
<1> QED BY <1>1, <1>2, <1>4, <1>5, QuietStep

\* The end of an etcd lease takes its owner keys with it.
LEMMA ExpireInv == ASSUME EtcdInv, NEW l, Expire(l) PROVE EtcdInv'
<1>1. KeysOK /\ CallsOK /\ now' \in Time /\ now <= now'
  BY SameTime DEF EtcdInv, Expire
<1>2. /\ UNCHANGED <<recs, count, runEnded, known, index, calls, lost>>
      /\ LeasesEnd({l})
  BY DEF Expire, LeasesEnd
<1>3. Frame({})
  BY <1>1, <1>2, QuietFrame
<1>4. CallsKept
  BY <1>1, <1>2, <1>3, CallsUnchanged
<1>5. \A u \in lost' : TxnOK(u, recs', count', now', runEnded')
  BY <1>1, <1>2, <1>3, FrameSame DEF CallsOK
<1> QED BY <1>1, <1>2, <1>4, <1>5, QuietStep

\* EndRun leaves no clean transaction that has read the run.
LEMMA EndRunInv == ASSUME EtcdInv, EndRun PROVE EtcdInv'
<1>1. KeysOK /\ CallsOK /\ now' \in Time /\ now <= now'
  BY SameTime DEF EtcdInv, EndRun
<1>2. /\ UNCHANGED <<recs, count, known, index, owner, leases>>
      /\ runEnded' = TRUE /\ OthersSee(Idle, {RunKey}) /\ lost' = LostAfter(lost, {RunKey})
  BY DEF EndRun, etcd
<1>3. Frame({RunKey})
  <2>1. \A x \in DOMAIN recs : recs[x].deadline \in Int
    BY <1>1, BoundsAssumption DEF KeysOK, ShardOK, Shard
  <2> QED BY <1>1, <1>2, <2>1 DEF KeysOK, Frame
<1>4. CallsKept
  BY <1>1, <1>2, <1>3, OthersKept
<1>5. \A u \in lost' : TxnOK(u, recs', count', now', runEnded')
  BY <1>1, <1>2, <1>3, LostKept DEF CallsOK
<1>6. KeysOK'
  BY <1>1, <1>2 DEF KeysOK
<1>7. OwnerKeyConsistent' /\ DerivedKeysExact'
  BY <1>2 DEF EtcdInv, OwnersSound, DerivedKeysExact, OwnerKeyConsistent, IndexExact, CounterExact
<1>8. \A x \in DOMAIN recs : recs[x].fence <= recs'[x].fence
  BY <1>1, <1>2 DEF KeysOK, ShardOK, Shard, Fence
<1>9. EpochsNotShared' /\ \A g \in known' : g.shard \in DOMAIN recs' /\ g.fence \in Int
  BY <1>2, <1>6, <1>8, KnownKept
<1> QED BY <1>4, <1>5, <1>6, <1>7, <1>9, InvPut

\* An attempt reads, decides and sends.
LEMMA AttemptInv ==
    ASSUME EtcdInv, NEW c \in Client, NEW call, CallOK(call, recs, now), Attempt(c, call)
    PROVE  EtcdInv'
<1>1. KeysOK /\ CallsOK /\ now' \in Time /\ now <= now'
  BY SameTime DEF EtcdInv, Attempt
<1>2. UNCHANGED <<recs, count, runEnded, known, index, owner, lost>>
  BY DEF Attempt
<1>3. PICK t \in AttemptTxns(call) :
         /\ calls' = [calls EXCEPT ![c] = [call EXCEPT !.txn = t]]
         /\ leases' = leases \cup ({t.attach} \ {NoLease})
  BY DEF Attempt
<1>4. Frame({})
  BY <1>1, <1>2, QuietFrame
<1>5. TxnOK(t, recs', count', now', runEnded')
  BY <1>1, <1>4, AttemptSent, FrameSame
<1>6. CallOK(call, recs', now')
  BY <1>4, FrameCall
<1>7. CallOK([call EXCEPT !.txn = t], recs', now') /\ [call EXCEPT !.txn = t].txn = t
  BY <1>6, CallUpdated
<1>8. CallsKept
  <2> DEFINE k == [call EXCEPT !.txn = t]
  <2>1. /\ calls' = [calls EXCEPT ![c] = k] /\ CallOK(k, recs', now')
        /\ TxnOK(k.txn, recs', count', now', runEnded')
    BY <1>3, <1>5, <1>7
  <2> HIDE DEF k
  <2> QED BY <1>1, <1>4, <2>1, CallReplaced
<1>9. \A u \in lost' : TxnOK(u, recs', count', now', runEnded')
  BY <1>1, <1>2, <1>4, FrameSame DEF CallsOK
<1> QED BY <1>1, <1>2, <1>3, <1>8, <1>9, QuietStep

\* Start, for what EtcdNext lets a client ask.
LEMMA StartInv ==
    ASSUME EtcdInv, NEW c \in Client, NEW req, NEW s \in DOMAIN recs, NEW worker, NEW fence, NEW op,
           Start(c, req, s, worker, fence, op),
           \/ req[1] = "Acquire" /\ worker \in Worker
           \/ req[1] = "Renew"
           \/ req = <<"Unpark", s>> /\ op \in OpId
           \/ req \in LeaseRequests /\ op \in OpId
    PROVE  EtcdInv'
<1> DEFINE call == [req |-> req, shard |-> s, worker |-> worker, fence |-> fence, op |-> op,
                    now |-> now, tries |-> 1, txn |-> Idle]
<1>1. now \in Time /\ now <= now
  BY BoundsAssumption DEF EtcdInv, KeysOK, Time
<1>2. /\ call.req = req /\ call.shard = s /\ call.worker = worker /\ call.fence = fence
      /\ call.op = op /\ call.now = now /\ call.tries = 1 /\ call.txn = Idle
  OBVIOUS
<1>3. call = [req |-> call.req, shard |-> call.shard, worker |-> call.worker, fence |-> call.fence,
              op |-> call.op, now |-> call.now, tries |-> call.tries, txn |-> call.txn]
  OBVIOUS
<1>4. Attempt(c, call)
  BY DEF Start
<1> HIDE DEF call
<1>5. CallOK(call, recs, now)
  BY <1>1, <1>2, <1>3 DEF CallOK
<1> QED BY <1>4, <1>5, AttemptInv

\* Retry
LEMMA RetryInv == ASSUME EtcdInv, NEW c \in Client, Retry(c) PROVE EtcdInv'
<1>1. KeysOK /\ CallsOK /\ calls[c] # Idle /\ CallOK(calls[c], recs, now)
  BY DEF EtcdInv, CallsOK, Retry
<1>2. CASE Attempt(c, calls[c])
  BY <1>1, <1>2, AttemptInv
<1>3. CASE /\ calls' = [calls EXCEPT ![c] = Idle]
           /\ UNCHANGED <<now, etcd, runEnded, lost, known>>
  <2>1. UNCHANGED <<recs, count, runEnded, known, index, owner, lost>> /\ leases \subseteq leases'
    BY <1>3 DEF etcd
  <2>2. now' \in Time /\ now <= now'
    BY <1>1, <1>3, SameTime
  <2>3. Frame({})
    BY <1>1, <2>1, <2>2, QuietFrame
  <2>4. CallsKept
    <3>1. calls' = [calls EXCEPT ![c] = Idle]
      BY <1>3
    <3> QED BY <1>1, <2>3, <3>1, CallReplaced
  <2>5. \A u \in lost' : TxnOK(u, recs', count', now', runEnded')
    BY <1>1, <2>1, <2>3, FrameSame DEF CallsOK
  <2> QED BY <2>1, <2>2, <2>4, <2>5, QuietStep
<1> QED BY <1>2, <1>3 DEF Retry

\* Conflict
LEMMA ConflictInv == ASSUME EtcdInv, NEW c \in Client, Conflict(c) PROVE EtcdInv'
<1> DEFINE k == [calls[c] EXCEPT !.tries = calls[c].tries + 1, !.txn = Idle]
<1>1. KeysOK /\ CallsOK /\ calls[c] # Idle /\ CallOK(calls[c], recs, now)
  BY DEF EtcdInv, CallsOK, Conflict
<1>2. PICK gone : LeasesEnd(gone)
  BY DEF Conflict
<1>3. UNCHANGED <<recs, count, runEnded, known, index, lost, now>>
  BY <1>2 DEF Conflict, LeasesEnd
<1>4. now' \in Time /\ now <= now'
  BY <1>1, <1>3, SameTime
<1>5. Frame({})
  BY <1>1, <1>3, <1>4, QuietFrame
<1>6. calls' = [calls EXCEPT ![c] = IF calls[c].tries < Retries THEN k ELSE Idle]
  BY DEF Conflict
<1>7. CallOK(k, recs', now') /\ k.txn = Idle
  <2>1. CallOK(calls[c], recs', now')
    BY <1>1, <1>5, FrameCall
  <2> QED BY <2>1, CallUpdated
<1> HIDE DEF k
<1>8. CallsKept
  <2>1. CASE calls[c].tries < Retries
    <3>1. calls' = [calls EXCEPT ![c] = k]
      BY <1>6, <2>1
    <3> QED BY <1>1, <1>5, <1>7, <3>1, CallReplaced
  <2>2. CASE ~(calls[c].tries < Retries)
    <3>1. calls' = [calls EXCEPT ![c] = Idle]
      BY <1>6, <2>2
    <3> QED BY <1>1, <1>5, <3>1, CallReplaced
  <2> QED BY <2>1, <2>2
<1>9. \A u \in lost' : TxnOK(u, recs', count', now', runEnded')
  BY <1>1, <1>3, <1>5, FrameSame DEF CallsOK
<1> QED BY <1>2, <1>3, <1>4, <1>8, <1>9, QuietStep

\* A transaction is applied and nobody is told of an epoch.
LEMMA AppliedInv ==
    ASSUME EtcdInv, NEW t, TxnOK(t, recs, count, now, runEnded), ComparesHold(t), LeaseAlive(t),
           NEW gone, Apply(t, gone), UNCHANGED <<now, runEnded, known>>,
           NEW c, OthersSee(c, WrittenKeys(t)),
           NEW T, T \subseteq lost, lost' = LostAfter(T, WrittenKeys(t))
    PROVE  EtcdInv'
<1>1. UNCHANGED <<now, runEnded>>
  OBVIOUS
<1>2. /\ KeysOK' /\ OwnerKeyConsistent' /\ DerivedKeysExact'
      /\ Frame(WrittenKeys(t))
      /\ \A x \in DOMAIN recs : recs[x].fence <= recs'[x].fence
  BY <1>1, ApplyKeeps
<1>3. CallsKept
  BY <1>2, OthersKept DEF EtcdInv
<1>4. \A u \in lost' : TxnOK(u, recs', count', now', runEnded')
  BY <1>2, LostKept DEF EtcdInv, CallsOK
<1>5. DOMAIN recs \subseteq DOMAIN recs' /\ known' = known
  BY <1>2 DEF Frame
<1>6. EpochsNotShared' /\ \A g \in known' : g.shard \in DOMAIN recs' /\ g.fence \in Int
  BY <1>2, <1>5, KnownKept
<1> QED BY <1>2, <1>3, <1>4, <1>6, InvPut

\* Deliver
LEMMA DeliverInv == ASSUME EtcdInv, NEW t \in lost, Deliver(t) PROVE EtcdInv'
<1>1. TxnOK(t, recs, count, now, runEnded)
  BY DEF EtcdInv, CallsOK
<1>2. /\ ComparesHold(t) /\ LeaseAlive(t) /\ Apply(t, {}) /\ UNCHANGED <<now, runEnded, known>>
      /\ OthersSee(Idle, WrittenKeys(t)) /\ lost' = LostAfter(lost \ {t}, WrittenKeys(t))
  BY DEF Deliver
<1>3. lost \ {t} \subseteq lost
  OBVIOUS
<1> QED BY <1>1, <1>2, <1>3, AppliedInv

\* Fail
LEMMA FailInv == ASSUME EtcdInv, NEW c \in Client, Fail(c) PROVE EtcdInv'
<1> DEFINE t == calls[c].txn
<1>1. KeysOK /\ CallsOK /\ TxnOK(t, recs, count, now, runEnded)
  BY DEF EtcdInv, CallsOK, Fail
<1>2. UNCHANGED <<now, runEnded, known>>
  BY DEF Fail
<1>3. ASSUME NEW gone, ComparesHold(t), LeaseAlive(t), Apply(t, gone),
             OthersSee(c, WrittenKeys(t)), lost' = LostAfter(lost, WrittenKeys(t))
      PROVE  EtcdInv'
  <2>1. lost \subseteq lost
    OBVIOUS
  <2> HIDE DEF t
  <2> QED BY <1>1, <1>2, <1>3, <2>1, AppliedInv
<1>4. ASSUME NEW gone, LeasesEnd(gone), OthersSee(c, {}), lost' = LostAfter(lost \cup {t}, {})
      PROVE  EtcdInv'
  <2>1. UNCHANGED <<recs, count, runEnded, known, index>>
    BY <1>2, <1>4 DEF LeasesEnd
  <2>2. now' \in Time /\ now <= now'
    BY <1>1, <1>2, SameTime
  <2>3. Frame({})
    BY <1>1, <2>1, <2>2, QuietFrame
  <2>4. CallsKept
    BY <1>1, <1>4, <2>3, OthersKept
  <2>5. \A u \in lost \cup {t} : TxnOK(u, recs, count, now, runEnded)
    BY <1>1 DEF CallsOK
  <2>6. \A u \in lost' : TxnOK(u, recs', count', now', runEnded')
    BY <1>4, <2>3, <2>5, LostKept
  <2> QED BY <1>4, <2>1, <2>2, <2>4, <2>6, QuietStep
<1> QED BY <1>3, <1>4 DEF Fail

\* Commit: a committed acquire is told of an epoch nobody was told of before.
LEMMA CommitInv == ASSUME EtcdInv, NEW c \in Client, Commit(c) PROVE EtcdInv'
<1> DEFINE t == calls[c].txn
           g0 == [shard |-> t.shard, owner |-> t.newOwner.worker, fence |-> t.fence]
<1>1. KeysOK /\ CallsOK /\ TxnOK(t, recs, count, now, runEnded)
  BY DEF EtcdInv, CallsOK, Commit
<1>2. /\ ComparesHold(t) /\ LeaseAlive(t) /\ UNCHANGED <<now, runEnded>>
      /\ OthersSee(c, WrittenKeys(t)) /\ lost' = LostAfter(lost, WrittenKeys(t))
      /\ known' = IF t.kind = "Acquire" THEN known \cup {g0} ELSE known
  BY DEF Commit
<1>3. PICK gone : Apply(t, gone)
  BY DEF Commit
<1> HIDE DEF t
<1>4. CASE t.kind # "Acquire"
  <2>1. UNCHANGED <<now, runEnded, known>> /\ lost \subseteq lost
    BY <1>2, <1>4
  <2> QED BY <1>1, <1>2, <1>3, <2>1, AppliedInv
<1>5. CASE t.kind = "Acquire"
  <2>1. /\ KeysOK' /\ OwnerKeyConsistent' /\ DerivedKeysExact'
        /\ Frame(WrittenKeys(t)) /\ Lands(t)
        /\ \A x \in DOMAIN recs : recs[x].fence <= recs'[x].fence
    BY <1>1, <1>2, <1>3, ApplyKeeps
  <2>2. CallsKept
    BY <1>1, <1>2, <2>1, OthersKept
  <2>3. \A u \in lost' : TxnOK(u, recs', count', now', runEnded')
    BY <1>1, <1>2, <2>1, LostKept DEF CallsOK
  <2>4. /\ t.shard \in DOMAIN recs /\ recs[t.shard].fence < t.fence /\ t.shard \in DOMAIN recs'
        /\ recs'[t.shard].fence = t.fence
    <3>1. /\ t.shard \in DOMAIN recs /\ t.shard \in DOMAIN t.puts
          /\ recs[t.shard].fence < t.fence /\ t.puts[t.shard].fence = t.fence
      BY <1>5, <2>1 DEF Lands
    <3>2. recs'[t.shard] = t.puts[t.shard] /\ DOMAIN recs \subseteq DOMAIN recs'
      BY <1>1, <1>2, <1>3, <2>1, <3>1, AppliedRecords
    <3> QED BY <3>1, <3>2
  <2>5. \A x \in DOMAIN recs : recs[x].fence \in Int /\ x \in DOMAIN recs' /\ recs'[x].fence \in Int
    <3>1. \A x \in DOMAIN recs : recs[x] \in Shard /\ x \in DOMAIN recs'
      BY <1>1, <2>1 DEF KeysOK, ShardOK, Frame
    <3>2. \A x \in DOMAIN recs' : recs'[x] \in Shard
      BY <2>1 DEF KeysOK, ShardOK
    <3> QED BY <3>1, <3>2, FenceIsInt
  <2>6. \A g \in known : g.shard \in DOMAIN recs /\ g.fence \in Int /\ g.fence <= recs[g.shard].fence
    BY DEF EtcdInv, CallsOK, OwnersSound, EpochsNotShared
  <2>7. g0.shard = t.shard /\ g0.fence = t.fence /\ known' = known \cup {g0} /\ t.fence \in Int
    BY <1>2, <1>5, <2>4, <2>5
  <2> HIDE DEF g0
  <2>8. \A g \in known : g.shard = t.shard => g.fence < t.fence
    BY <2>4, <2>5, <2>6, <2>7
  <2>9. \A g \in known' : /\ g.shard \in DOMAIN recs' /\ g.fence \in Int
                          /\ g.fence <= recs'[g.shard].fence
    <3>1. \A g \in known : /\ g.shard \in DOMAIN recs' /\ g.fence \in Int
                           /\ g.fence <= recs'[g.shard].fence
      BY <2>1, <2>5, <2>6
    <3> QED BY <2>4, <2>7, <3>1
  <2>10. \A g, h \in known' : g.shard = h.shard /\ g.fence = h.fence => g = h
    <3>1. \A g, h \in known : g.shard = h.shard /\ g.fence = h.fence => g = h
      BY DEF EtcdInv, OwnersSound, EpochsNotShared
    <3>2. \A g \in known : ~(g.shard = g0.shard /\ g.fence = g0.fence)
      BY <2>6, <2>7, <2>8
    <3> QED BY <2>7, <3>1, <3>2
  <2>11. EpochsNotShared'
    BY <2>9, <2>10 DEF EpochsNotShared
  <2> QED BY <2>1, <2>2, <2>3, <2>9, <2>11, InvPut
<1> QED BY <1>4, <1>5

\* The roots of the manifest, unowned and all Active.
LEMMA EtcdInitInv == EtcdInit => EtcdInv
<1> SUFFICES ASSUME EtcdInit PROVE EtcdInv
  OBVIOUS
<1> DEFINE D == DOMAIN Manifest
           new(s) == NewShard(Manifest[s].lo, Manifest[s].hi, Manifest[s].cursor, NoShard)
<1>1. /\ now = 1 /\ recs = [s \in D |-> new(s)] /\ owner = [s \in D |-> NoOwner]
      /\ index = D /\ count = Cardinality(D) /\ runEnded = FALSE
      /\ calls = [c \in Client |-> Idle] /\ lost = {} /\ known = {}
  BY DEF EtcdInit, EtcdInitOf
<1>2. \A s \in D : ShardOK(new(s)) /\ new(s).status = "Active"
  <2> SUFFICES ASSUME NEW s \in D PROVE ShardOK(new(s)) /\ new(s).status = "Active"
    OBVIOUS
  <2>1. Manifest[s].lo \in Bound /\ Manifest[s].hi \in Bound /\ Manifest[s].cursor \in Cursor
    BY EtcdManifestAssumption DEF Child
  <2>2. new(s).status = "Active"
    BY DEF NewShard
  <2> QED BY <2>1, <2>2, NewShardOK
<1> HIDE DEF new
<1>3. KeysOK
  <2>1. D \subseteq ShardId /\ IsFiniteSet(D)
    BY EtcdManifestAssumption
  <2>2. DOMAIN recs = D /\ recs = [s \in D |-> recs[s]] /\ owner = [s \in D |-> owner[s]]
    BY <1>1
  <2>3. \A s \in D : ShardOK(recs[s]) /\ owner[s] = NoOwner
    BY <1>1, <1>2
  <2>4. now \in Time /\ runEnded \in BOOLEAN
    <3>1. now = 1 /\ runEnded = FALSE
      BY <1>1
    <3>2. now \in Time
      BY <3>1, BoundsAssumption DEF Time
    <3> QED BY <3>1, <3>2, Zenon
  <2> HIDE DEF D
  <2> QED BY <2>1, <2>2, <2>3, <2>4 DEF KeysOK
<1>4. CallsOK
  BY <1>1 DEF CallsOK
<1>5. OwnerKeyConsistent /\ IndexExact /\ EpochsNotShared
  BY <1>1, <1>2 DEF OwnerKeyConsistent, IndexExact, EpochsNotShared
<1>6. CounterExact
  BY <1>1, EtcdManifestAssumption DEF CounterExact
<1> QED BY <1>3, <1>4, <1>5, <1>6 DEF EtcdInv, OwnersSound, DerivedKeysExact

\* Every step keeps the invariant.
LEMMA EtcdNextInv == EtcdInv /\ [EtcdNext]_vars => EtcdInv'
<1> SUFFICES ASSUME EtcdInv, [EtcdNext]_vars PROVE EtcdInv'
  OBVIOUS
<1>1. CASE UNCHANGED vars
  <2>1. UNCHANGED <<recs, count, runEnded, known, index, owner, calls, lost, now, leases>>
    BY <1>1 DEF vars
  <2>2. KeysOK' /\ CallsOK'
    BY <2>1 DEF EtcdInv, KeysOK, CallsOK
  <2> QED BY <2>1, <2>2 DEF EtcdInv, OwnersSound, DerivedKeysExact, OwnerKeyConsistent,
                             IndexExact, CounterExact, EpochsNotShared
<1>2. \A g \in known : g.shard \in DOMAIN recs
  BY DEF EtcdInv, CallsOK
<1>3. CASE Tick
  BY <1>3, TickInv
<1>4. CASE EndRun
  BY <1>4, EndRunInv
<1>5. ASSUME NEW l \in leases, Expire(l) PROVE EtcdInv'
  BY <1>5, ExpireInv
<1>6. ASSUME NEW t \in lost, Deliver(t) \/ Drop(t) PROVE EtcdInv'
  BY <1>6, DeliverInv, DropInv
<1>7. ASSUME NEW c \in Client, Retry(c) \/ Commit(c) \/ Conflict(c) \/ Fail(c) PROVE EtcdInv'
  BY <1>7, RetryInv, CommitInv, ConflictInv, FailInv
<1>8. ASSUME NEW c \in Client, NEW s \in DOMAIN recs, NEW w \in Worker,
             Start(c, <<"Acquire">>, s, w, 0, Idle)
      PROVE  EtcdInv'
  <2>1. <<"Acquire">>[1] = "Acquire"
    OBVIOUS
  <2> QED BY <1>8, <2>1, StartInv
<1>9. ASSUME NEW c \in Client, NEW g \in known, Start(c, <<"Renew">>, g.shard, g.owner, g.fence, Idle)
      PROVE  EtcdInv'
  <2>1. <<"Renew">>[1] = "Renew"
    OBVIOUS
  <2> QED BY <1>2, <1>9, <2>1, StartInv
<1>10. ASSUME NEW c \in Client, NEW g \in known, NEW op \in OpId, NEW req \in LeaseRequests,
              Start(c, req, g.shard, g.owner, g.fence, op)
       PROVE  EtcdInv'
  BY <1>2, <1>10, StartInv
<1>11. ASSUME NEW c \in Client, NEW s \in DOMAIN recs, NEW op \in OpId,
              Start(c, <<"Unpark", s>>, s, NoWorker, 0, op)
       PROVE  EtcdInv'
  BY <1>11, StartInv
<1> QED BY <1>1, <1>3, <1>4, <1>5, <1>6, <1>7, <1>8, <1>9, <1>10, <1>11 DEF EtcdNext

\* Whatever clients, conflicts, late transactions and lapsing leases do, the
\* invariant holds.
LEMMA EtcdInvariance == EtcdSpec => []EtcdInv
BY EtcdInitInv, EtcdNextInv, PTL DEF EtcdSpec

\* Whatever was lost, late or expired, every owner key belongs to the holder
\* and the epoch its record names, the claim index names the Active shards, and
\* no epoch was given to two workers (acquire_and_restore_into, renew,
\* park_shard, unpark_shard).
THEOREM EtcdOwnersSound == EtcdSpec => []OwnersSound
<1>1. EtcdInv => OwnersSound
  BY DEF EtcdInv
<1> QED BY EtcdInvariance, <1>1, PTL

\* The claim index and the tenant's shard counter are exact after every
\* transaction of concurrent splits, and the limit on shards is kept
\* (split_replace, split_residual, prepare_tenant_shard_count_mutation).
THEOREM EtcdKeysExact == EtcdSpec => []DerivedKeysExact
<1>1. EtcdInv => DerivedKeysExact
  BY DEF EtcdInv
<1> QED BY EtcdInvariance, <1>1, PTL

-----------------------------------------------------------------------------
(* What a step may do to the records                                       *)

\* A step leaves records and effects alone, or applies one clean transaction.
Applied(t) ==
    /\ TxnOK(t, recs, count, now, runEnded) /\ ComparesHold(t) /\ LeaseAlive(t)
    /\ \E gone : Apply(t, gone)
    /\ UNCHANGED <<now, runEnded>>

\* The steps that apply one are Commit, Fail and Deliver.
LEMMA EtcdSteps ==
    ASSUME EtcdInv, [EtcdNext]_vars
    PROVE  UNCHANGED <<recs, history>> \/ \E t : Applied(t)
<1>1. CASE UNCHANGED vars \/ Tick \/ EndRun
  BY <1>1 DEF vars, Tick, EndRun, etcd
<1>2. ASSUME NEW l \in leases, Expire(l) PROVE UNCHANGED <<recs, history>>
  BY <1>2 DEF Expire, LeasesEnd
<1>3. ASSUME NEW t \in lost, Deliver(t) \/ Drop(t)
      PROVE  UNCHANGED <<recs, history>> \/ \E u : Applied(u)
  <2>1. CASE Drop(t)
    BY <2>1 DEF Drop, etcd
  <2>2. CASE Deliver(t)
    <3>1. TxnOK(t, recs, count, now, runEnded)
      BY DEF EtcdInv, CallsOK
    <3>2. Applied(t)
      BY <2>2, <3>1 DEF Deliver, Applied
    <3> QED BY <3>2
  <2> QED BY <1>3, <2>1, <2>2
<1>4. ASSUME NEW c, NEW call, Attempt(c, call) PROVE UNCHANGED <<recs, history>>
  BY <1>4 DEF Attempt
<1>5. ASSUME NEW c \in Client, Retry(c) PROVE UNCHANGED <<recs, history>>
  BY <1>4, <1>5 DEF Retry, etcd
<1>6. ASSUME NEW c \in Client, Conflict(c) PROVE UNCHANGED <<recs, history>>
  BY <1>6 DEF Conflict, LeasesEnd
<1>7. ASSUME NEW c \in Client, Commit(c) PROVE \E u : Applied(u)
  <2>1. TxnOK(calls[c].txn, recs, count, now, runEnded)
    BY <1>7 DEF EtcdInv, CallsOK, Commit
  <2>2. Applied(calls[c].txn)
    BY <1>7, <2>1 DEF Commit, Applied
  <2> QED BY <2>2
<1>8. ASSUME NEW c \in Client, Fail(c) PROVE UNCHANGED <<recs, history>> \/ \E u : Applied(u)
  <2>1. TxnOK(calls[c].txn, recs, count, now, runEnded)
    BY <1>8 DEF EtcdInv, CallsOK, Fail
  <2>2. Applied(calls[c].txn) \/ \E gone : LeasesEnd(gone)
    BY <1>8, <2>1 DEF Fail, Applied
  <2> QED BY <2>2 DEF LeasesEnd
<1>9. ASSUME NEW c, NEW req, NEW s, NEW w, NEW f, NEW op, Start(c, req, s, w, f, op)
      PROVE  UNCHANGED <<recs, history>>
  BY <1>4, <1>9 DEF Start
<1> QED BY <1>1, <1>2, <1>3, <1>5, <1>6, <1>7, <1>8, <1>9 DEF EtcdNext

\* What is known of an applied transaction and the records it leaves.
LEMMA AppliedLands ==
    ASSUME EtcdInv, NEW t, Applied(t)
    PROVE  /\ Lands(t) /\ owner[t.shard] = t.ownerIs
           /\ recs'[t.shard] = t.puts[t.shard]
           /\ \A x \in DOMAIN recs \ {t.shard} : recs'[x] = recs[x]
<1>1. PICK gone : Apply(t, gone)
  BY DEF Applied
<1>2. Lands(t)
  BY <1>1, ApplyKeeps DEF Applied
<1>3. KeysOK /\ ComparesHold(t) /\ t.shard \in DOMAIN t.puts
  BY <1>2 DEF EtcdInv, Applied, Lands
<1>4. /\ \A x \in DOMAIN t.puts : recs'[x] = t.puts[x]
      /\ \A x \in DOMAIN recs \ {t.shard} : recs'[x] = recs[x] /\ x \notin DOMAIN t.puts
  BY <1>1, <1>2, <1>3, AppliedRecords
<1> QED BY <1>2, <1>3, <1>4 DEF ComparesHold

\* The step of LiveOwnerKept and that of EndedRunStaysShut.
LiveOwnerStep == \A s \in DOMAIN recs : OwnerIsLiveAt(s, now) => recs'[s].fence = recs[s].fence
ShutStep == runEnded => \A s \in DOMAIN recs :
                recs[s].status = "Parked" => recs'[s].status = "Parked"

\* Every step is both.
LEMMA EtcdNextKeeps == EtcdInv /\ [EtcdNext]_vars => [LiveOwnerStep]_vars /\ [ShutStep]_vars
<1> SUFFICES ASSUME EtcdInv, [EtcdNext]_vars PROVE LiveOwnerStep /\ ShutStep
  OBVIOUS
<1>1. CASE UNCHANGED <<recs, history>>
  BY <1>1 DEF LiveOwnerStep, ShutStep
<1>2. ASSUME NEW t, Applied(t) PROVE LiveOwnerStep /\ ShutStep
  <2> DEFINE s == t.shard
  <2>1. /\ Lands(t) /\ owner[s] = t.ownerIs /\ recs'[s] = t.puts[s]
        /\ \A x \in DOMAIN recs \ {s} : recs'[x] = recs[x]
    BY <1>2, AppliedLands
  <2>2. /\ t.kind = "Acquire" /\ t.ownerIs # NoOwner => recs[s].deadline <= now
        /\ t.kind = "Unpark" => t.ownerIs = NoOwner /\ ~runEnded
        /\ t.kind # "Unpark" => recs[s].status = "Active"
        /\ t.kind \notin {"Acquire", "Unpark"} => t.puts[s].fence = recs[s].fence
        /\ s \in DOMAIN recs
    BY <2>1 DEF Lands
  <2>3. now \in Int /\ recs[s].deadline \in Int
    BY <2>2, BoundsAssumption DEF EtcdInv, KeysOK, ShardOK, Shard, Time
  <2>4. OwnerIsLiveAt(s, now) => recs'[s].fence = recs[s].fence
    BY <2>1, <2>2, <2>3 DEF OwnerIsLiveAt
  <2>5. LiveOwnerStep
    BY <2>1, <2>4 DEF LiveOwnerStep
  <2>6. ShutStep
    BY <2>1, <2>2 DEF ShutStep
  <2> QED BY <2>5, <2>6
<1> QED BY <1>1, <1>2, EtcdSteps

\* A shard whose owner key is there and whose deadline has not passed is not
\* taken over, although acquires decide on a read made long before they commit.
THEOREM EtcdLiveOwners == EtcdSpec => LiveOwnerKept
<1>1. [LiveOwnerStep]_vars <=> [\A s \in DOMAIN recs :
         OwnerIsLiveAt(s, now) => recs'[s].fence = recs[s].fence]_vars
  BY DEF LiveOwnerStep
<1> QED BY EtcdInvariance, EtcdNextKeeps, <1>1, PTL DEF EtcdSpec, LiveOwnerKept

\* No shard is reopened once its run has ended, although unpark_shard reads the
\* run before it writes the shard.
THEOREM EtcdEndedRunsShut == EtcdSpec => EndedRunStaysShut
<1>1. [ShutStep]_vars <=> [runEnded => \A s \in DOMAIN recs :
         recs[s].status = "Parked" => recs'[s].status = "Parked"]_vars
  BY DEF ShutStep
<1> QED BY EtcdInvariance, EtcdNextKeeps, <1>1, PTL DEF EtcdSpec, EndedRunStaysShut

-----------------------------------------------------------------------------
(* The etcd backend implements FencedShards                                *)

\* The records as FencedShards sees them.
View == [s \in DOMAIN recs |-> Abs(recs[s])]

\* The operators of the instance are those of ShardRecords itself: its constants
\* are not renamed.
LEMMA FencedPuts ==
    ASSUME NEW s, NEW r, NEW op, NEW req
    PROVE  Fenced!Puts(s, r, op, req) = Puts(s, r, op, req)
BY DEF Fenced!Puts, Puts, Fenced!AfterCheckpoint, AfterCheckpoint, Fenced!AfterComplete,
       AfterComplete, Fenced!AfterPark, AfterPark, Fenced!SplitReplacePuts, SplitReplacePuts,
       Fenced!SplitResidualPuts, SplitResidualPuts, Fenced!OpLogPush, OpLogPush,
       Fenced!Released, Released, Fenced!NewShard, NewShard, Fenced!ChildIds, ChildIds,
       Fenced!NoKey, NoKey

\* So are its tests of the log and the lineage, and what unpark_shard writes.
LEMMA FencedFresh ==
    ASSUME NEW s, NEW r, NEW op, NEW req
    PROVE  /\ Fenced!IsFresh(s, r, op, req) = IsFresh(s, r, op, req)
           /\ Fenced!CheckOpIdempotency(r, op, req) = CheckOpIdempotency(r, op, req)
           /\ Fenced!DistinctIds(s, r, op, req) = DistinctIds(s, r, op, req)
           /\ Fenced!AfterUnpark(s, r, op) = AfterUnpark(s, r, op)
<1>1. /\ Fenced!CheckOpIdempotency(r, op, req) = CheckOpIdempotency(r, op, req)
      /\ Fenced!ReplayedResiduals(s, r, op) = ReplayedResiduals(s, r, op)
  BY DEF Fenced!CheckOpIdempotency, CheckOpIdempotency, Fenced!OpLogEntries, OpLogEntries,
         Fenced!ReplayedResiduals, ReplayedResiduals
<1>2. Fenced!IsFresh(s, r, op, req) = IsFresh(s, r, op, req)
  BY <1>1 DEF Fenced!IsFresh, IsFresh
<1>3. Fenced!DistinctIds(s, r, op, req) = DistinctIds(s, r, op, req)
  BY DEF Fenced!DistinctIds, DistinctIds, Fenced!ChildIds, ChildIds, Fenced!Cardinality, Cardinality
<1>4. Fenced!AfterUnpark(s, r, op) = AfterUnpark(s, r, op)
  BY DEF Fenced!AfterUnpark, AfterUnpark, Fenced!OpLogPush, OpLogPush, Fenced!Released, Released
<1> QED BY <1>1, <1>2, <1>3, <1>4

\* So is what an operation demands of the record.
LEMMA FencedPermitted ==
    ASSUME NEW r, NEW req, NEW c
    PROVE  Fenced!Permitted(r, req, c) = Permitted(r, req, c)
BY DEF Fenced!Permitted, Permitted, Fenced!ValidCursorUpdate, ValidCursorUpdate,
       Fenced!ValidSplitReplace, ValidSplitReplace, Fenced!ValidSplitResidual,
       ValidSplitResidual, Fenced!ValidSplitCoverage, ValidSplitCoverage, Fenced!CanSpawn,
       CanSpawn, Fenced!InRange, InRange, Fenced!NoKey, NoKey

\* So is the count of a set.
LEMMA FencedCount ==
    ASSUME NEW S
    PROVE  Fenced!Cardinality(S) = Cardinality(S)
BY DEF Fenced!Cardinality, Cardinality

\* So are the bags of effects.
LEMMA FencedBag ==
    ASSUME NEW S, NEW b, NEW c
    PROVE  /\ Fenced!SetToBag(S) = SetToBag(S)
           /\ Fenced!(+)(b, c) = b (+) c
           /\ Fenced!EmptyBag = EmptyBag
<1>1. Fenced!SetToBag(S) = SetToBag(S)
  BY DEF Fenced!SetToBag, SetToBag
<1>2. Fenced!(+)(b, c) = b (+) c
  BY DEF Fenced!(+), (+)
<1>3. Fenced!EmptyBag = EmptyBag
  BY DEF Fenced!EmptyBag, EmptyBag, Fenced!SetToBag, SetToBag
<1> QED BY <1>1, <1>2, <1>3

\* So are the requests of a lease holder.
LEMMA FencedRequests == Fenced!LeaseRequests = LeaseRequests
BY DEF Fenced!LeaseRequests, LeaseRequests, Fenced!PlannedChildren, PlannedChildren,
       Fenced!Cuts, Cuts, Fenced!InRange, InRange, Fenced!NoKey, NoKey, Fenced!Cursor, Cursor,
       Fenced!Bound, Bound

\* The refinement mapping of EtcdCoordination is View.
LEMMA ViewIs ==
    /\ [x \in DOMAIN recs |-> [recs[x] EXCEPT !.deadline = 0]] = View
    /\ [x \in DOMAIN recs' |-> [recs'[x] EXCEPT !.deadline = 0]] = View'
    /\ DOMAIN View = DOMAIN recs /\ \A x \in DOMAIN recs : View[x] = Abs(recs[x])
    /\ View' = [x \in DOMAIN recs' |-> Abs(recs'[x])]
BY DEF View, Abs

\* The view after a transaction is applied.
LEMMA ViewWritten ==
    ASSUME EtcdInv, NEW t, Applied(t)
    PROVE  View' = [x \in DOMAIN recs \cup DOMAIN t.puts |->
                       IF x \in DOMAIN t.puts THEN Abs(t.puts[x]) ELSE View[x]]
<1>1. PICK gone : Apply(t, gone)
  BY DEF Applied
<1>2. recs' = [x \in DOMAIN recs \cup DOMAIN t.puts |->
                  IF x \in DOMAIN t.puts THEN t.puts[x] ELSE recs[x]]
  BY <1>1 DEF Apply, Fenced!Written
<1>3. \A x \in DOMAIN recs' : Abs(recs'[x]) =
         IF x \in DOMAIN t.puts THEN Abs(t.puts[x]) ELSE View[x]
  BY <1>2, ViewIs
<1>4. DOMAIN recs' = DOMAIN recs \cup DOMAIN t.puts
  BY <1>2
<1> QED BY <1>3, <1>4, ViewIs

\* The view after the record of one shard is put.
LEMMA ViewOnePut ==
    ASSUME EtcdInv, NEW t, Applied(t), NEW q, t.shard \in DOMAIN recs,
           t.puts = [x \in {t.shard} |-> q]
    PROVE  View' = [View EXCEPT ![t.shard] = Abs(q)]
<1>1. DOMAIN t.puts = {t.shard} /\ t.puts[t.shard] = q
  OBVIOUS
<1>2. View' = [x \in DOMAIN recs |-> IF x = t.shard THEN Abs(q) ELSE View[x]]
  BY <1>1, ViewWritten
<1> QED BY <1>2, ViewIs

\* The bag of effects after a transaction.
LEMMA AppliedHistory ==
    ASSUME NEW t, Applied(t)
    PROVE  history' = Fenced!Counted(history, t.kind, t.shard, t.op, t.fence)
BY DEF Applied, Apply

\* acquire_and_restore_into as a takeover of FencedShards.
LEMMA AcquireFenced ==
    ASSUME EtcdInv, NEW t, Applied(t), t.shard \in DOMAIN recs, AcquireCurrent(t, recs, now)
    PROVE  Fenced!FencedNext
<1> DEFINE s == t.shard
           r == recs[s]
           w == t.newOwner.worker
<1>1. r \in Shard /\ Abs(r).status = r.status /\ Abs(r).fence = r.fence
  <2>1. r \in Shard
    BY DEF EtcdInv, KeysOK, ShardOK
  <2> QED BY <2>1, AbsFields
<1>2. r.status = "Active" /\ r.fence < MaxFence /\ w \in Worker /\ t.kind = "Acquire"
  BY DEF AcquireCurrent, OwnerKey
<1>3. PICK d \in 0..MaxTime :
         t.puts = [x \in {s} |-> [r EXCEPT !.fence = r.fence + 1, !.owner = w, !.deadline = d]]
  BY DEF AcquireCurrent
<1> DEFINE q == [r EXCEPT !.fence = r.fence + 1, !.owner = w, !.deadline = d]
<1>4. Abs(q) = [Abs(r) EXCEPT !.fence = @ + 1, !.owner = w]
  BY <1>1, ShardFields DEF Abs
<1>5. t.puts = [x \in {s} |-> q]
  BY <1>3
<1> HIDE DEF q
<1>6. View' = [View EXCEPT ![s] = Abs(q)] /\ View[s] = Abs(r) /\ DOMAIN View = DOMAIN recs
  BY <1>5, ViewOnePut, ViewIs
<1>7. View' = [View EXCEPT ![s].fence = @ + 1, ![s].owner = w]
  <2>1. [View EXCEPT ![s].fence = @ + 1, ![s].owner = w]
           = [View EXCEPT ![s] = [View[s] EXCEPT !.fence = @ + 1, !.owner = w]]
    <3> HIDE DEF r, w
    <3> QED BY <1>1, <1>6
  <2> QED BY <1>4, <1>6, <2>1
<1>8. history' = history
  BY <1>2, AppliedHistory DEF Fenced!Counted, Fenced!Structural
<1> HIDE DEF r, w
<1>9. Fenced!FencedAcquire(w, s)
  BY <1>1, <1>2, <1>6, <1>7, <1>8, ViewIs DEF Fenced!FencedAcquire
<1> QED BY <1>2, <1>6, <1>9, ViewIs DEF Fenced!FencedNext

\* A renewal moves a deadline, which FencedShards does not see.
LEMMA RenewFenced ==
    ASSUME EtcdInv, NEW t, Applied(t), t.shard \in DOMAIN recs, RenewCurrent(t, recs)
    PROVE  View' = View /\ history' = history
<1> DEFINE s == t.shard
           r == recs[s]
<1>1. r \in Shard
  BY DEF EtcdInv, KeysOK, ShardOK
<1>2. PICK d \in 0..MaxTime : t.puts = [x \in {s} |-> [r EXCEPT !.deadline = d]]
  BY DEF RenewCurrent
<1> DEFINE q == [r EXCEPT !.deadline = d]
<1>3. Abs(q) = Abs(r)
  BY <1>1, ShardFields DEF Abs
<1>4. t.puts = [x \in {s} |-> q]
  BY <1>2
<1> HIDE DEF q
<1>5. View' = [View EXCEPT ![s] = Abs(q)] /\ View[s] = Abs(r) /\ DOMAIN View = DOMAIN recs
  BY <1>4, ViewOnePut, ViewIs
<1>6. View = [x \in DOMAIN View |-> View[x]]
  BY DEF View
<1> HIDE DEF r
<1>7. [View EXCEPT ![s] = View[s]] = View
  BY <1>5, <1>6
<1>8. history' = history
  BY AppliedHistory DEF Fenced!Counted, Fenced!Structural, RenewCurrent
<1> QED BY <1>3, <1>5, <1>7, <1>8

\* unpark_shard as a step of FencedShards.
LEMMA UnparkFenced ==
    ASSUME EtcdInv, NEW t, Applied(t), t.shard \in DOMAIN recs, UnparkCurrent(t, recs, runEnded)
    PROVE  Fenced!FencedNext
<1> DEFINE s == t.shard
           r == recs[s]
           op == t.op
           q == AfterUnpark(s, r, op)
           req == <<"Unpark", s>>
<1>1. r \in Shard /\ Abs(r).status = r.status /\ Abs(r).fence = r.fence
  <2>1. r \in Shard
    BY DEF EtcdInv, KeysOK, ShardOK
  <2> QED BY <2>1, AbsFields
<1>2. /\ t.kind = "Unpark" /\ op \in OpId /\ r.status = "Parked" /\ r.fence < MaxFence
      /\ t.fence = r.fence /\ CheckOpIdempotency(r, op, req) = "Fresh"
      /\ t.puts = [x \in {s} |-> q]
  BY DEF UnparkCurrent
<1>3. CheckOpIdempotency(Abs(r), op, req) = "Fresh"
  BY <1>1, <1>2, AbsChecks
<1>4. Abs(q) = AfterUnpark(s, Abs(r), op)
  BY <1>1, <1>2, AbsUnpark
<1> HIDE DEF q
<1>5. View' = [View EXCEPT ![s] = Abs(q)] /\ View[s] = Abs(r) /\ DOMAIN View = DOMAIN recs
  BY <1>2, ViewOnePut, ViewIs
<1>6. /\ Fenced!CheckOpIdempotency(Abs(r), op, req) = "Fresh"
      /\ Fenced!AfterUnpark(s, Abs(r), op) = Abs(q)
  <2> HIDE DEF r, op, req
  <2> QED BY <1>3, <1>4, FencedFresh
<1>7. history' = Fenced!Counted(history, "Unpark", s, op, r.fence)
  BY <1>2, AppliedHistory
<1> HIDE DEF r
<1>8. Fenced!FencedUnpark(s, op)
  BY <1>1, <1>2, <1>5, <1>6, <1>7, ViewIs DEF Fenced!FencedUnpark
<1> QED BY <1>2, <1>5, <1>8, ViewIs DEF Fenced!FencedNext

\* An operation of a lease holder as one of FencedShards.
LEMMA LeaseOpFenced ==
    ASSUME EtcdInv, NEW t, Applied(t), t.shard \in DOMAIN recs, LeaseOpCurrent(t, recs, count)
    PROVE  Fenced!FencedNext
<1> DEFINE s == t.shard
           r == recs[s]
           op == t.op
           puts == t.puts
<1>1. /\ s \in ShardId /\ r \in Shard /\ Abs(r).status = r.status /\ Abs(r).fence = r.fence
      /\ Abs(r).owner = r.owner
  <2>1. r \in Shard /\ s \in ShardId
    BY DEF EtcdInv, KeysOK, ShardOK
  <2> QED BY <2>1, AbsFields
<1>2. r.status = "Active" /\ r.owner # NoWorker /\ t.fence = r.fence /\ op \in OpId
  BY DEF LeaseOpCurrent
<1>3. PICK req \in LeaseRequests :
         /\ t.kind = req[1]
         /\ IsFresh(s, r, op, req)
         /\ Permitted(r, req, count)
         /\ DistinctIds(s, r, op, req)
         /\ puts = Puts(s, r, op, req)
  BY DEF LeaseOpCurrent
<1> DEFINE seen == [x \in DOMAIN puts |-> Abs(puts[x])]
<1>4. Puts(s, Abs(r), op, req) = seen
  <2> HIDE DEF r, op, puts
  <2>1. Puts(s, Abs(r), op, req) =
           [x \in DOMAIN Puts(s, r, op, req) |-> Abs(Puts(s, r, op, req)[x])]
    BY <1>1, <1>2, <1>3, AbsPuts
  <2> QED BY <1>3, <2>1
<1>5. /\ IsFresh(s, Abs(r), op, req) /\ Permitted(Abs(r), req, count)
      /\ DistinctIds(s, Abs(r), op, req)
  <2> HIDE DEF r, op
  <2> QED BY <1>1, <1>3, AbsChecks
<1>6. count = Cardinality(DOMAIN recs)
  BY DEF EtcdInv, DerivedKeysExact, CounterExact
<1>7. (DOMAIN puts \ {s}) \cap DOMAIN recs = {}
  BY DEF Applied, ComparesHold
<1>8. DOMAIN seen = DOMAIN puts
  OBVIOUS
<1>9. View' = Fenced!Written(View, seen)
  <2>1. View' = [x \in DOMAIN recs \cup DOMAIN puts |->
                   IF x \in DOMAIN puts THEN Abs(puts[x]) ELSE View[x]]
    BY ViewWritten
  <2>2. Fenced!Written(View, seen) = [x \in DOMAIN View \cup DOMAIN seen |->
                   IF x \in DOMAIN seen THEN seen[x] ELSE View[x]]
    BY DEF Fenced!Written
  <2> QED BY <2>1, <2>2, ViewIs
<1>10. history' = Fenced!Counted(history, req[1], s, op, Abs(r).fence)
  BY <1>1, <1>2, <1>3, AppliedHistory
<1> HIDE DEF seen, puts, r, op
<1>11. /\ Fenced!Puts(s, Abs(r), op, req) = seen
       /\ Fenced!IsFresh(s, Abs(r), op, req) /\ Fenced!Permitted(Abs(r), req, count)
       /\ Fenced!DistinctIds(s, Abs(r), op, req) /\ req \in Fenced!LeaseRequests
  BY <1>3, <1>4, <1>5, FencedPuts, FencedFresh, FencedPermitted, FencedRequests
<1>12. View[s] = Abs(r) /\ DOMAIN View = DOMAIN recs
       /\ Fenced!Cardinality(DOMAIN View) = count
  BY <1>6, ViewIs, FencedCount DEF r
<1>13. Fenced!FencedExecute(s, op, req)
  BY <1>1, <1>2, <1>7, <1>8, <1>9, <1>10, <1>11, <1>12, ViewIs DEF Fenced!FencedExecute
<1> QED BY <1>2, <1>11, <1>12, <1>13, ViewIs DEF Fenced!FencedNext

\* Every step over etcd is a step of FencedShards, or does not show there.
LEMMA FencedSteps ==
    ASSUME EtcdInv, [EtcdNext]_vars
    PROVE  Fenced!FencedNext \/ (View' = View /\ history' = history)
<1>1. CASE UNCHANGED <<recs, history>>
  BY <1>1 DEF View, Abs
<1>2. ASSUME NEW t, Applied(t)
      PROVE  Fenced!FencedNext \/ (View' = View /\ history' = history)
  <2>1. t.dirty = {} /\ TxnOK(t, recs, count, now, runEnded)
    BY <1>2 DEF Applied, ComparesHold
  <2>2. /\ t.shard \in DOMAIN recs
        /\ \/ AcquireCurrent(t, recs, now) \/ RenewCurrent(t, recs)
           \/ UnparkCurrent(t, recs, runEnded) \/ LeaseOpCurrent(t, recs, count)
    BY <2>1 DEF TxnOK
  <2> QED BY <1>2, <2>2, AcquireFenced, RenewFenced, UnparkFenced, LeaseOpFenced
<1> QED BY <1>1, <1>2, EtcdSteps

\* The first records are those of FencedShards.
LEMMA FencedStart == EtcdInit => Fenced!FencedInit
<1> SUFFICES ASSUME EtcdInit PROVE Fenced!FencedInit
  OBVIOUS
<1>1. /\ DOMAIN recs = DOMAIN Manifest
      /\ \A s \in DOMAIN Manifest :
            Abs(recs[s]) = NewShard(Manifest[s].lo, Manifest[s].hi, Manifest[s].cursor, NoShard)
  BY AbsNew DEF EtcdInit, EtcdInitOf
<1>2. \A lo, hi, cursor, parent :
         Fenced!NewShard(lo, hi, cursor, parent) = NewShard(lo, hi, cursor, parent)
  BY DEF Fenced!NewShard, NewShard
<1>3. history = Fenced!EmptyBag
  BY FencedBag DEF EtcdInit, EtcdInitOf
<1> QED BY <1>1, <1>2, <1>3 DEF Fenced!FencedInit, Abs

\* Over etcd, with lost and late transactions, early expiry, conflicts and stale
\* clocks, the records change only as FencedShards allows: every effect under the
\* epoch and in the hands of the holder the record names, every OpId executed
\* where the log and the lineage know nothing of it (cas_retry,
\* validate_loaded_shard_lease).
THEOREM EtcdFencedRefinement == EtcdSpec => ImplementsFenced
<1>1. EtcdInv /\ [EtcdNext]_vars => [Fenced!FencedNext]_(Fenced!fencedVars)
  <2> SUFFICES ASSUME EtcdInv, [EtcdNext]_vars, ~Fenced!FencedNext
               PROVE  UNCHANGED Fenced!fencedVars
    OBVIOUS
  <2>1. View' = View /\ history' = history
    BY FencedSteps
  <2> QED BY <2>1 DEF Fenced!fencedVars, View, Abs
<1> QED BY FencedStart, EtcdInvariance, <1>1, PTL DEF EtcdSpec, ImplementsFenced, Fenced!FencedSpec
=============================================================================

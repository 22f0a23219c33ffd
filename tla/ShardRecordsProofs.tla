------------------------- MODULE ShardRecordsProofs -------------------------
(***************************************************************************)
(* Lemmas about the shard record and the operators of ShardRecords that    *)
(* every backend's proofs rest on: the bounded log, releases, cuts and     *)
(* partitions, and what hiding the deadline commutes with.                 *)
(***************************************************************************)
EXTENDS ShardRecords, TLAPS, FiniteSetTheorems, SequenceTheorems

\* A set of natural numbers has a least element.
LEMMA LeastNat ==
    ASSUME NEW T, T \subseteq Nat, T # {}
    PROVE  \E x \in T : \A y \in T : x <= y
<1> DEFINE R == OpToRel(<, Nat)
<1>1. IsWellFoundedOn(R, Nat)
  BY NatLessThanWellFounded
<1>2. \A a, b \in Nat : a < b => <<a, b>> \in R
  BY DEF OpToRel
<1> HIDE DEF R
<1>3. PICK x \in T : \A y \in T : ~ (<<y, x>> \in R)
  BY <1>1, WFMin
<1>4. \A y \in T : ~(y < x)
  BY <1>2, <1>3, Zenon
<1>5. \A y \in T : x <= y
  BY <1>4
<1> QED BY <1>5

\* Adjacent intervals lie in order, and every number between the first start and
\* the last end is in one of them.
LEMMA AdjacentIntervals ==
    ASSUME NEW n \in Nat, n >= 1, NEW L \in [1..n -> Int], NEW H \in [1..n -> Int],
           \A i \in 1..n : L[i] < H[i],
           \A i \in 1..(n - 1) : H[i] = L[i + 1]
    PROVE  /\ \A i, j \in 1..n : i < j => H[i] <= L[j]
           /\ \A k \in Int : L[1] <= k /\ k < H[n] <=> \E i \in 1..n : L[i] <= k /\ k < H[i]
<1>1. \A i, j \in 1..n : i < j => H[i] <= L[j]
  <2> SUFFICES ASSUME NEW i \in 1..n, NEW j \in 1..n, i < j, ~(H[i] <= L[j])
               PROVE  FALSE
    OBVIOUS
  <2> DEFINE T == {m \in Nat : m \in 1..n /\ i < m /\ ~(H[i] <= L[m])}
  <2>1. T \subseteq Nat /\ j \in T
    OBVIOUS
  <2>2. PICK m \in T : \A y \in T : m <= y
    BY <2>1, LeastNat
  <2>3. m \in 1..n /\ i < m /\ ~(H[i] <= L[m]) /\ m - 1 \in 1..n /\ m - 1 \in 1..(n - 1)
    BY <2>2
  <2>4. H[m - 1] = L[m]
    BY <2>3
  <2>5. m - 1 # i
    <3> SUFFICES ASSUME m - 1 = i PROVE FALSE
      OBVIOUS
    <3>1. H[i] = L[m]
      BY <2>4
    <3>2. H[i] \in Int /\ L[m] \in Int
      BY <2>3
    <3> QED BY <2>3, <3>1, <3>2
  <2>6. m - 1 \notin T
    BY <2>2, <2>3
  <2>7. H[i] <= L[m - 1]
    BY <2>3, <2>5, <2>6
  <2> QED BY <2>3, <2>4, <2>7
<1>2. ASSUME NEW k \in Int, L[1] <= k, k < H[n]
      PROVE  \E i \in 1..n : L[i] <= k /\ k < H[i]
  <2> DEFINE T == {m \in Nat : m \in 1..n /\ k < H[m]}
  <2>1. T \subseteq Nat /\ n \in T
    BY <1>2
  <2>2. PICK m \in T : \A y \in T : m <= y
    BY <2>1, LeastNat
  <2>3. m \in 1..n /\ k < H[m]
    BY <2>2
  <2>4. L[m] <= k
    <3>1. CASE m = 1
      BY <1>2, <3>1
    <3>2. CASE m # 1
      <4>1. m - 1 \in 1..n /\ m - 1 \in 1..(n - 1) /\ m - 1 \notin T
        BY <2>2, <2>3, <3>2
      <4> QED BY <2>3, <4>1
    <3> QED BY <3>1, <3>2
  <2> QED BY <2>3, <2>4
<1>3. ASSUME NEW k \in Int, NEW i \in 1..n, L[i] <= k, k < H[i]
      PROVE  L[1] <= k /\ k < H[n]
  <2>1. i # 1 => H[1] <= L[i]
    BY <1>1
  <2>2. i # n => H[i] <= L[n]
    BY <1>1
  <2> QED BY <1>3, <2>1, <2>2
<1> QED BY <1>1, <1>2, <1>3

\* A deadline is a time, and not before the present.
LEMMA DeadlineType ==
    ASSUME NEW t \in Time
    PROVE  Deadline(t) \in 0..MaxTime /\ t <= Deadline(t)
BY BoundsAssumption DEF Deadline, Time

\* The record type as a set of records: the provers read field updates off it.
LEMMA ShardFields ==
    Shard = [status : Status, fence : Fence, owner : Worker \cup {NoWorker},
             deadline : 0..MaxTime, cursor : Cursor, lo : Bound, hi : Bound,
             parent : ShardId \cup {NoShard}, spawned : Seq(ShardId),
             log : Seq([op : OpId, hash : PayloadHash]),
             reason : Reason \cup {NoReason}]
BY DEF Shard

\* An epoch is a number.
LEMMA FenceIsInt == \A r \in Shard : r.fence \in Fence /\ r.fence \in Int
BY DEF Shard, Fence

\* A shard fresh from a manifest or a split is well formed.
LEMMA NewShardOK ==
    ASSUME NEW lo \in Bound, NEW hi \in Bound, NEW cursor \in Cursor,
           NEW parent \in ShardId \cup {NoShard}
    PROVE  ShardOK(NewShard(lo, hi, cursor, parent))
BY BoundsAssumption DEF ShardOK, Shard, NewShard, Status, Fence, IsTerminal

\* A new shard has spawned and logged nothing.
LEMMA NewShardBlank ==
    ASSUME NEW lo, NEW hi, NEW cursor, NEW parent
    PROVE  LET z == NewShard(lo, hi, cursor, parent)
           IN z.parent = parent /\ z.spawned = <<>> /\ OpLogEntries(z) = {}
BY DEF NewShard, OpLogEntries

\* Pushing an operation that was fresh for the record before its other fields
\* changed (old) leaves the log bounded and its OpIds distinct.
LEMMA OpLogPushOK ==
    ASSUME NEW r, ShardOK(r), NEW old, old.log = r.log,
           NEW op \in OpId, NEW hash \in PayloadHash,
           CheckOpIdempotency(old, op, hash) = "Fresh"
    PROVE  LET q == OpLogPush(r, op, hash)
           IN /\ ShardOK(q)
              /\ q.fence = r.fence /\ q.status = r.status
              /\ q.owner = r.owner /\ q.deadline = r.deadline
<1> DEFINE E == [op : OpId, hash : PayloadHash]
           e == [op |-> op, hash |-> hash]
           log == OpLogPush(r, op, hash).log
<1>1. r \in Shard /\ r.log \in Seq(E) /\ e \in E /\ OpLogCap \in Nat \ {0}
  BY BoundsAssumption DEF ShardOK, Shard
<1>2. \A i \in DOMAIN r.log : r.log[i].op # op
  <2>1. \A x \in OpLogEntries(old) : x.op # op
    BY DEF CheckOpIdempotency
  <2> QED BY <2>1 DEF OpLogEntries
<1>3. log = IF Len(r.log) < OpLogCap THEN Append(r.log, e) ELSE Append(Tail(r.log), e)
  BY <1>1 DEF OpLogPush, Shard
<1>4. /\ log \in Seq(E)
      /\ Len(log) <= OpLogCap
      /\ \A i, j \in DOMAIN log : log[i].op = log[j].op => i = j
  <2>1. CASE Len(r.log) < OpLogCap
    BY <1>1, <1>2, <1>3, <2>1 DEF ShardOK
  <2>2. CASE Len(r.log) >= OpLogCap
    <3>1. Len(r.log) = OpLogCap /\ r.log # <<>>
      BY <1>1, <2>2 DEF ShardOK
    <3>2. /\ Tail(r.log) \in Seq(E) /\ Len(Tail(r.log)) = Len(r.log) - 1
          /\ \A i \in 1..(Len(r.log) - 1) : Tail(r.log)[i] = r.log[i + 1]
      BY <1>1, <3>1
    <3> QED BY <1>1, <1>2, <1>3, <3>1, <3>2 DEF ShardOK
  <2> QED BY <1>1, <2>1, <2>2
<1>5. OpLogPush(r, op, hash) = [r EXCEPT !.log = log]
  BY <1>1 DEF OpLogPush, Shard
<1> HIDE DEF log, E
<1> QED BY <1>1, <1>4, <1>5 DEF ShardOK, Shard, E

\* Nothing but the pushed entry is new in a log.
LEMMA PushEntries ==
    ASSUME NEW r \in Shard, NEW op \in OpId, NEW hash \in PayloadHash
    PROVE  \A e \in OpLogEntries(OpLogPush(r, op, hash)) :
               e \in OpLogEntries(r) \/ e = [op |-> op, hash |-> hash]
<1> DEFINE E == [op : OpId, hash : PayloadHash]
           new == [op |-> op, hash |-> hash]
           log == OpLogPush(r, op, hash).log
<1>1. r.log \in Seq(E) /\ new \in E
  BY DEF Shard
<1>2. log = IF Len(r.log) < OpLogCap THEN Append(r.log, new) ELSE Append(Tail(r.log), new)
  BY DEF OpLogPush, Shard
<1>3. \A i \in DOMAIN log : log[i] = new \/ \E j \in DOMAIN r.log : log[i] = r.log[j]
  <2>1. CASE Len(r.log) < OpLogCap
    BY <1>1, <1>2, <2>1
  <2>2. CASE ~(Len(r.log) < OpLogCap) /\ r.log # <<>>
    <3>1. /\ Tail(r.log) \in Seq(E) /\ Len(Tail(r.log)) = Len(r.log) - 1
          /\ \A i \in 1..(Len(r.log) - 1) : Tail(r.log)[i] = r.log[i + 1]
      BY <1>1, <2>2
    <3>2. log = Append(Tail(r.log), new)
      BY <1>2, <2>2
    <3>3. \A i \in DOMAIN log : log[i] = new \/ (i \in 1..(Len(r.log) - 1) /\ log[i] = Tail(r.log)[i])
      BY <1>1, <3>1, <3>2
    <3> QED BY <1>1, <3>1, <3>3
  <2>3. CASE ~(Len(r.log) < OpLogCap) /\ r.log = <<>>
    BY <1>1, <2>3, BoundsAssumption
  <2> QED BY <2>1, <2>2, <2>3
<1> HIDE DEF log, new
<1> QED BY <1>3 DEF OpLogEntries, log, new

\* Giving up the lease changes the owner and the deadline alone.
LEMMA ReleasedFields ==
    ASSUME NEW r \in Shard
    PROVE  /\ Released(r) \in Shard
           /\ Released(r).status = r.status /\ Released(r).fence = r.fence
           /\ Released(r).owner = NoWorker /\ Released(r).deadline = 0
           /\ Released(r).cursor = r.cursor /\ Released(r).lo = r.lo /\ Released(r).hi = r.hi
           /\ Released(r).parent = r.parent /\ Released(r).spawned = r.spawned
           /\ Released(r).log = r.log /\ Released(r).reason = r.reason
<1>1. 0 \in 0..MaxTime
  BY BoundsAssumption
<1> QED BY <1>1, ShardFields DEF Released

\* A record given a new status and the park reason that status demands, and
\* its lease given up, is well formed.
LEMMA ReleasedOK ==
    ASSUME NEW r, ShardOK(r), NEW q \in Shard, q.log = r.log,
           (q.status = "Parked") <=> (q.reason # NoReason),
           Len(q.spawned) <= MaxSpawned
    PROVE  /\ ShardOK(Released(q))
           /\ Released(q).log = r.log
           /\ Released(q).fence = q.fence
<1>1. q \in [status : Status, fence : Fence, owner : Worker \cup {NoWorker},
          deadline : 0..MaxTime, cursor : Cursor, lo : Bound, hi : Bound,
          parent : ShardId \cup {NoShard}, spawned : Seq(ShardId),
          log : Seq([op : OpId, hash : PayloadHash]),
          reason : Reason \cup {NoReason}]
  BY DEF Shard
<1>2. 0 \in 0..MaxTime
  BY BoundsAssumption
<1>3. /\ Released(q) \in Shard
      /\ Released(q).status = q.status /\ Released(q).reason = q.reason
      /\ Released(q).owner = NoWorker /\ Released(q).log = q.log
      /\ Released(q).spawned = q.spawned /\ Released(q).fence = q.fence
  BY <1>1, <1>2 DEF Shard, Released
<1> QED BY <1>3 DEF ShardOK

\* An executed lease-gated operation is fresh, holds the lease and is valid.
LEMMA ExecutedMeans ==
    ASSUME NEW r, NEW lease, NEW t, NEW op, NEW hash, NEW valid \in BOOLEAN,
           LeaseOpOutcome(r, lease, t, op, hash, valid) = "Executed"
    PROVE  /\ CheckOpIdempotency(r, op, hash) = "Fresh"
           /\ ValidLease(r, lease, t)
           /\ valid
BY DEF LeaseOpOutcome, CheckOpIdempotency

\* The boundaries a caller may cut a range at are keys of the key space.
LEMMA CutsType ==
    ASSUME NEW n \in Nat, NEW cut \in Cuts(n)
    PROVE  \E m \in 2..n : cut \in [1..(m + 1) -> Bound] /\ Len(cut) = m + 1
<1>1. PICK m \in 2..n : cut \in [1..(m + 1) -> Bound]
  BY DEF Cuts
<1>2. m + 1 \in Nat
  BY <1>1
<1>3. Len(cut) = m + 1
  BY <1>1, <1>2
<1> QED BY <1>1, <1>3

\* A split-replace planned at such boundaries is a sequence of children.
LEMMA PlannedChildrenType ==
    ASSUME NEW n \in Nat, NEW cut \in Cuts(n), NEW cursor \in Cursor, NEW inherit \in BOOLEAN
    PROVE  PlannedChildren(cut, cursor, inherit) \in Seq(Child)
<1>1. PICK m \in 2..n : cut \in [1..(m + 1) -> Bound] /\ Len(cut) = m + 1
  BY CutsType
<1>2. m \in Nat /\ Len(cut) - 1 = m
  BY <1>1
<1>3. \A i \in 1..m : cut[i] \in Bound /\ cut[i + 1] \in Bound
  BY <1>1, <1>2
<1>4. NoKey \in Cursor
  BY BoundsAssumption DEF NoKey, Cursor
<1>5. PlannedChildren(cut, cursor, inherit) \in [1..m -> Child]
  BY <1>2, <1>3, <1>4 DEF PlannedChildren, Child
<1> QED BY <1>2, <1>5

\* No child starts outside its own range.
CursorsInside(children) ==
    \A i \in 1..Len(children) :
        children[i].cursor # NoKey =>
            InRange(children[i].cursor, children[i].lo, children[i].hi)

\* Planned children start afresh or inherit a cursor that is theirs (cursor_for_child).
LEMMA PlannedCursorsInside ==
    ASSUME NEW n \in Nat, NEW cut \in Cuts(n), NEW cursor \in Cursor, NEW inherit \in BOOLEAN
    PROVE  CursorsInside(PlannedChildren(cut, cursor, inherit))
<1>1. PICK m \in 2..n : cut \in [1..(m + 1) -> Bound] /\ Len(cut) = m + 1
  BY CutsType
<1>2. Len(cut) - 1 = m /\ m \in Nat
  BY <1>1
<1> DEFINE children == PlannedChildren(cut, cursor, inherit)
<1>3. children = [i \in 1..m |->
        [lo |-> cut[i], hi |-> cut[i + 1],
         cursor |-> IF inherit /\ InRange(cursor, cut[i], cut[i + 1]) THEN cursor ELSE NoKey]]
  BY <1>2 DEF PlannedChildren
<1>4. Len(children) = m
  BY <1>2, <1>3
<1> HIDE DEF children
<1>5. \A i \in 1..m : children[i].cursor # NoKey =>
            InRange(children[i].cursor, children[i].lo, children[i].hi)
  BY <1>3
<1> QED BY <1>4, <1>5 DEF CursorsInside, children

\* The children of a valid split lie in order and share out the parent's range
\* (validate_split_coverage_bounds).
LEMMA ChildrenPartition ==
    ASSUME NEW lo \in Int, NEW hi \in Int, NEW children \in Seq(Child),
           ValidSplitCoverage(lo, hi, children)
    PROVE  LET n == Len(children)
           IN /\ \A i, j \in 1..n : i < j => children[i].hi <= children[j].lo
              /\ \A k \in Int : InRange(k, lo, hi) <=>
                    \E i \in 1..n : InRange(k, children[i].lo, children[i].hi)
<1> DEFINE n == Len(children)
           L == [i \in 1..n |-> children[i].lo]
           H == [i \in 1..n |-> children[i].hi]
<1>1. /\ n \in Nat /\ n >= 2 /\ children[1].lo = lo /\ children[n].hi = hi
      /\ \A i \in 1..(n - 1) : children[i].hi = children[i + 1].lo
      /\ \A i \in 1..n : children[i].lo < children[i].hi
  BY DEF ValidSplitCoverage
<1>2. \A i \in 1..n : children[i].lo \in Int /\ children[i].hi \in Int
  <2>1. \A i \in 1..n : children[i] \in Child
    OBVIOUS
  <2>2. \A c \in Child : c.lo \in Int /\ c.hi \in Int
    BY DEF Child, Bound
  <2> QED BY <2>1, <2>2
<1> HIDE DEF n
<1>3. /\ L \in [1..n -> Int] /\ H \in [1..n -> Int]
      /\ \A i \in 1..n : L[i] = children[i].lo /\ H[i] = children[i].hi
  BY <1>2
<1> HIDE DEF L, H
<1>4. n >= 1 /\ L[1] = lo /\ H[n] = hi /\ \A i \in 1..n : L[i] < H[i]
  <2>1. 1 \in 1..n /\ n \in 1..n
    BY <1>1
  <2>2. L[1] = lo /\ H[n] = hi
    BY <1>1, <1>3, <2>1
  <2>3. ASSUME NEW i \in 1..n PROVE L[i] < H[i]
    <3>1. /\ children[i].lo < children[i].hi /\ L[i] = children[i].lo /\ H[i] = children[i].hi
          /\ L[i] \in Int /\ H[i] \in Int
      BY <1>1, <1>3, <2>3
    <3> QED BY <3>1
  <2> QED BY <1>1, <2>2, <2>3
<1>5. \A i \in 1..(n - 1) : H[i] = L[i + 1]
  <2> SUFFICES ASSUME NEW i \in 1..(n - 1) PROVE H[i] = L[i + 1]
    OBVIOUS
  <2>1. i \in 1..n /\ i + 1 \in 1..n
    BY <1>1
  <2> QED BY <1>1, <1>3, <2>1
<1>6. /\ \A i, j \in 1..n : i < j => H[i] <= L[j]
      /\ \A k \in Int : L[1] <= k /\ k < H[n] <=> \E i \in 1..n : L[i] <= k /\ k < H[i]
  BY <1>1, <1>3, <1>4, <1>5, AdjacentIntervals
<1>7. \A i, j \in 1..n : i < j => children[i].hi <= children[j].lo
  BY <1>3, <1>6
<1>8. \A k \in Int : InRange(k, lo, hi) <=>
                    \E i \in 1..n : InRange(k, children[i].lo, children[i].hi)
  BY <1>3, <1>4, <1>6 DEF InRange
<1> QED BY <1>8, <1>7 DEF n

\* The list of a record's shards only grows at its end.
LEMMA SpawnedGrows ==
    ASSUME NEW a \in Seq(ShardId), NEW w \in Seq(ShardId)
    PROVE  /\ a \o w \in Seq(ShardId) /\ Len(a \o w) = Len(a) + Len(w)
           /\ DOMAIN (a \o w) = 1..(Len(a) + Len(w))
           /\ \A i \in 1..Len(a) : (a \o w)[i] = a[i]
           /\ \A i \in 1..Len(w) : (a \o w)[Len(a) + i] = w[i]
           /\ \A i \in 1..(Len(a) + Len(w)) : i \in 1..Len(a) \/ i - Len(a) \in 1..Len(w)
BY SMT

\* The last part of a sequence that was extended is the extension.
LEMMA LastPart ==
    ASSUME NEW a \in Seq(ShardId), NEW w \in Seq(ShardId)
    PROVE  SubSeq(a \o w, Len(a \o w) - Len(w) + 1, Len(a \o w)) = w
<1> DEFINE b == a \o w
<1>1. /\ b \in Seq(ShardId) /\ Len(b) = Len(a) + Len(w) /\ Len(a) \in Nat /\ Len(w) \in Nat
      /\ \A i \in 1..Len(w) : b[Len(a) + i] = w[i]
  BY SpawnedGrows
<1> HIDE DEF b
<1>2. Len(b) - Len(w) + 1 = Len(a) + 1
  BY <1>1
<1>3. SubSeq(b, Len(a) + 1, Len(b)) = [i \in 1..Len(w) |-> b[Len(a) + i]]
  BY <1>1
<1>4. w = [i \in 1..Len(w) |-> w[i]]
  OBVIOUS
<1> QED BY <1>1, <1>2, <1>3, <1>4 DEF b

\* Distinct values of a finite list are as many as its places.
LEMMA CountDistinct ==
    ASSUME NEW n \in Nat, NEW f, f \in [1..n -> {f[i] : i \in 1..n}],
           \A i, j \in 1..n : i # j => f[i] # f[j]
    PROVE  Cardinality({f[i] : i \in 1..n}) = n
<1> DEFINE S == {f[i] : i \in 1..n}
<1>1. f \in Bijection(1..n, S)
  BY DEF Bijection, Injection, Surjection, IsInjective
<1>2. ExistsBijection(1..n, S)
  BY <1>1 DEF ExistsBijection
<1> QED BY <1>2, FS_CountingElements

\* A record as FencedShards sees it: without its deadline.
Abs(r) == [r EXCEPT !.deadline = 0]

\* Forgetting the deadline keeps every other field.
LEMMA AbsFields ==
    ASSUME NEW r \in Shard
    PROVE  /\ Abs(r) \in Shard /\ Abs(r).deadline = 0
           /\ Abs(r).status = r.status /\ Abs(r).fence = r.fence /\ Abs(r).owner = r.owner
           /\ Abs(r).cursor = r.cursor /\ Abs(r).lo = r.lo /\ Abs(r).hi = r.hi
           /\ Abs(r).parent = r.parent /\ Abs(r).spawned = r.spawned
           /\ Abs(r).log = r.log /\ Abs(r).reason = r.reason
<1>1. 0 \in 0..MaxTime
  BY BoundsAssumption
<1> QED BY <1>1, ShardFields DEF Abs

\* The log and the release of a lease do not look at the deadline.
LEMMA AbsPush ==
    ASSUME NEW r \in Shard, NEW op, NEW hash
    PROVE  Abs(OpLogPush(r, op, hash)) = OpLogPush(Abs(r), op, hash)
BY ShardFields DEF Abs, OpLogPush

\* Giving up the lease and forgetting the deadline commute.
LEMMA AbsReleased ==
    ASSUME NEW r \in Shard
    PROVE  Abs(Released(r)) = Released(Abs(r))
BY ShardFields DEF Abs, Released

\* A new record has no deadline to forget.
LEMMA AbsNew ==
    ASSUME NEW lo, NEW hi, NEW cursor, NEW parent
    PROVE  Abs(NewShard(lo, hi, cursor, parent)) = NewShard(lo, hi, cursor, parent)
BY DEF Abs, NewShard

-----------------------------------------------------------------------------
(* What the operations of a lease holder write                             *)

\* The records an operation of kind on shard s, whose record was r, may write:
\* well formed, the shard's own under the same epoch, and it alone changes
\* owner or status; every other one is a new Active shard.
WrittenSoundly(s, r, kind, p) ==
    /\ s \in DOMAIN p /\ DOMAIN p \subseteq ShardId /\ IsFiniteSet(DOMAIN p)
    /\ p = [x \in DOMAIN p |-> p[x]]
    /\ \A x \in DOMAIN p : ShardOK(p[x])
    /\ p[s].fence = r.fence
    /\ kind \in {"Checkpoint", "SplitResidual"} => p[s].owner = r.owner /\ p[s].status = r.status
    /\ kind \in {"Complete", "Park", "SplitReplace"} => p[s].status # "Active"
    /\ \A x \in DOMAIN p \ {s} : p[x].status = "Active"

\* checkpoint, complete and park write the record of their shard alone.
LEMMA OnePut ==
    ASSUME NEW s \in ShardId, NEW r, NEW kind, NEW q, ShardOK(q), q.fence = r.fence,
           kind \in {"Checkpoint", "SplitResidual"} => q.owner = r.owner /\ q.status = r.status,
           kind \in {"Complete", "Park", "SplitReplace"} => q.status # "Active"
    PROVE  WrittenSoundly(s, r, kind, [x \in {s} |-> q])
<1>1. IsFiniteSet({s})
  BY FS_Singleton
<1> QED BY <1>1 DEF WrittenSoundly

\* checkpoint
LEMMA CheckpointPut ==
    ASSUME NEW r, ShardOK(r), NEW op \in OpId, NEW k \in Cursor,
           CheckOpIdempotency(r, op, <<"Checkpoint", k>>) = "Fresh"
    PROVE  LET q == AfterCheckpoint(r, op, k)
           IN ShardOK(q) /\ q.fence = r.fence /\ q.owner = r.owner /\ q.status = r.status
<1> DEFINE moved == [r EXCEPT !.cursor = k]
           hash == <<"Checkpoint", k>>
<1>1. r \in Shard /\ hash \in PayloadHash
  BY DEF ShardOK, PayloadHash
<1>2. /\ moved \in Shard /\ moved.log = r.log /\ moved.fence = r.fence /\ moved.status = r.status
      /\ moved.owner = r.owner /\ moved.spawned = r.spawned /\ moved.reason = r.reason
  BY <1>1, ShardFields
<1>3. ShardOK(moved)
  BY <1>2 DEF ShardOK
<1> HIDE DEF moved
<1>4. /\ ShardOK(OpLogPush(moved, op, hash))
      /\ OpLogPush(moved, op, hash).fence = moved.fence
      /\ OpLogPush(moved, op, hash).owner = moved.owner
      /\ OpLogPush(moved, op, hash).status = moved.status
  BY <1>1, <1>2, <1>3, OpLogPushOK
<1> QED BY <1>2, <1>4 DEF AfterCheckpoint, moved

\* complete
LEMMA CompletePut ==
    ASSUME NEW r, ShardOK(r), r.status = "Active", NEW op \in OpId, NEW k \in Cursor,
           CheckOpIdempotency(r, op, <<"Complete", k>>) = "Fresh"
    PROVE  LET q == AfterComplete(r, op, k)
           IN ShardOK(q) /\ q.fence = r.fence /\ q.status = "Done"
<1> DEFINE done == [r EXCEPT !.cursor = k, !.status = "Done"]
           free == Released(done)
           hash == <<"Complete", k>>
<1>1. r \in Shard /\ hash \in PayloadHash
  BY DEF ShardOK, PayloadHash
<1>2. /\ done \in Shard /\ done.log = r.log /\ done.fence = r.fence /\ done.status = "Done"
      /\ done.spawned = r.spawned /\ done.reason = r.reason
  BY <1>1, ShardFields DEF Status
<1>3. (done.status = "Parked") <=> (done.reason # NoReason)
  BY <1>2 DEF ShardOK
<1>4. Len(done.spawned) <= MaxSpawned
  BY <1>2 DEF ShardOK
<1> HIDE DEF done
<1>5. ShardOK(free) /\ free.log = r.log /\ free.fence = r.fence /\ free.status = "Done"
  BY <1>2, <1>3, <1>4, ReleasedOK, ReleasedFields
<1> HIDE DEF free
<1>6. /\ ShardOK(OpLogPush(free, op, hash))
      /\ OpLogPush(free, op, hash).fence = free.fence
      /\ OpLogPush(free, op, hash).status = free.status
  BY <1>1, <1>5, OpLogPushOK
<1> QED BY <1>5, <1>6 DEF AfterComplete, free, done

\* park_shard
LEMMA ParkPut ==
    ASSUME NEW r, ShardOK(r), r.status = "Active", NEW op \in OpId, NEW reason \in Reason,
           CheckOpIdempotency(r, op, <<"Park", reason>>) = "Fresh"
    PROVE  LET q == AfterPark(r, op, reason)
           IN ShardOK(q) /\ q.fence = r.fence /\ q.status = "Parked"
<1> DEFINE parked == [r EXCEPT !.status = "Parked", !.reason = reason]
           free == Released(parked)
           hash == <<"Park", reason>>
<1>1. r \in Shard /\ hash \in PayloadHash
  BY DEF ShardOK, PayloadHash
<1>2. /\ parked \in Shard /\ parked.log = r.log /\ parked.fence = r.fence /\ parked.status = "Parked"
      /\ parked.spawned = r.spawned /\ parked.reason = reason
  BY <1>1, ShardFields DEF Status
<1>3. (parked.status = "Parked") <=> (parked.reason # NoReason)
  BY <1>2, SetsAssumption
<1>4. Len(parked.spawned) <= MaxSpawned
  BY <1>2 DEF ShardOK
<1> HIDE DEF parked
<1>5. ShardOK(free) /\ free.log = r.log /\ free.fence = r.fence /\ free.status = "Parked"
  BY <1>2, <1>3, <1>4, ReleasedOK, ReleasedFields
<1> HIDE DEF free
<1>6. /\ ShardOK(OpLogPush(free, op, hash))
      /\ OpLogPush(free, op, hash).fence = free.fence
      /\ OpLogPush(free, op, hash).status = free.status
  BY <1>1, <1>5, OpLogPushOK
<1> QED BY <1>5, <1>6 DEF AfterPark, free, parked

\* unpark_shard
LEMMA UnparkPut ==
    ASSUME NEW s \in ShardId, NEW r, ShardOK(r), r.status = "Parked", r.fence < MaxFence,
           NEW op \in OpId, CheckOpIdempotency(r, op, <<"Unpark", s>>) = "Fresh"
    PROVE  LET q == AfterUnpark(s, r, op)
           IN ShardOK(q) /\ q.fence = r.fence + 1 /\ q.status = "Active" /\ q.owner = NoWorker
<1> DEFINE opened == [r EXCEPT !.fence = r.fence + 1, !.reason = NoReason, !.status = "Active"]
           free == Released(opened)
           hash == <<"Unpark", s>>
<1>1. r \in Shard /\ hash \in PayloadHash /\ r.fence + 1 \in Fence
  BY BoundsAssumption DEF ShardOK, PayloadHash, Shard, Fence
<1>2. /\ opened \in Shard /\ opened.log = r.log /\ opened.fence = r.fence + 1
      /\ opened.status = "Active" /\ opened.spawned = r.spawned /\ opened.reason = NoReason
  BY <1>1, ShardFields DEF Status
<1>3. (opened.status = "Parked") <=> (opened.reason # NoReason)
  BY <1>2
<1>4. Len(opened.spawned) <= MaxSpawned
  BY <1>2 DEF ShardOK
<1> HIDE DEF opened
<1>5. /\ ShardOK(free) /\ free.log = r.log /\ free.fence = r.fence + 1 /\ free.status = "Active"
      /\ free.owner = NoWorker
  BY <1>2, <1>3, <1>4, ReleasedOK, ReleasedFields
<1> HIDE DEF free
<1>6. /\ ShardOK(OpLogPush(free, op, hash))
      /\ OpLogPush(free, op, hash).fence = free.fence
      /\ OpLogPush(free, op, hash).status = free.status
      /\ OpLogPush(free, op, hash).owner = free.owner
  BY <1>1, <1>5, OpLogPushOK
<1> QED BY <1>5, <1>6 DEF AfterUnpark, free, opened

\* The ids split_replace gives its children are shard ids other than the parent's.
LEMMA ChildIdsType ==
    ASSUME NEW s \in ShardId, NEW r \in Shard, NEW op \in OpId, NEW n \in Nat,
           Len(r.spawned) + n <= MaxSpawned
    PROVE  /\ ChildIds(s, r, op, n) \in [1..n -> ShardId \ {s}]
           /\ ChildIds(s, r, op, n) \in Seq(ShardId) /\ Len(ChildIds(s, r, op, n)) = n
<1>1. r.spawned \in Seq(ShardId) /\ Len(r.spawned) \in Nat
  BY DEF Shard
<1>2. \A i \in 1..n : Len(r.spawned) + i - 1 \in 0..MaxSpawned
  BY <1>1, BoundsAssumption
<1>3. \A i \in 1..n : Derive(s, op, "Child", Len(r.spawned) + i - 1) \in ShardId \ {s}
  BY <1>2, DeriveAssumption
<1>4. ChildIds(s, r, op, n) \in [1..n -> ShardId \ {s}]
  BY <1>3 DEF ChildIds
<1> HIDE DEF ChildIds
<1> QED BY <1>4

\* The parent's record after split_replace.
LEMMA SplitPut ==
    ASSUME NEW r, ShardOK(r), r.status = "Active", NEW op \in OpId, NEW children \in Seq(Child),
           NEW ids \in Seq(ShardId), Len(r.spawned) + Len(ids) <= MaxSpawned,
           CheckOpIdempotency(r, op, <<"SplitReplace", children>>) = "Fresh"
    PROVE  LET q == OpLogPush(Released([r EXCEPT !.spawned = r.spawned \o ids, !.status = "Split"]),
                              op, <<"SplitReplace", children>>)
           IN ShardOK(q) /\ q.fence = r.fence /\ q.status = "Split"
<1> DEFINE closed == [r EXCEPT !.spawned = r.spawned \o ids, !.status = "Split"]
           free == Released(closed)
           hash == <<"SplitReplace", children>>
<1>1. r \in Shard /\ hash \in PayloadHash /\ r.spawned \in Seq(ShardId)
  BY DEF ShardOK, PayloadHash, Shard
<1>2. r.spawned \o ids \in Seq(ShardId) /\ Len(r.spawned \o ids) <= MaxSpawned
  BY <1>1, BoundsAssumption
<1>3. /\ closed \in Shard /\ closed.log = r.log /\ closed.fence = r.fence
      /\ closed.spawned = r.spawned \o ids /\ closed.status = "Split" /\ closed.reason = r.reason
  BY <1>1, <1>2, ShardFields DEF Status
<1>4. (closed.status = "Parked") <=> (closed.reason # NoReason)
  BY <1>3 DEF ShardOK
<1> HIDE DEF closed
<1>5. ShardOK(free) /\ free.log = r.log /\ free.fence = r.fence /\ free.status = "Split"
  BY <1>2, <1>3, <1>4, ReleasedOK, ReleasedFields
<1> HIDE DEF free
<1>6. /\ ShardOK(OpLogPush(free, op, hash))
      /\ OpLogPush(free, op, hash).fence = free.fence
      /\ OpLogPush(free, op, hash).status = free.status
  BY <1>1, <1>5, OpLogPushOK
<1> QED BY <1>5, <1>6 DEF free, closed

\* split_replace writes the parent and as many new shards as it has children,
\* within the limit on shards.
LEMMA SplitReplacePut ==
    ASSUME NEW s \in ShardId, NEW r, ShardOK(r), r.status = "Active", NEW op \in OpId,
           NEW children \in Seq(Child), NEW count \in Nat,
           CheckOpIdempotency(r, op, <<"SplitReplace", children>>) = "Fresh",
           ValidSplitReplace(r, children, count),
           DistinctIds(s, r, op, <<"SplitReplace", children>>)
    PROVE  LET p == SplitReplacePuts(s, r, op, children)
           IN /\ WrittenSoundly(s, r, "SplitReplace", p)
              /\ Cardinality(DOMAIN p) > 1
              /\ count + Cardinality(DOMAIN p) - 1 <= MaxShards
<1> DEFINE n == Len(children)
           ids == ChildIds(s, r, op, n)
           new == {ids[i] : i \in 1..n}
           q == OpLogPush(Released([r EXCEPT !.spawned = r.spawned \o ids, !.status = "Split"]),
                          op, <<"SplitReplace", children>>)
           child(x) == LET c == children[CHOOSE i \in 1..n : ids[i] = x]
                       IN NewShard(c.lo, c.hi, c.cursor, s)
           p == SplitReplacePuts(s, r, op, children)
<1>1. r \in Shard /\ n \in Nat /\ n >= 2 /\ Len(r.spawned) + n <= MaxSpawned /\ count + n <= MaxShards
  BY DEF ShardOK, ValidSplitReplace, ValidSplitCoverage, CanSpawn
<1>2. ids \in [1..n -> ShardId \ {s}] /\ ids \in Seq(ShardId) /\ Len(ids) = n
  BY <1>1, ChildIdsType
<1>3. Cardinality(new) = n
  BY DEF DistinctIds
<1>4. p = [x \in {s} \cup new |-> IF x = s THEN q ELSE child(x)]
  BY DEF SplitReplacePuts
<1>5. ShardOK(q) /\ q.fence = r.fence /\ q.status = "Split"
  <2>1. ids \in Seq(ShardId) /\ Len(r.spawned) + Len(ids) <= MaxSpawned
    BY <1>1, <1>2
  <2> HIDE DEF ids, n
  <2> QED BY <2>1, SplitPut
<1>6. \A x \in new : ShardOK(child(x)) /\ child(x).status = "Active"
  <2> SUFFICES ASSUME NEW x \in new PROVE ShardOK(child(x)) /\ child(x).status = "Active"
    OBVIOUS
  <2> DEFINE j == CHOOSE i \in 1..n : ids[i] = x
  <2>1. j \in 1..n
    OBVIOUS
  <2>2. children[j] \in Child
    BY <1>1, <2>1
  <2> HIDE DEF j
  <2>3. children[j].lo \in Bound /\ children[j].hi \in Bound /\ children[j].cursor \in Cursor
    BY <2>2 DEF Child
  <2>4. child(x) = NewShard(children[j].lo, children[j].hi, children[j].cursor, s)
    BY DEF j
  <2>5. child(x).status = "Active"
    BY <2>4 DEF NewShard
  <2>6. ShardOK(child(x))
    BY <2>3, <2>4, NewShardOK
  <2> QED BY <2>5, <2>6
<1>7. IsFiniteSet(new) /\ s \notin new /\ new \subseteq ShardId
  <2>1. IsFiniteSet(1..n)
    BY <1>1, FS_Interval
  <2>2. ids \in Surjection(1..n, new)
    BY <1>2 DEF Surjection
  <2>3. IsFiniteSet(new)
    BY <2>1, <2>2, FS_Surjection DEF ExistsSurjection
  <2> QED BY <1>2, <2>3
<1> HIDE DEF new, q, child, ids, n
<1>8. IsFiniteSet(new \cup {s}) /\ Cardinality(new \cup {s}) = n + 1
  BY <1>3, <1>7, FS_AddElement
<1>9. DOMAIN p = new \cup {s}
  BY <1>4
<1>10. WrittenSoundly(s, r, "SplitReplace", p)
  <2>1. p[s] = q /\ \A x \in DOMAIN p \ {s} : x \in new /\ p[x] = child(x)
    BY <1>4, <1>9
  <2>2. p = [x \in DOMAIN p |-> p[x]]
    BY <1>4
  <2> HIDE DEF p
  <2> QED BY <1>5, <1>6, <1>7, <1>8, <1>9, <2>1, <2>2 DEF WrittenSoundly
<1>11. Cardinality(DOMAIN p) > 1 /\ count + Cardinality(DOMAIN p) - 1 <= MaxShards
  <2>1. Cardinality(DOMAIN p) = n + 1
    BY <1>8, <1>9
  <2> HIDE DEF p
  <2> QED BY <1>1, <2>1, BoundsAssumption
<1> QED BY <1>10, <1>11

\* split_residual writes the parent, still its holder's, and one new shard,
\* within the limit on shards.
LEMMA SplitResidualPut ==
    ASSUME NEW s \in ShardId, NEW r, ShardOK(r), NEW op \in OpId,
           NEW newParent \in KeyRange, NEW residual \in KeyRange, NEW count \in Nat,
           CheckOpIdempotency(r, op, <<"SplitResidual", <<newParent, residual>>>>) = "Fresh",
           ValidSplitResidual(r, newParent, residual, count)
    PROVE  LET p == SplitResidualPuts(s, r, op, newParent, residual)
           IN /\ WrittenSoundly(s, r, "SplitResidual", p)
              /\ Cardinality(DOMAIN p) > 1
              /\ count + Cardinality(DOMAIN p) - 1 <= MaxShards
<1> DEFINE id == Derive(s, op, "Residual", Len(r.spawned))
           hash == <<"SplitResidual", <<newParent, residual>>>>
           shrunk == [r EXCEPT !.lo = newParent.lo, !.hi = newParent.hi,
                               !.spawned = Append(r.spawned, id)]
           q == OpLogPush(shrunk, op, hash)
           new == NewShard(residual.lo, residual.hi, NoKey, s)
           p == SplitResidualPuts(s, r, op, newParent, residual)
<1>1. /\ r \in Shard /\ r.spawned \in Seq(ShardId) /\ Len(r.spawned) \in Nat
      /\ hash \in PayloadHash
      /\ Len(r.spawned) + 1 <= MaxSpawned /\ count + 1 <= MaxShards
  BY DEF ShardOK, ValidSplitResidual, CanSpawn, Shard, PayloadHash
<1>2. id \in ShardId \ {s}
  <2>1. Len(r.spawned) \in 0..MaxSpawned
    BY <1>1, BoundsAssumption
  <2> QED BY <2>1, DeriveAssumption
<1>3. p = [x \in {s, id} |-> IF x = s THEN q ELSE new]
  BY DEF SplitResidualPuts
<1>4. /\ newParent.lo \in Bound /\ newParent.hi \in Bound
      /\ residual.lo \in Bound /\ residual.hi \in Bound /\ NoKey \in Cursor
  BY BoundsAssumption DEF KeyRange, NoKey, Cursor
<1>5. ShardOK(new) /\ new.status = "Active"
  <2>1. new.status = "Active"
    BY DEF NewShard
  <2> QED BY <2>1, <1>4, NewShardOK
<1> HIDE DEF id, new, hash
<1>6. Append(r.spawned, id) \in Seq(ShardId) /\ Len(Append(r.spawned, id)) <= MaxSpawned
  BY <1>1, <1>2, BoundsAssumption
<1>7. /\ shrunk \in Shard /\ shrunk.status = r.status /\ shrunk.log = r.log
      /\ shrunk.spawned = Append(r.spawned, id) /\ shrunk.reason = r.reason
      /\ shrunk.fence = r.fence /\ shrunk.owner = r.owner
  BY <1>1, <1>4, <1>6, ShardFields
<1>8. ShardOK(shrunk)
  BY <1>6, <1>7 DEF ShardOK
<1> HIDE DEF shrunk
<1>9. ShardOK(q) /\ q.fence = r.fence /\ q.owner = r.owner /\ q.status = r.status
  <2>1. CheckOpIdempotency(r, op, hash) = "Fresh"
    BY DEF hash
  <2> QED BY <1>1, <1>7, <1>8, <2>1, OpLogPushOK
<1> HIDE DEF q
<1>10. IsFiniteSet({s, id}) /\ Cardinality({s, id}) = 2
  <2>1. IsFiniteSet({id}) /\ Cardinality({id}) = 1
    BY FS_Singleton
  <2>2. IsFiniteSet({id} \cup {s}) /\ Cardinality({id} \cup {s}) = 2
    BY <1>2, <2>1, FS_AddElement
  <2>3. {id} \cup {s} = {s, id}
    OBVIOUS
  <2> QED BY <2>2, <2>3
<1>11. /\ DOMAIN p = {s, id} /\ p[s] = q /\ \A x \in DOMAIN p \ {s} : p[x] = new
       /\ p = [x \in DOMAIN p |-> p[x]]
  BY <1>3
<1> HIDE DEF p
<1>12. WrittenSoundly(s, r, "SplitResidual", p)
  BY <1>2, <1>5, <1>9, <1>10, <1>11 DEF WrittenSoundly
<1>13. Cardinality(DOMAIN p) > 1 /\ count + Cardinality(DOMAIN p) - 1 <= MaxShards
  BY <1>1, <1>10, <1>11, BoundsAssumption
<1> QED BY <1>12, <1>13 DEF p

\* The operations a lease holder may request, and their payloads.
LEMMA RequestKinds ==
    ASSUME NEW req \in LeaseRequests
    PROVE  \/ req[1] = "Checkpoint" /\ req[2] \in Cursor /\ req = <<"Checkpoint", req[2]>>
           \/ req[1] = "Complete" /\ req[2] \in Cursor /\ req = <<"Complete", req[2]>>
           \/ req[1] = "Park" /\ req[2] \in Reason /\ req = <<"Park", req[2]>>
           \/ req[1] = "SplitReplace" /\ req[2] \in Seq(Child) /\ req = <<"SplitReplace", req[2]>>
           \/ /\ req[1] = "SplitResidual" /\ req[2][1] \in KeyRange /\ req[2][2] \in KeyRange
              /\ req = <<"SplitResidual", <<req[2][1], req[2][2]>>>>
<1>1. CASE req \in {"Checkpoint", "Complete"} \X Cursor
  BY <1>1
<1>2. CASE req \in {"Park"} \X Reason
  BY <1>2
<1>3. ASSUME NEW cut \in Cuts(MaxChildren), NEW cursor \in Cursor, NEW inherit \in BOOLEAN,
             req = <<"SplitReplace", PlannedChildren(cut, cursor, inherit)>>
      PROVE  req[1] = "SplitReplace" /\ req[2] \in Seq(Child) /\ req = <<"SplitReplace", req[2]>>
  <2>1. PlannedChildren(cut, cursor, inherit) \in Seq(Child)
    BY BoundsAssumption, PlannedChildrenType
  <2> QED BY <1>3, <2>1
<1>4. ASSUME NEW cut \in Cuts(2),
             req = <<"SplitResidual", <<[lo |-> cut[1], hi |-> cut[2]], [lo |-> cut[2], hi |-> cut[3]]>>>>
      PROVE  /\ req[1] = "SplitResidual" /\ req[2][1] \in KeyRange /\ req[2][2] \in KeyRange
             /\ req = <<"SplitResidual", <<req[2][1], req[2][2]>>>>
  <2>1. PICK m \in 2..2 : cut \in [1..(m + 1) -> Bound]
    BY CutsType
  <2>2. cut[1] \in Bound /\ cut[2] \in Bound /\ cut[3] \in Bound
    BY <2>1
  <2> QED BY <1>4, <2>2 DEF KeyRange
<1> QED BY <1>1, <1>2, <1>3, <1>4 DEF LeaseRequests

\* Every operation of a lease holder writes soundly; the splits, and they
\* alone, make shards, and no more than the limit allows.
LEMMA PutsSound ==
    ASSUME NEW s \in ShardId, NEW r, ShardOK(r), r.status = "Active", NEW op \in OpId,
           NEW req \in LeaseRequests, NEW count \in Nat,
           IsFresh(s, r, op, req), Permitted(r, req, count), DistinctIds(s, r, op, req)
    PROVE  /\ WrittenSoundly(s, r, req[1], Puts(s, r, op, req))
           /\ req[1] \in {"Checkpoint", "Complete", "Park"} => DOMAIN Puts(s, r, op, req) = {s}
           /\ req[1] \in {"SplitReplace", "SplitResidual"} =>
                 /\ Cardinality(DOMAIN Puts(s, r, op, req)) > 1
                 /\ count + Cardinality(DOMAIN Puts(s, r, op, req)) - 1 <= MaxShards
<1>1. CheckOpIdempotency(r, op, req) = "Fresh"
  BY DEF IsFresh
<1>2. CASE req[1] = "Checkpoint" /\ req[2] \in Cursor /\ req = <<"Checkpoint", req[2]>>
  <2>1. Puts(s, r, op, req) = [x \in {s} |-> AfterCheckpoint(r, op, req[2])]
    BY <1>2 DEF Puts
  <2>2. CheckOpIdempotency(r, op, <<"Checkpoint", req[2]>>) = "Fresh"
    BY <1>1, <1>2
  <2>3. LET q == AfterCheckpoint(r, op, req[2])
        IN ShardOK(q) /\ q.fence = r.fence /\ q.owner = r.owner /\ q.status = r.status
    BY <1>2, <2>2, CheckpointPut
  <2>4. WrittenSoundly(s, r, "Checkpoint", [x \in {s} |-> AfterCheckpoint(r, op, req[2])])
    BY <2>3, OnePut
  <2> QED BY <1>2, <2>1, <2>4
<1>3. CASE req[1] = "Complete" /\ req[2] \in Cursor /\ req = <<"Complete", req[2]>>
  <2>1. Puts(s, r, op, req) = [x \in {s} |-> AfterComplete(r, op, req[2])]
    BY <1>3 DEF Puts
  <2>2. CheckOpIdempotency(r, op, <<"Complete", req[2]>>) = "Fresh"
    BY <1>1, <1>3
  <2>3. LET q == AfterComplete(r, op, req[2])
        IN ShardOK(q) /\ q.fence = r.fence /\ q.status = "Done"
    BY <1>3, <2>2, CompletePut
  <2>4. WrittenSoundly(s, r, "Complete", [x \in {s} |-> AfterComplete(r, op, req[2])])
    BY <2>3, OnePut
  <2> QED BY <1>3, <2>1, <2>4
<1>4. CASE req[1] = "Park" /\ req[2] \in Reason /\ req = <<"Park", req[2]>>
  <2>1. Puts(s, r, op, req) = [x \in {s} |-> AfterPark(r, op, req[2])]
    BY <1>4 DEF Puts
  <2>2. CheckOpIdempotency(r, op, <<"Park", req[2]>>) = "Fresh"
    BY <1>1, <1>4
  <2>3. LET q == AfterPark(r, op, req[2])
        IN ShardOK(q) /\ q.fence = r.fence /\ q.status = "Parked"
    BY <1>4, <2>2, ParkPut
  <2>4. WrittenSoundly(s, r, "Park", [x \in {s} |-> AfterPark(r, op, req[2])])
    BY <2>3, OnePut
  <2> QED BY <1>4, <2>1, <2>4
<1>5. CASE req[1] = "SplitReplace" /\ req[2] \in Seq(Child) /\ req = <<"SplitReplace", req[2]>>
  <2>1. Puts(s, r, op, req) = SplitReplacePuts(s, r, op, req[2])
    BY <1>5 DEF Puts
  <2>2. ValidSplitReplace(r, req[2], count)
    BY <1>5 DEF Permitted
  <2>3. /\ CheckOpIdempotency(r, op, <<"SplitReplace", req[2]>>) = "Fresh"
        /\ DistinctIds(s, r, op, <<"SplitReplace", req[2]>>)
    BY <1>1, <1>5
  <2>4. LET p == SplitReplacePuts(s, r, op, req[2])
        IN /\ WrittenSoundly(s, r, "SplitReplace", p)
           /\ Cardinality(DOMAIN p) > 1
           /\ count + Cardinality(DOMAIN p) - 1 <= MaxShards
    BY <1>5, <2>2, <2>3, SplitReplacePut
  <2> QED BY <1>5, <2>1, <2>4
<1>6. CASE /\ req[1] = "SplitResidual" /\ req[2][1] \in KeyRange /\ req[2][2] \in KeyRange
           /\ req = <<"SplitResidual", <<req[2][1], req[2][2]>>>>
  <2>1. Puts(s, r, op, req) = SplitResidualPuts(s, r, op, req[2][1], req[2][2])
    BY <1>6 DEF Puts
  <2>2. ValidSplitResidual(r, req[2][1], req[2][2], count)
    BY <1>6 DEF Permitted
  <2>3. CheckOpIdempotency(r, op, <<"SplitResidual", <<req[2][1], req[2][2]>>>>) = "Fresh"
    BY <1>1, <1>6
  <2>4. LET p == SplitResidualPuts(s, r, op, req[2][1], req[2][2])
        IN /\ WrittenSoundly(s, r, "SplitResidual", p)
           /\ Cardinality(DOMAIN p) > 1
           /\ count + Cardinality(DOMAIN p) - 1 <= MaxShards
    BY <1>6, <2>2, <2>3, SplitResidualPut
  <2> QED BY <1>6, <2>1, <2>4
<1> QED BY <1>2, <1>3, <1>4, <1>5, <1>6, RequestKinds

-----------------------------------------------------------------------------
(* None of the operations looks at the deadline of the record              *)

\* The checks of a request.
LEMMA AbsChecks ==
    ASSUME NEW s, NEW r \in Shard, NEW op, NEW req, NEW count
    PROVE  /\ CheckOpIdempotency(Abs(r), op, req) = CheckOpIdempotency(r, op, req)
           /\ IsFresh(s, Abs(r), op, req) <=> IsFresh(s, r, op, req)
           /\ Permitted(r, req, count) => Permitted(Abs(r), req, count)
           /\ DistinctIds(s, Abs(r), op, req) <=> DistinctIds(s, r, op, req)
<1>1. CheckOpIdempotency(Abs(r), op, req) = CheckOpIdempotency(r, op, req)
  BY AbsFields DEF CheckOpIdempotency, OpLogEntries
<1>2. ReplayedResiduals(s, Abs(r), op) = ReplayedResiduals(s, r, op)
  BY AbsFields DEF ReplayedResiduals
<1>3. Permitted(r, req, count) => Permitted(Abs(r), req, count)
  BY AbsFields DEF Permitted, ValidCursorUpdate, ValidSplitReplace, ValidSplitResidual, CanSpawn
<1>4. \A n : ChildIds(s, Abs(r), op, n) = ChildIds(s, r, op, n)
  BY AbsFields DEF ChildIds
<1>5. DistinctIds(s, Abs(r), op, req) <=> DistinctIds(s, r, op, req)
  <2>1. ChildIds(s, Abs(r), op, Len(req[2])) = ChildIds(s, r, op, Len(req[2]))
    BY <1>4
  <2> QED BY <2>1 DEF DistinctIds
<1>6. IsFresh(s, Abs(r), op, req) <=> IsFresh(s, r, op, req)
  BY <1>1, <1>2 DEF IsFresh
<1> QED BY <1>1, <1>3, <1>5, <1>6

\* What checkpoint writes.
LEMMA AbsCheckpoint ==
    ASSUME NEW r \in Shard, NEW op, NEW k \in Cursor
    PROVE  AfterCheckpoint(Abs(r), op, k) = Abs(AfterCheckpoint(r, op, k))
<1> DEFINE p == [r EXCEPT !.cursor = k]
<1>1. p \in Shard /\ Abs(p) = [Abs(r) EXCEPT !.cursor = k]
  BY ShardFields DEF Abs
<1> HIDE DEF p
<1>2. Abs(OpLogPush(p, op, <<"Checkpoint", k>>)) = OpLogPush(Abs(p), op, <<"Checkpoint", k>>)
  BY <1>1, AbsPush
<1> QED BY <1>1, <1>2 DEF AfterCheckpoint, p

\* What complete writes.
LEMMA AbsComplete ==
    ASSUME NEW r \in Shard, NEW op, NEW k \in Cursor
    PROVE  AfterComplete(Abs(r), op, k) = Abs(AfterComplete(r, op, k))
<1> DEFINE p == [r EXCEPT !.cursor = k, !.status = "Done"]
<1>1. p \in Shard /\ Abs(p) = [Abs(r) EXCEPT !.cursor = k, !.status = "Done"]
  BY ShardFields DEF Abs, Status
<1> HIDE DEF p
<1>2. Released(p) \in Shard /\ Abs(Released(p)) = Released(Abs(p))
  BY <1>1, ReleasedFields, AbsReleased
<1>3. Abs(OpLogPush(Released(p), op, <<"Complete", k>>)) =
          OpLogPush(Released(Abs(p)), op, <<"Complete", k>>)
  BY <1>2, AbsPush
<1> QED BY <1>1, <1>3 DEF AfterComplete, p

\* What park_shard writes.
LEMMA AbsPark ==
    ASSUME NEW r \in Shard, NEW op, NEW reason \in Reason
    PROVE  AfterPark(Abs(r), op, reason) = Abs(AfterPark(r, op, reason))
<1> DEFINE p == [r EXCEPT !.status = "Parked", !.reason = reason]
<1>1. p \in Shard /\ Abs(p) = [Abs(r) EXCEPT !.status = "Parked", !.reason = reason]
  BY ShardFields DEF Abs, Status
<1> HIDE DEF p
<1>2. Released(p) \in Shard /\ Abs(Released(p)) = Released(Abs(p))
  BY <1>1, ReleasedFields, AbsReleased
<1>3. Abs(OpLogPush(Released(p), op, <<"Park", reason>>)) =
          OpLogPush(Released(Abs(p)), op, <<"Park", reason>>)
  BY <1>2, AbsPush
<1> QED BY <1>1, <1>3 DEF AfterPark, p

\* What unpark_shard writes.
LEMMA AbsUnpark ==
    ASSUME NEW s, NEW r \in Shard, NEW op, r.fence < MaxFence
    PROVE  AfterUnpark(s, Abs(r), op) = Abs(AfterUnpark(s, r, op))
<1> DEFINE p == [r EXCEPT !.fence = r.fence + 1, !.reason = NoReason, !.status = "Active"]
<1>1. r.fence + 1 \in Fence /\ Abs(r).fence = r.fence
  <2>1. Abs(r).fence = r.fence
    BY AbsFields
  <2> QED BY <2>1, BoundsAssumption DEF Shard, Fence
<1>2. /\ p \in Shard
      /\ Abs(p) = [Abs(r) EXCEPT !.fence = r.fence + 1, !.reason = NoReason, !.status = "Active"]
  BY <1>1, ShardFields DEF Abs, Status
<1> HIDE DEF p
<1>3. Released(p) \in Shard /\ Abs(Released(p)) = Released(Abs(p))
  BY <1>2, ReleasedFields, AbsReleased
<1>4. Abs(OpLogPush(Released(p), op, <<"Unpark", s>>)) =
          OpLogPush(Released(Abs(p)), op, <<"Unpark", s>>)
  BY <1>3, AbsPush
<1> QED BY <1>1, <1>2, <1>4 DEF AfterUnpark, p

\* What split_replace writes.
LEMMA AbsReplace ==
    ASSUME NEW s \in ShardId, NEW r \in Shard, NEW op \in OpId, NEW children \in Seq(Child),
           Len(r.spawned) + Len(children) <= MaxSpawned
    PROVE  LET p == SplitReplacePuts(s, r, op, children)
           IN SplitReplacePuts(s, Abs(r), op, children) = [x \in DOMAIN p |-> Abs(p[x])]
<1> DEFINE n == Len(children)
           ids == ChildIds(s, r, op, n)
           closed == [r EXCEPT !.spawned = r.spawned \o ids, !.status = "Split"]
           hash == <<"SplitReplace", children>>
           q == OpLogPush(Released(closed), op, hash)
           child(x) == LET c == children[CHOOSE i \in 1..n : ids[i] = x]
                       IN NewShard(c.lo, c.hi, c.cursor, s)
           p == SplitReplacePuts(s, r, op, children)
           dom == {s} \cup {ids[i] : i \in 1..n}
<1>1. n \in Nat
  OBVIOUS
<1>2. ids \in Seq(ShardId) /\ ChildIds(s, Abs(r), op, n) = ids /\ Abs(r).spawned = r.spawned
  <2>1. ids \in Seq(ShardId)
    BY <1>1, ChildIdsType
  <2>2. Abs(r).spawned = r.spawned
    BY AbsFields
  <2> QED BY <2>1, <2>2 DEF ChildIds
<1>3. p = [x \in dom |-> IF x = s THEN q ELSE child(x)]
  BY DEF SplitReplacePuts
<1>4. SplitReplacePuts(s, Abs(r), op, children) =
        [x \in dom |-> IF x = s
            THEN OpLogPush(Released([Abs(r) EXCEPT !.spawned = r.spawned \o ids, !.status = "Split"]),
                           op, hash)
            ELSE child(x)]
  BY <1>2 DEF SplitReplacePuts
<1>5. r.spawned \o ids \in Seq(ShardId)
  <2>1. r.spawned \in Seq(ShardId)
    BY DEF Shard
  <2> HIDE DEF ids
  <2> QED BY <1>2, <2>1
<1>6. closed \in Shard /\ Abs(closed) = [Abs(r) EXCEPT !.spawned = r.spawned \o ids, !.status = "Split"]
  <2> HIDE DEF ids
  <2> QED BY <1>5, ShardFields DEF Abs, Status
<1> HIDE DEF closed, hash
<1>7. Released(closed) \in Shard /\ Abs(Released(closed)) = Released(Abs(closed))
  BY <1>6, ReleasedFields, AbsReleased
<1>8. Abs(q) = OpLogPush(Released(Abs(closed)), op, hash)
  BY <1>7, AbsPush
<1>9. \A x \in dom : Abs(child(x)) = child(x)
  BY AbsNew
<1> HIDE DEF q, child, ids, n, dom
<1>10. DOMAIN p = dom /\ p[s] = q /\ \A x \in dom \ {s} : p[x] = child(x)
  BY <1>3 DEF dom
<1> HIDE DEF p
<1>11. [x \in DOMAIN p |-> Abs(p[x])] = [x \in dom |-> IF x = s THEN Abs(q) ELSE child(x)]
  BY <1>9, <1>10
<1> QED BY <1>4, <1>6, <1>8, <1>11 DEF p

\* What split_residual writes.
LEMMA AbsResidual ==
    ASSUME NEW s \in ShardId, NEW r \in Shard, NEW op \in OpId,
           NEW newParent \in KeyRange, NEW residual \in KeyRange,
           Len(r.spawned) + 1 <= MaxSpawned
    PROVE  LET p == SplitResidualPuts(s, r, op, newParent, residual)
           IN SplitResidualPuts(s, Abs(r), op, newParent, residual) = [x \in DOMAIN p |-> Abs(p[x])]
<1> DEFINE id == Derive(s, op, "Residual", Len(r.spawned))
           hash == <<"SplitResidual", <<newParent, residual>>>>
           shrunk == [r EXCEPT !.lo = newParent.lo, !.hi = newParent.hi,
                               !.spawned = Append(r.spawned, id)]
           q == OpLogPush(shrunk, op, hash)
           new == NewShard(residual.lo, residual.hi, NoKey, s)
           p == SplitResidualPuts(s, r, op, newParent, residual)
<1>1. r.spawned \in Seq(ShardId) /\ Len(r.spawned) \in Nat /\ Abs(r).spawned = r.spawned
  <2>1. Abs(r).spawned = r.spawned
    BY AbsFields
  <2> QED BY <2>1 DEF Shard
<1>2. id \in ShardId
  <2>1. Len(r.spawned) \in 0..MaxSpawned
    BY <1>1, BoundsAssumption
  <2> QED BY <2>1, DeriveAssumption
<1>3. p = [x \in {s, id} |-> IF x = s THEN q ELSE new]
  BY DEF SplitResidualPuts
<1>4. SplitResidualPuts(s, Abs(r), op, newParent, residual) =
        [x \in {s, id} |-> IF x = s
            THEN OpLogPush([Abs(r) EXCEPT !.lo = newParent.lo, !.hi = newParent.hi,
                                          !.spawned = Append(r.spawned, id)], op, hash)
            ELSE new]
  BY <1>1 DEF SplitResidualPuts
<1>5. Abs(new) = new
  BY AbsNew
<1> HIDE DEF id, new, hash
<1>6. newParent.lo \in Bound /\ newParent.hi \in Bound /\ Append(r.spawned, id) \in Seq(ShardId)
  BY <1>1, <1>2 DEF KeyRange
<1>7. /\ shrunk \in Shard
      /\ Abs(shrunk) = [Abs(r) EXCEPT !.lo = newParent.lo, !.hi = newParent.hi,
                                      !.spawned = Append(r.spawned, id)]
  BY <1>6, ShardFields DEF Abs
<1> HIDE DEF shrunk
<1>8. Abs(q) = OpLogPush(Abs(shrunk), op, hash)
  BY <1>7, AbsPush
<1> HIDE DEF q
<1>9. [x \in DOMAIN p |-> Abs(p[x])] = [x \in {s, id} |-> IF x = s THEN Abs(q) ELSE new]
  BY <1>3, <1>5
<1> QED BY <1>4, <1>7, <1>8, <1>9

\* What any operation of a lease holder writes.
LEMMA AbsPuts ==
    ASSUME NEW s \in ShardId, NEW r \in Shard, NEW op \in OpId, NEW req \in LeaseRequests,
           NEW count, Permitted(r, req, count)
    PROVE  Puts(s, Abs(r), op, req) =
               [x \in DOMAIN Puts(s, r, op, req) |-> Abs(Puts(s, r, op, req)[x])]
<1>1. CASE req[1] = "Checkpoint" /\ req[2] \in Cursor
  <2>1. /\ Puts(s, r, op, req) = [x \in {s} |-> AfterCheckpoint(r, op, req[2])]
        /\ Puts(s, Abs(r), op, req) = [x \in {s} |-> AfterCheckpoint(Abs(r), op, req[2])]
    BY <1>1 DEF Puts
  <2> QED BY <1>1, <2>1, AbsCheckpoint
<1>2. CASE req[1] = "Complete" /\ req[2] \in Cursor
  <2>1. /\ Puts(s, r, op, req) = [x \in {s} |-> AfterComplete(r, op, req[2])]
        /\ Puts(s, Abs(r), op, req) = [x \in {s} |-> AfterComplete(Abs(r), op, req[2])]
    BY <1>2 DEF Puts
  <2> QED BY <1>2, <2>1, AbsComplete
<1>3. CASE req[1] = "Park" /\ req[2] \in Reason
  <2>1. /\ Puts(s, r, op, req) = [x \in {s} |-> AfterPark(r, op, req[2])]
        /\ Puts(s, Abs(r), op, req) = [x \in {s} |-> AfterPark(Abs(r), op, req[2])]
    BY <1>3 DEF Puts
  <2> QED BY <1>3, <2>1, AbsPark
<1>4. CASE req[1] = "SplitReplace" /\ req[2] \in Seq(Child)
  <2>1. /\ Puts(s, r, op, req) = SplitReplacePuts(s, r, op, req[2])
        /\ Puts(s, Abs(r), op, req) = SplitReplacePuts(s, Abs(r), op, req[2])
    BY <1>4 DEF Puts
  <2>2. Len(r.spawned) + Len(req[2]) <= MaxSpawned
    BY <1>4 DEF Permitted, ValidSplitReplace, CanSpawn
  <2> DEFINE p == SplitReplacePuts(s, r, op, req[2])
  <2>3. SplitReplacePuts(s, Abs(r), op, req[2]) = [x \in DOMAIN p |-> Abs(p[x])]
    BY <1>4, <2>2, AbsReplace
  <2> QED BY <2>1, <2>3
<1>5. CASE req[1] = "SplitResidual" /\ req[2][1] \in KeyRange /\ req[2][2] \in KeyRange
  <2>1. /\ Puts(s, r, op, req) = SplitResidualPuts(s, r, op, req[2][1], req[2][2])
        /\ Puts(s, Abs(r), op, req) = SplitResidualPuts(s, Abs(r), op, req[2][1], req[2][2])
    BY <1>5 DEF Puts
  <2>2. Len(r.spawned) + 1 <= MaxSpawned
    BY <1>5 DEF Permitted, ValidSplitResidual, CanSpawn
  <2> QED BY <1>5, <2>1, <2>2, AbsResidual
<1> QED BY <1>1, <1>2, <1>3, <1>4, <1>5, RequestKinds
=============================================================================

------------------------ MODULE RunManagementProofs ------------------------
(***************************************************************************)
(* Machine-checked proofs about RunManagement, for every manifest, every   *)
(* cooldown and every bound of ShardCoordination.                          *)
(***************************************************************************)
EXTENDS RunManagement, ShardCoordinationProofs

-----------------------------------------------------------------------------
(* The shards of a run                                                     *)

\* A valid manifest is finite: its ranges start at different keys.
LEMMA ManifestFinite == IsFiniteSet(DOMAIN Manifest)
<1> DEFINE f == [s \in DOMAIN Manifest |-> Manifest[s].lo]
<1>1. \A s \in DOMAIN Manifest : /\ Manifest[s].lo \in Bound /\ Manifest[s].lo \in Int
                                 /\ Manifest[s].hi \in Int /\ Manifest[s].lo < Manifest[s].hi
  BY ManifestAssumption DEF Child, Bound, ValidManifest
<1>2. \A s, t \in DOMAIN Manifest : s # t =>
         Manifest[s].hi <= Manifest[t].lo \/ Manifest[t].hi <= Manifest[s].lo
  BY ManifestAssumption DEF ValidManifest
<1>3. \A s, t \in DOMAIN Manifest : s # t => Manifest[s].lo # Manifest[t].lo
  BY <1>1, <1>2
<1>4. f \in Injection(DOMAIN Manifest, Bound)
  BY <1>1, <1>3 DEF Injection, IsInjective
<1>5. IsFiniteSet(Bound)
  BY FS_Interval, BoundsAssumption DEF Bound
<1> QED BY <1>4, <1>5, FS_Injection

\* What changes a record finds a shard that is open: Active or, for
\* unpark_shard alone, Parked.
LEMMA OpenShardNeeded ==
    ASSUME Inv
    PROVE  /\ \A w \in Worker, s \in DOMAIN shards : Acquire(w, s) => shards[s].status = "Active"
           /\ \A lease \in grants : Renew(lease) =>
                 lease.shard \in DOMAIN shards /\ shards[lease.shard].status = "Active"
           /\ \A lease \in grants, op \in OpId : LeaseOp(lease, op) =>
                 lease.shard \in DOMAIN shards /\ shards[lease.shard].status = "Active"
           /\ \A s \in DOMAIN shards, op \in OpId : Unpark(s, op) => shards[s].status = "Parked"
<1>1. \A w \in Worker, s \in DOMAIN shards : Acquire(w, s) => shards[s].status = "Active"
  BY DEF Acquire
<1>2. \A s \in DOMAIN shards, op \in OpId : Unpark(s, op) => shards[s].status = "Parked"
  BY DEF Unpark, UnparkOutcome, CheckOpIdempotency
<1>3. ASSUME NEW lease \in grants, ValidLease(shards[lease.shard], lease, now)
      PROVE  lease.shard \in DOMAIN shards /\ shards[lease.shard].status = "Active"
  BY <1>3, GrantedShard DEF ValidLease, IsTerminal, Shard, Status
<1>4. \A lease \in grants : Renew(lease) => ValidLease(shards[lease.shard], lease, now)
  BY DEF Renew
<1>5. ASSUME NEW lease \in grants, NEW op \in OpId, LeaseOp(lease, op)
      PROVE  ValidLease(shards[lease.shard], lease, now)
  <2>1. ASSUME NEW k, Checkpoint(lease, op, k) \/ Complete(lease, op, k)
        PROVE  ValidLease(shards[lease.shard], lease, now)
    <3>1. ValidCursorUpdate(shards[lease.shard], k) \in BOOLEAN
      BY DEF ValidCursorUpdate
    <3> QED BY <2>1, <3>1, ExecutedMeans DEF Checkpoint, Complete
  <2>2. ASSUME NEW reason, Park(lease, op, reason)
        PROVE  ValidLease(shards[lease.shard], lease, now)
    BY <2>2, ExecutedMeans DEF Park
  <2>3. ASSUME NEW c, SplitReplace(lease, op, c)
        PROVE  ValidLease(shards[lease.shard], lease, now)
    <3>1. ValidSplitReplace(shards[lease.shard], c, Cardinality(DOMAIN shards)) \in BOOLEAN
      BY DEF ValidSplitReplace
    <3> QED BY <2>3, <3>1, ExecutedMeans DEF SplitReplace
  <2>4. ASSUME NEW a, NEW b, SplitResidual(lease, op, a, b)
        PROVE  ValidLease(shards[lease.shard], lease, now)
    <3>1. ValidSplitResidual(shards[lease.shard], a, b, Cardinality(DOMAIN shards)) \in BOOLEAN
      BY DEF ValidSplitResidual
    <3> QED BY <2>4, <3>1, ExecutedMeans DEF SplitResidual
  <2>5. ASSUME NEW c, SplitReplaceFails(lease, op, c)
        PROVE  ValidLease(shards[lease.shard], lease, now)
    BY <2>5, FailedSplitRestores
  <2> QED BY <1>5, <2>1, <2>2, <2>3, <2>4, <2>5 DEF LeaseOp
<1> QED BY <1>1, <1>2, <1>3, <1>4, <1>5

\* A split makes finitely many shards.
LEMMA ShardsStayFinite ==
    ASSUME Inv, [Next]_vars, IsFiniteSet(DOMAIN shards)
    PROVE  IsFiniteSet(DOMAIN shards') /\ DOMAIN shards \subseteq DOMAIN shards'
<1>1. DOMAIN shards \subseteq DOMAIN shards'
  BY RecordsMoveOn DEF MovesOn
<1>2. CASE shards' = shards
  BY <1>2
<1>3. ASSUME NEW s, NEW q, Rewritten(s, q)
      PROVE  IsFiniteSet(DOMAIN shards')
  <2>1. DOMAIN shards' = DOMAIN shards
    BY <1>3 DEF Rewritten
  <2> QED BY <2>1
<1>4. ASSUME NEW s, NEW op, NEW children, NEW ids, NEW q, Replaced(s, op, children, ids, q)
      PROVE  IsFiniteSet(DOMAIN shards')
  <2> DEFINE new == {ids[i] : i \in 1..Len(children)}
  <2>1. DOMAIN shards' = DOMAIN shards \cup new /\ Len(children) \in Nat
        /\ ids \in [1..Len(children) -> ShardId]
    BY <1>4 DEF Replaced
  <2>2. ids \in Surjection(1..Len(children), new)
    BY <2>1 DEF Surjection
  <2>3. IsFiniteSet(1..Len(children))
    BY <2>1, FS_Interval
  <2>4. IsFiniteSet(new)
    BY <2>2, <2>3, FS_Surjection
  <2> QED BY <2>1, <2>4, FS_Union
<1>5. ASSUME NEW s, NEW op, NEW a, NEW b, NEW id, NEW q, Carved(s, op, a, b, id, q)
      PROVE  IsFiniteSet(DOMAIN shards')
  <2>1. DOMAIN shards' = DOMAIN shards \cup {id}
    BY <1>5 DEF Carved
  <2> QED BY <2>1, FS_AddElement
<1> QED BY <1>1, <1>2, <1>3, <1>4, <1>5, NextShapes

-----------------------------------------------------------------------------
(* The inductive invariant                                                 *)

\* The run's record through its life.  Registration is the first thing in its
\* log and at most one end follows it, so nothing is ever evicted; before it
\* there are no shards, after it the roots are those of the manifest.
RunShape ==
    /\ run \in [status : RunStatus, roots : SUBSET ShardId, completedAt : 0..MaxTime,
                log : Seq([op : OpId, hash : RunPayload])]
    /\ claims \in [Worker -> 0..MaxTime]
    /\ IsFiniteSet(DOMAIN shards)
    /\ run.roots = {} => DOMAIN shards = {}
    /\ run.roots # {} => /\ run.roots = DOMAIN Manifest /\ run.roots \subseteq DOMAIN shards
                         /\ Len(run.log) >= 1
                         /\ run.log[1].hash = <<"RegisterShards", Manifest>>
    /\ run.status \in {"Absent", "Initializing"} => run.roots = {} /\ run.log = <<>>
    /\ run.status = "Active" => run.roots # {} /\ Len(run.log) = 1
    /\ run.status \in {"Done", "Failed"} => run.roots # {}
    /\ run.status \in RunEnds <=> run.completedAt # 0
    /\ Len(run.log) <= 2
    /\ \A i, j \in DOMAIN run.log : run.log[i].op = run.log[j].op => i = j

\* The inductive invariant.
RunInv == Inv /\ RunShape

\* An executed run operation finds the record in one of the statuses it starts
\* from, and an OpId that the log does not hold.
LEMMA RunExecutedMeans ==
    ASSUME NEW op, NEW hash, NEW from, RunOpOutcome(op, hash, from) = "Executed"
    PROVE  /\ run.status \in from /\ run.status # "Absent"
           /\ \A i \in DOMAIN run.log : run.log[i].op # op
BY DEF RunOpOutcome, CheckOpIdempotency, OpLogEntries

\* The two entries of a run are pushed onto a log with room for them.
LEMMA RunLogGrows ==
    ASSUME RunShape, NEW op \in OpId, NEW hash \in RunPayload, Len(run.log) <= 1,
           \A i \in DOMAIN run.log : run.log[i].op # op
    PROVE  LET log == RunOpLogPush(run.log, op, hash)
           IN /\ log \in Seq([op : OpId, hash : RunPayload])
              /\ Len(log) = Len(run.log) + 1
              /\ \A i \in DOMAIN run.log : log[i] = run.log[i]
              /\ log[Len(log)] = [op |-> op, hash |-> hash]
              /\ \A i, j \in DOMAIN log : log[i].op = log[j].op => i = j
<1> DEFINE E == [op : OpId, hash : RunPayload]
           e == [op |-> op, hash |-> hash]
           log == RunOpLogPush(run.log, op, hash)
<1>1. run.log \in Seq(E) /\ e \in E
  BY DEF RunShape
<1>2. Len(run.log) < RunOpLogCap
  <2>1. Len(run.log) \in Nat /\ RunOpLogCap \in Nat /\ RunOpLogCap # 0 /\ RunOpLogCap # 1
    BY <1>1, RunAssumption
  <2> QED BY <2>1
<1>3. log = Append(run.log, e)
  BY <1>2 DEF RunOpLogPush
<1>4. \A i, j \in DOMAIN run.log : run.log[i].op = run.log[j].op => i = j
  BY DEF RunShape
<1> HIDE DEF log, E
<1>5. /\ log \in Seq(E) /\ Len(log) = Len(run.log) + 1
      /\ \A i \in DOMAIN run.log : log[i] = run.log[i]
      /\ log[Len(log)] = e
  BY <1>1, <1>3
<1>6. \A i, j \in DOMAIN log : log[i].op = log[j].op => i = j
  <2>1. \A i \in DOMAIN log : i \in DOMAIN run.log \/ i = Len(log)
    BY <1>1, <1>5
  <2>2. e.op = op
    OBVIOUS
  <2> HIDE DEF e
  <2> QED BY <1>4, <1>5, <2>1, <2>2
<1> QED BY <1>5, <1>6 DEF log, E

\* Nothing exists before create_run.
LEMMA RunInitInv == RunInit => RunInv
<1> SUFFICES ASSUME RunInit PROVE RunInv
  OBVIOUS
<1>1. DOMAIN shards = {} /\ grants = {} /\ now = 1
  BY DEF RunInit
<1>2. Inv
  BY <1>1, BoundsAssumption DEF Inv, TypeOK, FencingOK, LeaseCoherence, Time
<1>3. /\ run.status = "Absent" /\ run.roots = {} /\ run.completedAt = 0 /\ run.log = <<>>
      /\ run = [status |-> "Absent", roots |-> {}, completedAt |-> 0, log |-> <<>>]
  BY DEF RunInit
<1>4. 0 \in 0..MaxTime
  BY BoundsAssumption
<1>5. run \in [status : RunStatus, roots : SUBSET ShardId, completedAt : 0..MaxTime,
               log : Seq([op : OpId, hash : RunPayload])]
  BY <1>3, <1>4 DEF RunStatus
<1>6. claims \in [Worker -> 0..MaxTime]
  BY <1>4 DEF RunInit
<1>7. Len(run.log) = 0 /\ DOMAIN run.log = {}
  BY <1>3
<1>8. IsFiniteSet(DOMAIN shards)
  BY <1>1, FS_EmptySet
<1> QED BY <1>1, <1>2, <1>3, <1>5, <1>6, <1>7, <1>8 DEF RunInv, RunShape, RunEnds

\* The run's record type, as the provers read field updates off it.
LEMMA RunFields ==
    ASSUME RunShape
    PROVE  /\ run \in [status : RunStatus, roots : SUBSET ShardId, completedAt : 0..MaxTime,
                       log : Seq([op : OpId, hash : RunPayload])]
           /\ run.log \in Seq([op : OpId, hash : RunPayload]) /\ Len(run.log) \in Nat
BY DEF RunShape

\* create_run
LEMMA CreateRunInv == RunInv /\ CreateRun => RunInv'
<1> SUFFICES ASSUME RunInv, CreateRun PROVE RunInv'
  OBVIOUS
<1>1. Inv'
  BY DEF RunInv, CreateRun, Inv, TypeOK, FencingOK, LeaseCoherence
<1>2. /\ run'.status = "Initializing" /\ run'.roots = run.roots /\ run'.log = run.log
      /\ run'.completedAt = run.completedAt /\ run.status = "Absent"
      /\ run' \in [status : RunStatus, roots : SUBSET ShardId, completedAt : 0..MaxTime,
                   log : Seq([op : OpId, hash : RunPayload])]
  BY RunFields DEF RunInv, CreateRun, RunStatus
<1>3. shards' = shards /\ claims' = claims
  BY DEF CreateRun
<1>4. RunShape'
  BY <1>2, <1>3 DEF RunInv, RunShape, RunEnds
<1> QED BY <1>1, <1>4 DEF RunInv

\* register_shards makes the roots of the manifest, once, in an empty run.
LEMMA RegisterShardsInv ==
    ASSUME RunInv, NEW op \in OpId, NEW m \in Offered, RegisterShards(op, m)
    PROVE  /\ RunInv' /\ m = Manifest /\ run.roots = {} /\ run'.roots = DOMAIN Manifest
           /\ shards' = RootShards(Manifest) /\ DOMAIN Manifest # {}
<1> DEFINE hash == <<"RegisterShards", m>>
           log == RunOpLogPush(run.log, op, hash)
<1>1. /\ m = Manifest /\ RunOpOutcome(op, hash, {"Initializing"}) = "Executed"
      /\ DOMAIN Manifest # {}
  BY RunAssumption, ManifestAssumption DEF RegisterShards, ValidManifest
<1>2. /\ run.status = "Initializing" /\ \A i \in DOMAIN run.log : run.log[i].op # op
  BY <1>1, RunExecutedMeans
<1>3. /\ run.roots = {} /\ run.log = <<>> /\ DOMAIN shards = {} /\ Len(run.log) = 0
  BY <1>2 DEF RunInv, RunShape
<1>4. hash \in RunPayload
  BY DEF RunPayload
<1>5. /\ log \in Seq([op : OpId, hash : RunPayload]) /\ Len(log) = 1
      /\ log[1].hash = <<"RegisterShards", Manifest>>
      /\ \A i, j \in DOMAIN log : log[i].op = log[j].op => i = j
  <2> HIDE DEF hash
  <2>1. /\ log \in Seq([op : OpId, hash : RunPayload]) /\ Len(log) = Len(run.log) + 1
        /\ log[Len(log)] = [op |-> op, hash |-> hash]
        /\ \A i, j \in DOMAIN log : log[i].op = log[j].op => i = j
    <3>1. RunShape /\ Len(run.log) <= 1
      BY <1>3 DEF RunInv
    <3> QED BY <1>2, <1>4, <3>1, RunLogGrows
  <2> HIDE DEF log
  <2> QED BY <1>1, <1>3, <2>1 DEF hash
<1>6. /\ shards' = [s \in DOMAIN shards \cup DOMAIN m |->
                        IF s \in DOMAIN m THEN RootShards(m)[s] ELSE shards[s]]
      /\ run' = [run EXCEPT !.status = "Active", !.roots = DOMAIN m, !.log = log]
      /\ UNCHANGED <<now, grants, history, claims>>
  BY DEF RegisterShards
<1> HIDE DEF log
<1>7. shards' = RootShards(Manifest)
  BY <1>1, <1>3, <1>6 DEF RootShards
<1>8. Inv'
  <2>1. grants = {} /\ now \in Time
    BY <1>3 DEF RunInv, Inv, TypeOK, FencingOK
  <2>2. DOMAIN shards' = DOMAIN Manifest
        /\ \A s \in DOMAIN Manifest :
             shards'[s] = NewShard(Manifest[s].lo, Manifest[s].hi, Manifest[s].cursor, NoShard)
    BY <1>7 DEF RootShards
  <2>3. \A s \in DOMAIN shards' : ShardOK(shards'[s])
    BY <2>2, NewShardOK, ManifestAssumption DEF Child
  <2>4. grants' = {} /\ now' \in Time /\ DOMAIN shards' \subseteq ShardId
    BY <1>6, <2>1, <2>2, ManifestAssumption
  <2> QED BY <2>3, <2>4 DEF Inv, TypeOK, FencingOK, LeaseCoherence
<1>9. /\ run'.status = "Active" /\ run'.roots = DOMAIN Manifest /\ run'.log = log
      /\ run'.completedAt = run.completedAt
      /\ run' \in [status : RunStatus, roots : SUBSET ShardId, completedAt : 0..MaxTime,
                   log : Seq([op : OpId, hash : RunPayload])]
  <2>1. DOMAIN m \in SUBSET ShardId /\ "Active" \in RunStatus
    BY <1>1, ManifestAssumption DEF RunStatus
  <2> QED BY <1>1, <1>5, <1>6, <2>1, RunFields DEF RunInv
<1>10. DOMAIN shards' = DOMAIN Manifest /\ IsFiniteSet(DOMAIN shards')
  BY <1>7, ManifestFinite DEF RootShards
<1>11. claims' \in [Worker -> 0..MaxTime] /\ (run.status \in RunEnds <=> run.completedAt # 0)
  BY <1>6 DEF RunInv, RunShape
<1>12. run'.status \in RunEnds <=> run'.completedAt # 0
  BY <1>2, <1>9, <1>11 DEF RunEnds
<1>13. RunShape'
  <2>1. Len(run'.log) >= 1 /\ Len(run'.log) <= 2 /\ Len(run'.log) = 1
    <3>1. Len(log) = 1 /\ run'.log = log
      BY <1>5, <1>9
    <3>2. Len(run'.log) = 1
      BY <3>1
    <3> QED BY <3>2
  <2> QED BY <1>1, <1>5, <1>9, <1>10, <1>11, <1>12, <2>1 DEF RunShape
<1> QED BY <1>1, <1>3, <1>7, <1>8, <1>9, <1>13 DEF RunInv

\* complete_run, fail_run and cancel_run.
LEMMA EndRunInv ==
    ASSUME RunInv, NEW op \in OpId,
           NEW kind \in {"CompleteRun", "FailRun", "CancelRun"}, NEW status \in RunEnds,
           NEW from, from \subseteq {"Initializing", "Active"},
           status # "Cancelled" => from = {"Active"},
           RunOpOutcome(op, <<kind, 0>>, from) = "Executed", EndRun(op, kind, status)
    PROVE  RunInv' /\ run.status \notin RunEnds
<1> DEFINE hash == <<kind, 0>>
           log == RunOpLogPush(run.log, op, hash)
<1>1. run.status \in from /\ \A i \in DOMAIN run.log : run.log[i].op # op
  BY RunExecutedMeans
<1>2. /\ run.status \in {"Initializing", "Active"} /\ Len(run.log) <= 1
      /\ run.status \notin RunEnds
      /\ run.status = "Initializing" => run.roots = {}
      /\ run.status = "Active" => run.roots # {}
      /\ status # "Cancelled" => run.status = "Active"
  <2>1. run.status \in {"Initializing", "Active"}
    BY <1>1
  <2>2. Len(run.log) <= 1
    <3>1. CASE run.status = "Initializing"
      <4>1. run.log = <<>>
        BY <3>1 DEF RunInv, RunShape
      <4> QED BY <4>1
    <3>2. CASE run.status = "Active"
      BY <3>2 DEF RunInv, RunShape
    <3> QED BY <2>1, <3>1, <3>2
  <2> QED BY <1>1, <2>1, <2>2 DEF RunInv, RunShape, RunEnds
<1>3. hash \in RunPayload
  BY DEF RunPayload
<1>4. /\ log \in Seq([op : OpId, hash : RunPayload]) /\ Len(log) = Len(run.log) + 1
      /\ \A i \in DOMAIN run.log : log[i] = run.log[i]
      /\ \A i, j \in DOMAIN log : log[i].op = log[j].op => i = j
  <2> HIDE DEF hash
  <2>1. RunShape /\ Len(run.log) <= 1 /\ \A i \in DOMAIN run.log : run.log[i].op # op
    BY <1>1, <1>2 DEF RunInv
  <2> QED BY <1>3, <2>1, RunLogGrows
<1>5. /\ run' = [run EXCEPT !.status = status, !.completedAt = now, !.log = log]
      /\ UNCHANGED <<now, shards, grants, history, claims>>
  BY DEF EndRun
<1> HIDE DEF log
<1>6. Inv'
  BY <1>5 DEF RunInv, Inv, TypeOK, FencingOK, LeaseCoherence
<1>7. now \in 0..MaxTime /\ now # 0
  BY DEF RunInv, Inv, TypeOK, Time
<1>8. /\ run'.status = status /\ run'.roots = run.roots /\ run'.log = log /\ run'.completedAt = now
      /\ run' \in [status : RunStatus, roots : SUBSET ShardId, completedAt : 0..MaxTime,
                   log : Seq([op : OpId, hash : RunPayload])]
  <2>1. status \in RunStatus
    BY DEF RunEnds, RunStatus
  <2> QED BY <1>4, <1>5, <1>7, <2>1, RunFields DEF RunInv
<1>9. /\ run.roots # {} => Len(log) >= 1 /\ log[1].hash = <<"RegisterShards", Manifest>>
      /\ Len(log) <= 2
  <2>1. run.log \in Seq([op : OpId, hash : RunPayload]) /\ Len(run.log) \in Nat
    BY RunFields DEF RunInv
  <2>2. run.roots # {} => Len(run.log) >= 1 /\ run.log[1].hash = <<"RegisterShards", Manifest>>
    BY DEF RunInv, RunShape
  <2>3. run.roots # {} => 1 \in DOMAIN run.log
    BY <2>1, <2>2
  <2> QED BY <1>2, <1>4, <2>1, <2>2, <2>3
<1>10. RunShape'
  <2>1. /\ run.roots = {} => DOMAIN shards = {}
        /\ run.roots # {} => run.roots = DOMAIN Manifest /\ run.roots \subseteq DOMAIN shards
        /\ IsFiniteSet(DOMAIN shards) /\ claims \in [Worker -> 0..MaxTime]
    BY DEF RunInv, RunShape
  <2>2. shards' = shards /\ claims' = claims
    BY <1>5
  <2>3. /\ status \in {"Done", "Failed"} => run.roots # {}
        /\ status \notin {"Absent", "Initializing", "Active"}
    BY <1>2 DEF RunEnds
  <2> QED BY <1>4, <1>7, <1>8, <1>9, <2>1, <2>2, <2>3 DEF RunShape
<1> QED BY <1>2, <1>6, <1>10 DEF RunInv

\* The shard protocol's own steps leave the run's record alone.
LEMMA ProtocolStepInv ==
    ASSUME RunInv, [Next]_vars, run' = run, claims' \in [Worker -> 0..MaxTime]
    PROVE  RunInv'
<1>1. Inv'
  BY NextInv DEF RunInv
<1>2. IsFiniteSet(DOMAIN shards') /\ DOMAIN shards \subseteq DOMAIN shards'
  BY ShardsStayFinite DEF RunInv, RunShape
<1>3. DOMAIN shards = {} => DOMAIN shards' = {}
  <2> SUFFICES ASSUME DOMAIN shards = {} PROVE shards' = shards
    OBVIOUS
  <2>1. grants = {}
    BY DEF RunInv, Inv, FencingOK
  <2>2. Tick \/ UNCHANGED vars
    BY <2>1 DEF Next
  <2> QED BY <2>2 DEF Tick, vars
<1>4. RunShape'
  BY <1>2, <1>3 DEF RunInv, RunShape
<1> QED BY <1>1, <1>4 DEF RunInv

\* The kinds of step of a run: a step of the shard protocol, with the run's
\* record unchanged; the registration; or one that no shard sees.
LEMMA RunStepKinds ==
    ASSUME RunInv, [RunNext]_runVars
    PROVE  /\ RunInv'
           /\ \/ [Next]_vars /\ run' = run
              \/ /\ run.roots = {} /\ run'.roots = DOMAIN Manifest /\ DOMAIN Manifest # {}
                 /\ shards' = RootShards(Manifest) /\ run.status = "Initializing"
                 /\ UNCHANGED <<now, grants, history>>
              \/ UNCHANGED vars /\ run.status \notin RunEnds /\ run'.roots = run.roots
<1>0. Inv /\ now \in 0..MaxTime /\ claims \in [Worker -> 0..MaxTime]
  BY DEF RunInv, Inv, TypeOK, Time, RunShape
<1>1. CASE CreateRun
  <2>1. UNCHANGED vars /\ run.status \notin RunEnds /\ run'.roots = run.roots
    BY <1>1, RunFields DEF CreateRun, RunEnds, vars, RunInv
  <2> QED BY <1>1, <2>1, CreateRunInv
<1>2. ASSUME NEW op \in OpId, NEW m \in Offered, RegisterShards(op, m)
      PROVE  /\ RunInv' /\ run.roots = {} /\ run'.roots = DOMAIN Manifest /\ DOMAIN Manifest # {}
             /\ shards' = RootShards(Manifest) /\ run.status = "Initializing"
             /\ UNCHANGED <<now, grants, history>>
  <2>1. run.status = "Initializing" /\ UNCHANGED <<now, grants, history>>
    BY <1>2, RunExecutedMeans DEF RegisterShards
  <2> QED BY <1>2, <2>1, RegisterShardsInv
<1>3. ASSUME NEW op \in OpId, CompleteRun(op) \/ FailRun(op) \/ CancelRun(op)
      PROVE  RunInv' /\ UNCHANGED vars /\ run.status \notin RunEnds /\ run'.roots = run.roots
  <2>1. ASSUME NEW kind, NEW status, EndRun(op, kind, status)
        PROVE  UNCHANGED vars /\ run'.roots = run.roots
    BY <2>1, RunFields DEF EndRun, vars, RunInv
  <2>2. CASE CompleteRun(op)
    BY <2>1, <2>2, EndRunInv DEF CompleteRun, RunEnds
  <2>3. CASE FailRun(op)
    BY <2>1, <2>3, EndRunInv DEF FailRun, RunEnds
  <2>4. CASE CancelRun(op)
    BY <2>1, <2>4, EndRunInv DEF CancelRun, RunEnds
  <2> QED BY <1>3, <2>2, <2>3, <2>4
<1>4. ASSUME NEW w \in Worker, NEW s \in DOMAIN shards, ClaimNextAvailable(w, s)
      PROVE  RunInv' /\ [Next]_vars /\ run' = run
  <2>1. Acquire(w, s) /\ run' = run /\ claims' \in [Worker -> 0..MaxTime]
    BY <1>0, <1>4 DEF ClaimNextAvailable
  <2>2. Next
    BY <2>1 DEF Next
  <2> QED BY <2>1, <2>2, ProtocolStepInv
<1>5. ASSUME NEW s \in DOMAIN shards, NEW op \in OpId, UnparkShard(s, op)
      PROVE  RunInv' /\ [Next]_vars /\ run' = run
  <2>1. Unpark(s, op) /\ run' = run /\ claims' = claims
    BY <1>5 DEF UnparkShard
  <2>2. Next
    BY <2>1 DEF Next
  <2> QED BY <1>0, <2>1, <2>2, ProtocolStepInv
<1>6. CASE ShardStep
  <2>1. Next /\ run' = run /\ claims' = claims
    BY <1>6 DEF ShardStep, Next
  <2> QED BY <1>0, <2>1, ProtocolStepInv
<1>7. CASE UNCHANGED runVars
  <2>1. UNCHANGED vars /\ run' = run /\ claims' = claims
    BY <1>7 DEF runVars, vars
  <2> QED BY <1>0, <2>1, ProtocolStepInv
<1> QED BY <1>1, <1>2, <1>3, <1>4, <1>5, <1>6, <1>7 DEF RunNext

\* The shape of a run holds throughout.
LEMMA RunInvariance == RunSpec => []RunInv
<1>1. RunInv /\ [RunNext]_runVars => RunInv'
  BY RunStepKinds
<1> QED BY RunInitInv, <1>1, PTL DEF RunSpec

-----------------------------------------------------------------------------
(* The run's record                                                        *)

\* The shape of a run's life makes its record well formed, and its first log
\* entry answers every retry of the registration.
LEMMA ShapeIsSound == RunInv => RunRecordSound
<1> SUFFICES ASSUME RunInv PROVE RunRecordSound
  OBVIOUS
<1>1. /\ run.log \in Seq([op : OpId, hash : RunPayload]) /\ Len(run.log) \in Nat
      /\ Len(run.log) <= RunOpLogCap
  <2>1. run.log \in Seq([op : OpId, hash : RunPayload]) /\ Len(run.log) \in Nat
    BY RunFields DEF RunInv
  <2>2. Len(run.log) <= 2 /\ RunOpLogCap \in Nat /\ RunOpLogCap # 0 /\ RunOpLogCap # 1
    BY RunAssumption DEF RunInv, RunShape
  <2> QED BY <2>1, <2>2
<1>2. RunTypeOK
  <2>1. run.status \in RunStatus /\ run.completedAt \in 0..MaxTime
    BY RunFields DEF RunInv
  <2> QED BY <1>1, <2>1 DEF RunInv, RunShape, RunTypeOK, IsRunTerminal
<1>3. RegistrationReplays
  <2> SUFFICES ASSUME DOMAIN shards # {}
               PROVE  \E e \in OpLogEntries(run) :
                         /\ e.hash[1] = "RegisterShards"
                         /\ DOMAIN e.hash[2] = run.roots
                         /\ RunOpOutcome(e.op, e.hash, {}) = "Replayed"
    BY DEF RegistrationReplays
  <2> DEFINE e == run.log[1]
  <2>1. /\ run.roots = DOMAIN Manifest /\ e.hash = <<"RegisterShards", Manifest>>
        /\ Len(run.log) >= 1 /\ run.status # "Absent"
    BY DEF RunInv, RunShape
  <2>2. 1 \in DOMAIN run.log /\ e \in [op : OpId, hash : RunPayload]
    <3>1. 1 \in 1..Len(run.log)
      BY <1>1, <2>1
    <3> QED BY <1>1, <3>1, ElementOfSeq, LenProperties
  <2>3. e \in OpLogEntries(run) /\ e = [op |-> e.op, hash |-> e.hash]
    BY <2>2 DEF OpLogEntries
  <2> HIDE DEF e
  <2>4. CheckOpIdempotency(run, e.op, e.hash) = "Replayed"
    BY <2>3 DEF CheckOpIdempotency
  <2>5. RunOpOutcome(e.op, e.hash, {}) = "Replayed"
    BY <2>1, <2>4 DEF RunOpOutcome
  <2>6. e.hash[1] = "RegisterShards" /\ DOMAIN e.hash[2] = run.roots
    BY <2>1
  <2> QED BY <2>3, <2>5, <2>6
<1> QED BY <1>2, <1>3 DEF RunRecordSound

\* Every run record meets RunRecord::assert_invariants, and a retried
\* register_shards is answered from the log for as long as the run exists: no
\* run pushes more than two entries.
LEMMA RunRecordStaysSound == RunSpec => []RunRecordSound
BY RunInvariance, ShapeIsSound, PTL

-----------------------------------------------------------------------------
(* Ends                                                                    *)

\* Counting the shards of a status, where there are finitely many.
LEMMA NoneOf ==
    ASSUME RunInv, NEW status
    PROVE  CountOf(status) \in Nat
           /\ (CountOf(status) = 0 <=> \A s \in DOMAIN shards : shards[s].status # status)
<1> DEFINE S == {s \in DOMAIN shards : shards[s].status = status}
<1>1. IsFiniteSet(S)
  BY FS_Subset DEF RunInv, RunShape
<1>2. Cardinality(S) \in Nat /\ (Cardinality(S) = 0 <=> S = {})
  BY <1>1, FS_EmptySet, FS_CardinalityType
<1> QED BY <1>2 DEF CountOf

\* A step that changes a shard finds an Active one, or is unpark_shard's.
LEMMA ChangeNeedsActive ==
    ASSUME RunInv, [RunNext]_runVars, DOMAIN shards # {}, shards' # shards
    PROVE  \/ \E s \in DOMAIN shards : shards[s].status = "Active"
           \/ /\ ~IsRunTerminal(run.status)
              /\ \E s \in DOMAIN shards : shards[s].status = "Parked"
<1>0. Inv /\ (run.roots = {} => DOMAIN shards = {})
  BY DEF RunInv, RunShape
<1>1. ~(run.roots = {})
  BY <1>0
<1>2. CASE CreateRun \/ (\E op \in OpId : CompleteRun(op) \/ FailRun(op) \/ CancelRun(op))
  BY <1>2 DEF CreateRun, CompleteRun, FailRun, CancelRun, EndRun
<1>3. CASE \E op \in OpId, m \in Offered : RegisterShards(op, m)
  BY <1>1, <1>3, RegisterShardsInv
<1>4. CASE \E w \in Worker, s \in DOMAIN shards : ClaimNextAvailable(w, s)
  BY <1>0, <1>4, OpenShardNeeded DEF ClaimNextAvailable
<1>5. CASE \E s \in DOMAIN shards, op \in OpId : UnparkShard(s, op)
  BY <1>0, <1>5, OpenShardNeeded DEF UnparkShard, UnparkShardOutcome
<1>6. CASE ShardStep
  BY <1>0, <1>6, OpenShardNeeded DEF ShardStep, Tick
<1>7. CASE UNCHANGED runVars
  BY <1>7 DEF runVars
<1> QED BY <1>2, <1>3, <1>4, <1>5, <1>6, <1>7 DEF RunNext

\* When every shard is Done or Split nothing can reopen one: what complete_run's
\* caller read from get_run_progress still holds when it calls.
LEMMA AllDoneStays ==
    ASSUME RunInv, RunInv', [RunNext]_runVars, DOMAIN shards # {}, EvaluateRunTerminal = "AllDone"
    PROVE  EvaluateRunTerminal' = "AllDone"
<1>1. CountOf("Active") \in Nat /\ CountOf("Parked") \in Nat
  BY NoneOf
<1>2. CountOf("Active") = 0 /\ CountOf("Parked") = 0
  <2>1. ~(CountOf("Active") > 0) /\ ~(CountOf("Parked") > 0)
    BY DEF EvaluateRunTerminal
  <2> QED BY <1>1, <2>1
<1>3. \A s \in DOMAIN shards : shards[s].status # "Active" /\ shards[s].status # "Parked"
  BY <1>2, NoneOf
<1>4. shards' = shards
  BY <1>3, ChangeNeedsActive
<1> QED BY <1>4 DEF EvaluateRunTerminal, CountOf

\* A run evaluated to AllDone stays so, whatever is called in between.
THEOREM AllDoneStaysDone == RunSpec => AllDoneIsFinal
<1>1. RunInv /\ RunInv' /\ [RunNext]_runVars =>
         [DOMAIN shards # {} /\ EvaluateRunTerminal = "AllDone"
            => EvaluateRunTerminal' = "AllDone"]_runVars
  BY AllDoneStays
<1> QED BY RunInvariance, <1>1, PTL DEF RunSpec, AllDoneIsFinal

\* The step of RunEndIsFinal.
LEMMA EndStays ==
    ASSUME RunInv, RunInv', [RunNext]_runVars, IsRunTerminal(run.status)
    PROVE  /\ run' = run
           /\ run.roots = {} => DOMAIN shards' = {}
           /\ CountOf("Active") = 0 => CountOf("Active")' = 0
<1>1. run' = run
  BY RunStepKinds DEF IsRunTerminal, RunEnds
<1>2. run.roots = {} => DOMAIN shards' = {}
  BY <1>1 DEF RunInv, RunShape
<1>3. ASSUME CountOf("Active") = 0
      PROVE  CountOf("Active")' = 0
  <2>1. \A s \in DOMAIN shards : shards[s].status # "Active"
    BY <1>3, NoneOf
  <2>2. CASE DOMAIN shards = {}
    <3>1. run.roots = {}
      BY <2>2, ManifestAssumption DEF RunInv, RunShape, ValidManifest
    <3>2. {s \in DOMAIN shards' : shards'[s].status = "Active"} = {}
      BY <1>2, <3>1
    <3> QED BY <3>2, FS_EmptySet DEF CountOf
  <2>3. CASE DOMAIN shards # {}
    <3>1. shards' = shards
      BY <2>1, <2>3, ChangeNeedsActive
    <3> QED BY <1>3, <3>1 DEF CountOf
  <2> QED BY <2>2, <2>3
<1> QED BY <1>1, <1>2, <1>3

\* An ended run stays as it ended: no operation edits its record, a run cancelled
\* before its registration gets no shards, and once its shards have all come to
\* rest unpark_shard cannot leave an orphaned Active one.
THEOREM RunEndsAreFinal == RunSpec => RunEndIsFinal
<1>1. RunInv /\ RunInv' /\ [RunNext]_runVars =>
         [IsRunTerminal(run.status) =>
             /\ run' = run
             /\ run.roots = {} => DOMAIN shards' = {}
             /\ CountOf("Active") = 0 => CountOf("Active")' = 0]_runVars
  BY EndStays
<1> QED BY RunInvariance, <1>1, PTL DEF RunSpec, RunEndIsFinal

-----------------------------------------------------------------------------
(* Claims                                                                  *)

\* The least deadline of the live leases is when the first of them ends.
LEMMA HintIsExact == Inv => ClaimHintExact
<1> SUFFICES ASSUME Inv, Candidates(now) = {}, LeaseDeadlines(now) # {}
             PROVE  LET d == CHOOSE x \in LeaseDeadlines(now) : \A y \in LeaseDeadlines(now) : x <= y
                    IN /\ Candidates(d) # {}
                       /\ \A t \in now..(d - 1) : Candidates(t) = {}
  BY DEF ClaimHintExact
<1> DEFINE D == LeaseDeadlines(now)
           d == CHOOSE x \in D : \A y \in D : x <= y
<1>1. \A s \in DOMAIN shards : shards[s] \in Shard /\ shards[s].deadline \in Nat
  <2>1. \A s \in DOMAIN shards : shards[s] \in Shard
    BY DEF Inv, TypeOK, ShardOK
  <2>2. \A r \in Shard : r.deadline \in Nat
    BY DEF Shard
  <2> QED BY <2>1, <2>2
<1>2. D \in SUBSET Nat /\ D # {}
  BY <1>1 DEF LeaseDeadlines
<1>3. \E x \in D : \A y \in D : x <= y
  BY <1>2, LeastNat
<1>4. d \in D /\ \A y \in D : d <= y
  BY <1>3
<1> HIDE DEF d
<1>5. PICK s \in DOMAIN shards : shards[s].status = "Active" /\ shards[s].deadline = d
  BY <1>4 DEF LeaseDeadlines
<1>6. d \in Nat /\ now \in Int
  BY <1>2, <1>4 DEF Inv, TypeOK, Time
<1>7. s \in Candidates(d)
  BY <1>5, <1>6 DEF Candidates, IsLeasedAt
<1>8. ASSUME NEW t \in now..(d - 1), NEW x \in Candidates(t)
      PROVE  FALSE
  <2>1. x \in DOMAIN shards /\ shards[x].status = "Active" /\ ~IsLeasedAt(shards[x], t)
    BY <1>8 DEF Candidates
  <2>2. IsLeasedAt(shards[x], now)
    BY <2>1 DEF Candidates
  <2>3. shards[x].deadline \in D
    BY <2>1, <2>2 DEF LeaseDeadlines
  <2>4. d <= shards[x].deadline /\ shards[x].deadline \in Nat
    BY <1>1, <1>4, <2>1, <2>3
  <2>5. t < shards[x].deadline
    BY <1>6, <1>8, <2>4
  <2> QED BY <2>1, <2>2, <2>5 DEF IsLeasedAt
<1> QED BY <1>7, <1>8 DEF d

\* A worker told to come back finds a shard to claim at the very time it was
\* given, if nobody acts meanwhile, and would have found none before.
LEMMA ClaimHintsExact == RunSpec => []ClaimHintExact
<1>1. RunInv => ClaimHintExact
  BY HintIsExact DEF RunInv
<1> QED BY RunInvariance, <1>1, PTL

\* Whatever a run goes through, its record is well formed and answers the retry
\* of its registration, and the hint of a failed claim is exact.
THEOREM RunStaysSound == RunSpec => []RunSound
<1>1. RunRecordSound /\ ClaimHintExact => RunSound
  BY DEF RunSound
<1> QED BY RunRecordStaysSound, ClaimHintsExact, <1>1, PTL

-----------------------------------------------------------------------------
(* The run implements the shard protocol                                   *)

\* The operators of the instance are those of ShardCoordination itself: its
\* constants are not renamed.
LEMMA ProtocolChecks ==
    ASSUME NEW s, NEW r, NEW lease, NEW t, NEW op, NEW hash, NEW valid
    PROVE  /\ Protocol!Deadline(t) = Deadline(t)
           /\ Protocol!IsLeasedAt(r, t) = IsLeasedAt(r, t)
           /\ Protocol!ValidLease(r, lease, t) = ValidLease(r, lease, t)
           /\ Protocol!CheckOpIdempotency(r, op, hash) = CheckOpIdempotency(r, op, hash)
           /\ Protocol!LeaseOpOutcome(r, lease, t, op, hash, valid)
                = LeaseOpOutcome(r, lease, t, op, hash, valid)
           /\ Protocol!ReplayedResiduals(s, r, op) = ReplayedResiduals(s, r, op)
<1>1. Protocol!Deadline(t) = Deadline(t) /\ Protocol!IsLeasedAt(r, t) = IsLeasedAt(r, t)
  BY DEF Protocol!Deadline, Deadline, Protocol!IsLeasedAt, IsLeasedAt
<1>2. Protocol!ValidLease(r, lease, t) = ValidLease(r, lease, t)
  BY DEF Protocol!ValidLease, ValidLease, Protocol!IsTerminal, IsTerminal
<1>3. Protocol!CheckOpIdempotency(r, op, hash) = CheckOpIdempotency(r, op, hash)
  BY DEF Protocol!CheckOpIdempotency, CheckOpIdempotency, Protocol!OpLogEntries, OpLogEntries
<1>4. Protocol!LeaseOpOutcome(r, lease, t, op, hash, valid)
        = LeaseOpOutcome(r, lease, t, op, hash, valid)
  BY <1>2, <1>3 DEF Protocol!LeaseOpOutcome, LeaseOpOutcome
<1>5. Protocol!ReplayedResiduals(s, r, op) = ReplayedResiduals(s, r, op)
  BY DEF Protocol!ReplayedResiduals, ReplayedResiduals
<1> QED BY <1>1, <1>2, <1>3, <1>4, <1>5

\* So are its demands on a cursor or a split.
LEMMA ProtocolValid ==
    ASSUME NEW r, NEW k, NEW children, NEW a, NEW b, NEW c
    PROVE  /\ Protocol!ValidCursorUpdate(r, k) = ValidCursorUpdate(r, k)
           /\ Protocol!ValidSplitReplace(r, children, c) = ValidSplitReplace(r, children, c)
           /\ Protocol!ValidSplitResidual(r, a, b, c) = ValidSplitResidual(r, a, b, c)
           /\ Protocol!Cardinality(c) = Cardinality(c)
<1>1. Protocol!ValidCursorUpdate(r, k) = ValidCursorUpdate(r, k)
  BY DEF Protocol!ValidCursorUpdate, ValidCursorUpdate, Protocol!InRange, InRange, Protocol!NoKey, NoKey
<1>2. Protocol!ValidSplitReplace(r, children, c) = ValidSplitReplace(r, children, c)
  BY DEF Protocol!ValidSplitReplace, ValidSplitReplace, Protocol!ValidSplitCoverage,
         ValidSplitCoverage, Protocol!CanSpawn, CanSpawn
<1>3. Protocol!ValidSplitResidual(r, a, b, c) = ValidSplitResidual(r, a, b, c)
  BY DEF Protocol!ValidSplitResidual, ValidSplitResidual, Protocol!ValidSplitCoverage,
         ValidSplitCoverage, Protocol!CanSpawn, CanSpawn, Protocol!InRange, InRange,
         Protocol!NoKey, NoKey
<1>4. Protocol!Cardinality(c) = Cardinality(c)
  BY DEF Protocol!Cardinality, Cardinality
<1> QED BY <1>1, <1>2, <1>3, <1>4

\* So are the records it writes and the plans it is given.
LEMMA ProtocolRecords ==
    ASSUME NEW r, NEW op, NEW hash, NEW lo, NEW hi, NEW cursor, NEW parent, NEW s, NEW n,
           NEW cut, NEW inherit, NEW m
    PROVE  /\ Protocol!OpLogPush(r, op, hash) = OpLogPush(r, op, hash)
           /\ Protocol!Released(r) = Released(r)
           /\ Protocol!NewShard(lo, hi, cursor, parent) = NewShard(lo, hi, cursor, parent)
           /\ Protocol!ChildIds(s, r, op, n) = ChildIds(s, r, op, n)
           /\ Protocol!NoKey = NoKey
           /\ Protocol!Cursor = Cursor
           /\ Protocol!Cuts(n) = Cuts(n)
           /\ Protocol!PlannedChildren(cut, cursor, inherit) = PlannedChildren(cut, cursor, inherit)
           /\ Protocol!RootShards(m) = RootShards(m)
<1>1. Protocol!OpLogPush(r, op, hash) = OpLogPush(r, op, hash) /\ Protocol!Released(r) = Released(r)
  BY DEF Protocol!OpLogPush, OpLogPush, Protocol!Released, Released
<1>2. Protocol!NewShard(lo, hi, cursor, parent) = NewShard(lo, hi, cursor, parent)
  BY DEF Protocol!NewShard, NewShard
<1>3. Protocol!ChildIds(s, r, op, n) = ChildIds(s, r, op, n)
  BY DEF Protocol!ChildIds, ChildIds
<1>4. Protocol!NoKey = NoKey /\ Protocol!Cursor = Cursor
  BY DEF Protocol!NoKey, NoKey, Protocol!Cursor, Cursor
<1>5. Protocol!Cuts(n) = Cuts(n)
  BY DEF Protocol!Cuts, Cuts, Protocol!Bound, Bound
<1>6. Protocol!PlannedChildren(cut, cursor, inherit) = PlannedChildren(cut, cursor, inherit)
  BY DEF Protocol!PlannedChildren, PlannedChildren, Protocol!InRange, InRange, Protocol!NoKey, NoKey
<1>7. Protocol!RootShards(m) = RootShards(m)
  BY DEF Protocol!RootShards, RootShards, Protocol!NewShard, NewShard
<1> QED BY <1>1, <1>2, <1>3, <1>4, <1>5, <1>6, <1>7

\* So are its leases given up and the operations it records.
LEMMA ProtocolEffects ==
    ASSUME NEW lease, NEW kind, NEW s, NEW op, NEW fence
    PROVE  /\ Protocol!Surrender(lease) = Surrender(lease)
           /\ Protocol!Record(kind, s, op, fence) <=> Record(kind, s, op, fence)
<1>1. \A S : Protocol!SetToBag(S) = SetToBag(S)
  BY DEF Protocol!SetToBag, SetToBag
<1>2. \A b, c : Protocol!(+)(b, c) = b (+) c
  BY DEF Protocol!(+), (+)
<1> QED BY <1>1, <1>2 DEF Protocol!Surrender, Surrender, Protocol!Record, Record

\* The shards as the abstract protocol sees them.
Seen == IF run.roots = {} THEN RootShards(Manifest) ELSE shards

\* Once the shards are registered the steps of the two are the same.
LEMMA SameSimple ==
    ASSUME Seen = shards, Seen' = shards', NEW w, NEW s, NEW lease, NEW op, NEW k, NEW reason
    PROVE  /\ Acquire(w, s) => Protocol!Acquire(w, s)
           /\ Renew(lease) => Protocol!Renew(lease)
           /\ Checkpoint(lease, op, k) => Protocol!Checkpoint(lease, op, k)
           /\ Complete(lease, op, k) => Protocol!Complete(lease, op, k)
           /\ Park(lease, op, reason) => Protocol!Park(lease, op, reason)
           /\ Unpark(s, op) => Protocol!Unpark(s, op)
<1>1. /\ (IF run.roots = {} THEN RootShards(Manifest) ELSE shards) = shards
      /\ (IF run.roots = {} THEN RootShards(Manifest) ELSE shards)' = shards'
  BY DEF Seen
<1>2. Acquire(w, s) => Protocol!Acquire(w, s)
  BY <1>1, ProtocolChecks DEF Acquire, Protocol!Acquire
<1>3. Renew(lease) => Protocol!Renew(lease)
  BY <1>1, ProtocolChecks DEF Renew, Protocol!Renew
<1> DEFINE r == shards[lease.shard]
<1>4. Checkpoint(lease, op, k) => Protocol!Checkpoint(lease, op, k)
  <2> DEFINE hash == <<"Checkpoint", k>>
             v == ValidCursorUpdate(r, k)
             q == [r EXCEPT !.cursor = k]
  <2>1. Protocol!ValidCursorUpdate(r, k) = v
    BY ProtocolValid
  <2>2. Protocol!LeaseOpOutcome(r, lease, now, op, hash, v) = LeaseOpOutcome(r, lease, now, op, hash, v)
    BY ProtocolChecks
  <2>3. Protocol!OpLogPush(q, op, hash) = OpLogPush(q, op, hash)
    BY ProtocolRecords
  <2> QED BY <1>1, <2>1, <2>2, <2>3 DEF Checkpoint, Protocol!Checkpoint
<1>5. Complete(lease, op, k) => Protocol!Complete(lease, op, k)
  <2> DEFINE hash == <<"Complete", k>>
             v == ValidCursorUpdate(r, k)
             q == [r EXCEPT !.cursor = k, !.status = "Done"]
  <2>1. Protocol!ValidCursorUpdate(r, k) = v
    BY ProtocolValid
  <2>2. Protocol!LeaseOpOutcome(r, lease, now, op, hash, v) = LeaseOpOutcome(r, lease, now, op, hash, v)
    BY ProtocolChecks
  <2>3. Protocol!OpLogPush(Released(q), op, hash) = OpLogPush(Released(q), op, hash)
        /\ Protocol!Released(q) = Released(q)
    BY ProtocolRecords
  <2> QED BY <1>1, <2>1, <2>2, <2>3, ProtocolEffects DEF Complete, Protocol!Complete
<1>6. Park(lease, op, reason) => Protocol!Park(lease, op, reason)
  <2> DEFINE hash == <<"Park", reason>>
             q == [r EXCEPT !.status = "Parked", !.reason = reason]
  <2>2. Protocol!LeaseOpOutcome(r, lease, now, op, hash, TRUE) = LeaseOpOutcome(r, lease, now, op, hash, TRUE)
    BY ProtocolChecks
  <2>3. Protocol!OpLogPush(Released(q), op, hash) = OpLogPush(Released(q), op, hash)
        /\ Protocol!Released(q) = Released(q)
    BY ProtocolRecords
  <2> QED BY <1>1, <2>2, <2>3, ProtocolEffects DEF Park, Protocol!Park
<1>7. Unpark(s, op) => Protocol!Unpark(s, op)
  <2> DEFINE hash == <<"Unpark", s>>
             q == [shards[s] EXCEPT !.fence = shards[s].fence + 1, !.reason = NoReason,
                                    !.status = "Active"]
  <2>1. Protocol!CheckOpIdempotency(shards[s], op, hash) = CheckOpIdempotency(shards[s], op, hash)
    BY ProtocolChecks
  <2>2. Protocol!UnparkOutcome(s, op) = UnparkOutcome(s, op)
    BY <1>1, <2>1 DEF UnparkOutcome, Protocol!UnparkOutcome
  <2>3. Protocol!OpLogPush(Released(q), op, hash) = OpLogPush(Released(q), op, hash)
        /\ Protocol!Released(q) = Released(q)
    BY ProtocolRecords
  <2> QED BY <1>1, <2>2, <2>3, ProtocolEffects DEF Unpark, Protocol!Unpark
<1> QED BY <1>2, <1>3, <1>4, <1>5, <1>6, <1>7

\* split_replace from the shards before to the shards after.
ReplaceStep(before, after, lease, op, children) ==
    LET s == lease.shard
        r == before[s]
        hash == <<"SplitReplace", children>>
        n == Len(children)
        ids == ChildIds(s, r, op, n)
        new == {ids[i] : i \in 1..n}
    IN /\ LeaseOpOutcome(r, lease, now, op, hash,
              ValidSplitReplace(r, children, Cardinality(DOMAIN before))) = "Executed"
       /\ \A i \in 1..n : ids[i] \notin DOMAIN before
       /\ \A i, j \in 1..n : i # j => ids[i] # ids[j]
       /\ after = [x \in DOMAIN before \cup new |->
             IF x \in new
               THEN LET c == children[CHOOSE i \in 1..n : ids[i] = x]
                    IN NewShard(c.lo, c.hi, c.cursor, s)
             ELSE IF x = s
               THEN OpLogPush(Released([r EXCEPT !.spawned = r.spawned \o ids,
                                                 !.status = "Split"]), op, hash)
             ELSE before[x]]
       /\ grants' = Surrender(lease)
       /\ Record("SplitReplace", s, op, lease.fence)
       /\ UNCHANGED now

\* The splits of the two are the same.
LEMMA SameReplace ==
    ASSUME Seen = shards, Seen' = shards', NEW lease, NEW op, NEW children,
           SplitReplace(lease, op, children)
    PROVE  Protocol!SplitReplace(lease, op, children)
<1>1. ReplaceStep(shards, shards', lease, op, children)
  BY DEF SplitReplace, ReplaceStep
<1>2. ReplaceStep(Seen, Seen', lease, op, children)
  BY <1>1
<1>3. ReplaceStep(Seen, Seen', lease, op, children) => Protocol!SplitReplace(lease, op, children)
  BY DEF ReplaceStep, Protocol!SplitReplace, Seen, ChildIds, Protocol!ChildIds, LeaseOpOutcome,
         Protocol!LeaseOpOutcome, CheckOpIdempotency, Protocol!CheckOpIdempotency, OpLogEntries,
         Protocol!OpLogEntries, ValidLease, Protocol!ValidLease, IsTerminal, Protocol!IsTerminal,
         ValidSplitReplace, Protocol!ValidSplitReplace, ValidSplitCoverage,
         Protocol!ValidSplitCoverage, CanSpawn, Protocol!CanSpawn, Cardinality,
         Protocol!Cardinality, NewShard, Protocol!NewShard, OpLogPush, Protocol!OpLogPush,
         Released, Protocol!Released, Surrender, Protocol!Surrender, Record, Protocol!Record,
         SetToBag, Protocol!SetToBag, (+), Protocol!(+)
<1> QED BY <1>2, <1>3

\* A split that fails, with the records before and after it as parameters.
FailStep(before, after, lease, op, children) ==
    LET s == lease.shard
        r == before[s]
        hash == <<"SplitReplace", children>>
        ids == ChildIds(s, r, op, Len(children))
    IN /\ LeaseOpOutcome(r, lease, now, op, hash,
              ValidSplitReplace(r, children, Cardinality(DOMAIN before))) = "Executed"
       /\ \E m \in 0..Len(children) :
             /\ \A i \in 1..m : ids[i] \notin DOMAIN before
             /\ \A i, j \in 1..m : i # j => ids[i] # ids[j]
             /\ LET new == {ids[i] : i \in 1..m}
                    staged == [x \in (DOMAIN before \ {s}) \cup new |->
                                  IF x \in new
                                    THEN LET c == children[CHOOSE i \in 1..m : ids[i] = x]
                                         IN NewShard(c.lo, c.hi, c.cursor, s)
                                  ELSE before[x]]
                    kept == RollBack(staged, ids, m)
                IN after = [x \in DOMAIN kept \cup {s} |-> IF x = s THEN r ELSE kept[x]]
       /\ UNCHANGED <<now, grants, history>>

\* The failing splits of the two are the same.
LEMMA SameFailure ==
    ASSUME Seen = shards, Seen' = shards', NEW lease, NEW op, NEW children,
           SplitReplaceFails(lease, op, children)
    PROVE  Protocol!SplitReplaceFails(lease, op, children)
<1>1. FailStep(shards, shards', lease, op, children)
  BY DEF SplitReplaceFails, FailStep, Staged
<1>2. FailStep(Seen, Seen', lease, op, children)
  BY <1>1
<1>3. FailStep(Seen, Seen', lease, op, children) => Protocol!SplitReplaceFails(lease, op, children)
  BY DEF FailStep, Protocol!SplitReplaceFails, Seen, ChildIds, Protocol!ChildIds, LeaseOpOutcome,
         Protocol!LeaseOpOutcome, CheckOpIdempotency, Protocol!CheckOpIdempotency, OpLogEntries,
         Protocol!OpLogEntries, ValidLease, Protocol!ValidLease, IsTerminal, Protocol!IsTerminal,
         ValidSplitReplace, Protocol!ValidSplitReplace, ValidSplitCoverage,
         Protocol!ValidSplitCoverage, CanSpawn, Protocol!CanSpawn, Cardinality,
         Protocol!Cardinality, NewShard, Protocol!NewShard, Protocol!Staged, RollBack,
         Protocol!RollBack
<1> QED BY <1>2, <1>3

\* And so for the residual split.
LEMMA SameCarve ==
    ASSUME Seen = shards, Seen' = shards', NEW lease, NEW op, NEW newParent, NEW residual,
           SplitResidual(lease, op, newParent, residual)
    PROVE  Protocol!SplitResidual(lease, op, newParent, residual)
<1>1. /\ (IF run.roots = {} THEN RootShards(Manifest) ELSE shards) = shards
      /\ (IF run.roots = {} THEN RootShards(Manifest) ELSE shards)' = shards'
  BY DEF Seen
<1> DEFINE s == lease.shard
           r == shards[s]
           hash == <<"SplitResidual", <<newParent, residual>>>>
           count == Cardinality(DOMAIN shards)
           v == ValidSplitResidual(r, newParent, residual, count)
           id == Derive(s, op, "Residual", Len(r.spawned))
           q == [r EXCEPT !.lo = newParent.lo, !.hi = newParent.hi,
                          !.spawned = Append(r.spawned, id)]
<1>2. Protocol!ValidSplitResidual(r, newParent, residual, count) = v
      /\ Protocol!Cardinality(DOMAIN shards) = count
  BY ProtocolValid
<1>3. Protocol!LeaseOpOutcome(r, lease, now, op, hash, v) = LeaseOpOutcome(r, lease, now, op, hash, v)
      /\ Protocol!ReplayedResiduals(s, r, op) = ReplayedResiduals(s, r, op)
  BY ProtocolChecks
<1>4. /\ Protocol!OpLogPush(q, op, hash) = OpLogPush(q, op, hash)
      /\ Protocol!NewShard(residual.lo, residual.hi, NoKey, s)
           = NewShard(residual.lo, residual.hi, NoKey, s)
      /\ Protocol!NoKey = NoKey
  BY ProtocolRecords
<1> QED BY <1>1, <1>2, <1>3, <1>4, ProtocolEffects DEF SplitResidual, Protocol!SplitResidual

\* Once the shards are registered a step of the protocol is one of the instance.
LEMMA SameNext ==
    ASSUME Seen = shards, Seen' = shards', Next
    PROVE  Protocol!Next
<1>1. /\ (IF run.roots = {} THEN RootShards(Manifest) ELSE shards) = shards
      /\ (IF run.roots = {} THEN RootShards(Manifest) ELSE shards)' = shards'
  BY DEF Seen
<1>2. CASE Tick
  BY <1>1, <1>2 DEF Tick, Protocol!Tick, Protocol!Next
<1>3. CASE \E w \in Worker, s \in DOMAIN shards : Acquire(w, s)
  BY <1>1, <1>3, SameSimple DEF Protocol!Next
<1>4. CASE \E lease \in grants : Renew(lease)
  BY <1>1, <1>4, SameSimple DEF Protocol!Next
<1>5. CASE \E s \in DOMAIN shards, op \in OpId : Unpark(s, op)
  BY <1>1, <1>5, SameSimple DEF Protocol!Next
<1>6. ASSUME NEW lease \in grants, NEW op \in OpId, LeaseOp(lease, op)
      PROVE  Protocol!LeaseOp(lease, op)
  <2>1. CASE \E k \in Cursor : Checkpoint(lease, op, k)
    <3>1. \E k \in Cursor : Protocol!Checkpoint(lease, op, k)
      BY <2>1, SameSimple
    <3> QED BY <3>1, ProtocolRecords DEF Protocol!LeaseOp
  <2>2. CASE \E k \in Cursor : Complete(lease, op, k)
    <3>1. \E k \in Cursor : Protocol!Complete(lease, op, k)
      BY <2>2, SameSimple
    <3> QED BY <3>1, ProtocolRecords DEF Protocol!LeaseOp
  <2>3. CASE \E reason \in Reason : Park(lease, op, reason)
    BY <2>3, SameSimple DEF Protocol!LeaseOp
  <2>4. ASSUME NEW cut \in Cuts(MaxChildren), NEW inherit \in BOOLEAN,
               SplitReplace(lease, op, PlannedChildren(cut, shards[lease.shard].cursor, inherit))
        PROVE  Protocol!LeaseOp(lease, op)
    <3>1. Protocol!SplitReplace(lease, op, PlannedChildren(cut, shards[lease.shard].cursor, inherit))
      BY <2>4, SameReplace
    <3>2. /\ Protocol!Cuts(MaxChildren) = Cuts(MaxChildren)
          /\ Protocol!PlannedChildren(cut, shards[lease.shard].cursor, inherit)
               = PlannedChildren(cut, shards[lease.shard].cursor, inherit)
      BY ProtocolRecords
    <3>3. \E c \in Protocol!Cuts(MaxChildren), i \in BOOLEAN :
             Protocol!SplitReplace(lease, op, Protocol!PlannedChildren(c, shards[lease.shard].cursor, i))
      BY <3>1, <3>2
    <3> QED BY <1>1, <3>3 DEF Protocol!LeaseOp
  <2>5. ASSUME NEW cut \in Cuts(2),
               SplitResidual(lease, op, [lo |-> cut[1], hi |-> cut[2]], [lo |-> cut[2], hi |-> cut[3]])
        PROVE  Protocol!LeaseOp(lease, op)
    <3>1. Protocol!SplitResidual(lease, op, [lo |-> cut[1], hi |-> cut[2]], [lo |-> cut[2], hi |-> cut[3]])
      BY <2>5, SameCarve
    <3>2. cut \in Protocol!Cuts(2)
      BY ProtocolRecords
    <3> QED BY <3>1, <3>2 DEF Protocol!LeaseOp
  <2>6. ASSUME NEW cut \in Cuts(MaxChildren), NEW inherit \in BOOLEAN,
               SplitReplaceFails(lease, op, PlannedChildren(cut, shards[lease.shard].cursor, inherit))
        PROVE  Protocol!LeaseOp(lease, op)
    <3>1. Protocol!SplitReplaceFails(lease, op, PlannedChildren(cut, shards[lease.shard].cursor, inherit))
      BY <2>6, SameFailure
    <3>2. /\ Protocol!Cuts(MaxChildren) = Cuts(MaxChildren)
          /\ Protocol!PlannedChildren(cut, shards[lease.shard].cursor, inherit)
               = PlannedChildren(cut, shards[lease.shard].cursor, inherit)
      BY ProtocolRecords
    <3>3. \E c \in Protocol!Cuts(MaxChildren), i \in BOOLEAN :
             Protocol!SplitReplaceFails(lease, op, Protocol!PlannedChildren(c, shards[lease.shard].cursor, i))
      BY <3>1, <3>2
    <3> QED BY <1>1, <3>3 DEF Protocol!LeaseOp
  <2> QED BY <1>6, <2>1, <2>2, <2>3, <2>4, <2>5, <2>6 DEF LeaseOp
<1> QED BY <1>2, <1>3, <1>4, <1>5, <1>6 DEF Next, Protocol!Next

\* The run's step, seen from its shards.
LEMMA ProtocolSteps ==
    ASSUME RunInv, RunInv', [RunNext]_runVars
    PROVE  [Protocol!Next]_(Protocol!vars)
<1>1. \/ [Next]_vars /\ run' = run
      \/ /\ run.roots = {} /\ run'.roots = DOMAIN Manifest /\ DOMAIN Manifest # {}
         /\ shards' = RootShards(Manifest)
         /\ UNCHANGED <<now, grants, history>>
      \/ UNCHANGED vars /\ run'.roots = run.roots
  BY RunStepKinds
<1>2. ASSUME Seen' = Seen, UNCHANGED <<now, grants, history>>
      PROVE  UNCHANGED Protocol!vars
  BY <1>2 DEF Seen, Protocol!vars
<1>3. CASE UNCHANGED vars /\ run'.roots = run.roots
  BY <1>2, <1>3 DEF vars, Seen, RootShards, NewShard
<1>4. CASE /\ run.roots = {} /\ run'.roots = DOMAIN Manifest /\ DOMAIN Manifest # {}
           /\ shards' = RootShards(Manifest)
           /\ UNCHANGED <<now, grants, history>>
  BY <1>2, <1>4 DEF Seen, RootShards, NewShard
<1>5. CASE UNCHANGED vars /\ run' = run
  BY <1>3, <1>5
<1>6. CASE Next /\ run' = run /\ run.roots # {}
  BY <1>6, SameNext DEF Seen
<1>7. CASE Next /\ run' = run /\ run.roots = {}
  <2>1. DOMAIN shards = {} /\ grants = {}
    BY <1>7 DEF RunInv, RunShape, Inv, FencingOK
  <2>2. Tick
    BY <1>7, <2>1 DEF Next
  <2>3. Seen' = Seen
    BY <1>7 DEF Seen, RootShards, NewShard
  <2>4. Protocol!Tick
    BY <2>2, <2>3 DEF Tick, Protocol!Tick, Seen
  <2> QED BY <2>4 DEF Protocol!Next
<1> QED BY <1>1, <1>3, <1>4, <1>5, <1>6, <1>7

\* A run with its registration, its claims and its ends is the shard protocol,
\* so every theorem about ShardCoordination holds of a run's shards
\* (create_run, register_shards, claim_next_available, unpark_shard).
THEOREM RunIsTheProtocol == RunSpec => ProtocolSpec
<1>1. RunInit => Protocol!Init
  <2> SUFFICES ASSUME RunInit PROVE Protocol!Init
    OBVIOUS
  <2>1. run.roots = {} /\ now = 1 /\ grants = {} /\ history = EmptyBag
    BY DEF RunInit
  <2>2. Protocol!EmptyBag = EmptyBag /\ Protocol!RootShards(Manifest) = RootShards(Manifest)
    <3>1. Protocol!EmptyBag = EmptyBag
      BY DEF Protocol!EmptyBag, EmptyBag, Protocol!SetToBag, SetToBag
    <3> QED BY <3>1, ProtocolRecords
  <2> QED BY <2>1, <2>2 DEF Protocol!Init
<1>2. RunInv /\ RunInv' /\ [RunNext]_runVars => [Protocol!Next]_(Protocol!vars)
  BY ProtocolSteps
<1> QED BY RunInvariance, <1>1, <1>2, PTL DEF RunSpec, ProtocolSpec, Protocol!Spec
=============================================================================

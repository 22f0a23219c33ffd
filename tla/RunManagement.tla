---------------------------- MODULE RunManagement ----------------------------
(***************************************************************************)
(* One run around its shards (traits RunManagement and ShardClaiming of    *)
(* gossip-coordination, as in_memory.rs implements them): the run record,  *)
(* its two-phase start (create_run, register_shards), its three ends, the  *)
(* claim path with its per-worker cooldown, and unpark_shard, which looks  *)
(* at the run as well as at the shard.                                     *)
(*                                                                         *)
(* The shard operations are those of ShardCoordination; they never look at *)
(* the run.  Failed calls change nothing and are stutters.                 *)
(***************************************************************************)
EXTENDS ShardCoordination

CONSTANTS
    Offered,          \* the manifests callers may register, malformed ones too
    RunOpLogCap,      \* RunRecord::OP_LOG_CAP
    ClaimCooldown     \* claim_cooldown_interval

\* The log is a fixed array of RunRecord::OP_LOG_CAP = 8 entries; two are what a
\* run ever pushes.
ASSUME RunAssumption ==
    /\ RunOpLogCap \in Nat \ {0, 1}
    /\ ClaimCooldown \in Nat
    /\ Manifest \in Offered
    /\ \A m \in Offered : ValidManifest(m) => m = Manifest

VARIABLES
    run,      \* the RunRecord; status "Absent" before create_run
    claims    \* claim_cooldowns: a worker's last successful claim, 0 if none

runVars == <<now, shards, grants, history, run, claims>>

RunStatus == {"Absent", "Initializing", "Active", "Done", "Failed", "Cancelled"}
RunEnds == {"Done", "Failed", "Cancelled"}
RunPayload == ({"RegisterShards"} \X Offered) \cup ({"CompleteRun", "FailRun", "CancelRun"} \X {0})

\* RunStatus::is_terminal
IsRunTerminal(status) == status \in RunEnds

RunInit ==
    /\ now = 1
    /\ shards = [s \in {} |-> s]
    /\ grants = {}
    /\ history = EmptyBag
    /\ run = [status |-> "Absent", roots |-> {}, completedAt |-> 0, log |-> <<>>]
    /\ claims = [w \in Worker |-> 0]

-----------------------------------------------------------------------------
(* The run's life                                                          *)

\* Mutation: the log holds one entry less than its capacity.
RunOpLogPushShort(log, op, hash) ==
    LET e == [op |-> op, hash |-> hash]
    IN IF Len(log) + 1 < RunOpLogCap THEN Append(log, e) ELSE Append(Tail(log), e)

\* RunRecord::op_log_push
RunOpLogPush(log, op, hash) ==
    LET e == [op |-> op, hash |-> hash]
    IN IF Len(log) < RunOpLogCap THEN Append(log, e) ELSE Append(Tail(log), e)

\* The order of the checks of a run operation: the record must exist, then the
\* run's operation log, then the status the operation starts from.
RunOpOutcome(op, hash, from) ==
    LET idempotency == CheckOpIdempotency(run, op, hash)
    IN IF run.status = "Absent" THEN "RunNotFound"
       ELSE IF idempotency # "Fresh" THEN idempotency
       ELSE IF run.status \notin from THEN "WrongStatus"
       ELSE "Executed"

CreateRun ==
    /\ run.status = "Absent"
    /\ run' = [run EXCEPT !.status = "Initializing"]
    /\ UNCHANGED <<now, shards, grants, history, claims>>

\* register_shards: all the root shards of a valid manifest, or none.
RegisterShards(op, m) ==
    LET hash == <<"RegisterShards", m>>
    IN /\ RunOpOutcome(op, hash, {"Initializing"}) = "Executed"
       /\ ValidManifest(m)
       /\ Cardinality(DOMAIN shards) + Cardinality(DOMAIN m) <= MaxShards
       /\ DOMAIN m \cap DOMAIN shards = {}
       /\ shards' = [s \in DOMAIN shards \cup DOMAIN m |->
                        IF s \in DOMAIN m THEN RootShards(m)[s] ELSE shards[s]]
       /\ run' = [run EXCEPT !.status = "Active", !.roots = DOMAIN m,
                             !.log = RunOpLogPush(run.log, op, hash)]
       /\ UNCHANGED <<now, grants, history, claims>>

\* Mutations: completed_at is not set, or the root list is reset.
EndRunUntimed(op, kind, status) ==
    /\ run' = [run EXCEPT !.status = status, !.log = RunOpLogPush(run.log, op, <<kind, 0>>)]
    /\ UNCHANGED <<now, shards, grants, history, claims>>
EndRunForgetsRoots(op, kind, status) ==
    /\ run' = [run EXCEPT !.status = status, !.completedAt = now, !.roots = {},
                          !.log = RunOpLogPush(run.log, op, <<kind, 0>>)]
    /\ UNCHANGED <<now, shards, grants, history, claims>>

\* apply_terminal_run_transition.  The shards are left as they are: workers
\* holding a lease may go on, and Active shards may still be acquired.
EndRun(op, kind, status) ==
    /\ run' = [run EXCEPT !.status = status, !.completedAt = now,
                          !.log = RunOpLogPush(run.log, op, <<kind, 0>>)]
    /\ UNCHANGED <<now, shards, grants, history, claims>>

CompleteRun(op) ==
    /\ RunOpOutcome(op, <<"CompleteRun", 0>>, {"Active"}) = "Executed"
    /\ EndRun(op, "CompleteRun", "Done")

FailRun(op) ==
    /\ RunOpOutcome(op, <<"FailRun", 0>>, {"Active"}) = "Executed"
    /\ EndRun(op, "FailRun", "Failed")

CancelRun(op) ==
    /\ RunOpOutcome(op, <<"CancelRun", 0>>, {"Initializing", "Active"}) = "Executed"
    /\ EndRun(op, "CancelRun", "Cancelled")

-----------------------------------------------------------------------------
(* Claims and reopening                                                    *)

\* collect_claim_candidates_into at time t: the Active shards without a live
\* lease, and the deadlines of those with one.
Candidates(t) == {s \in DOMAIN shards : shards[s].status = "Active" /\ ~IsLeasedAt(shards[s], t)}
LeaseDeadlines(t) ==
    {shards[s].deadline : s \in {x \in DOMAIN shards :
                                    shards[x].status = "Active" /\ IsLeasedAt(shards[x], t)}}

\* check_cooldown: the end of w's cooldown saturates at the end of time.
InCooldown(w) ==
    /\ ClaimCooldown > 0
    /\ claims[w] # 0
    /\ now < IF claims[w] + ClaimCooldown > MaxTime THEN MaxTime ELSE claims[w] + ClaimCooldown

\* claim_next_available with default_claim_next_available.  The scan starts at
\* an offset taken from the worker's id in a list sorted by shard id, a hash:
\* any candidate may come first, and the first acquire succeeds.
ClaimNextAvailable(w, s) ==
    /\ run.status # "Absent"
    /\ ~InCooldown(w)
    /\ s \in Candidates(now)
    /\ Acquire(w, s)
    /\ claims' = IF ClaimCooldown > 0 THEN [claims EXCEPT ![w] = now] ELSE claims
    /\ UNCHANGED run

\* Mutation: the run's status is not looked at.
UnparkShardOutcomeRunBlind(s, op) == UnparkOutcome(s, op)

\* unpark_shard's answer: a terminal run is reported first, then the shard's log.
UnparkShardOutcome(s, op) ==
    IF IsRunTerminal(run.status) THEN "RunTerminal" ELSE UnparkOutcome(s, op)

UnparkShard(s, op) ==
    /\ UnparkShardOutcome(s, op) = "Executed"
    /\ Unpark(s, op)
    /\ UNCHANGED <<run, claims>>

-----------------------------------------------------------------------------

\* The calls of CoordinationBackend, which know nothing of the run.
ShardStep ==
    /\ \/ Tick
       \/ \E w \in Worker, s \in DOMAIN shards : Acquire(w, s)
       \/ \E lease \in grants : Renew(lease)
       \/ \E lease \in grants, op \in OpId : LeaseOp(lease, op)
    /\ UNCHANGED <<run, claims>>

RunNext ==
    \/ CreateRun
    \/ \E op \in OpId, m \in Offered : RegisterShards(op, m)
    \/ \E op \in OpId : CompleteRun(op)
    \/ \E op \in OpId : FailRun(op)
    \/ \E op \in OpId : CancelRun(op)
    \/ \E w \in Worker, s \in DOMAIN shards : ClaimNextAvailable(w, s)
    \/ \E s \in DOMAIN shards, op \in OpId : UnparkShard(s, op)
    \/ ShardStep

RunSpec == RunInit /\ [][RunNext]_runVars

-----------------------------------------------------------------------------
(* Properties                                                              *)

\* RunProgress and evaluate_run_terminal, which panics for a run without shards.
CountOf(status) == Cardinality({s \in DOMAIN shards : shards[s].status = status})
EvaluateRunTerminal ==
    IF CountOf("Active") > 0 THEN "StillActive"
    ELSE IF CountOf("Parked") > 0 THEN "HasFailures"
    ELSE "AllDone"

\* The run record meets RunRecord::assert_invariants: INV-1 and INV-4 (roots
\* exactly once it has been Active), INV-2 (completed_at exactly once it ended),
\* INV-5 and INV-6 (a bounded log of distinct OpIds).
RunTypeOK ==
    /\ run.status \in RunStatus
    /\ run.roots \subseteq DOMAIN shards
    /\ run.status \in {"Active", "Done", "Failed"} => run.roots # {}
    /\ run.status \in {"Absent", "Initializing"} => run.roots = {}
    /\ run.completedAt \in 0..MaxTime
    /\ IsRunTerminal(run.status) <=> run.completedAt # 0
    /\ run.log \in Seq([op : OpId, hash : RunPayload])
    /\ Len(run.log) <= RunOpLogCap
    /\ \A i, j \in DOMAIN run.log : run.log[i].op = run.log[j].op => i = j
    /\ claims \in [Worker -> 0..MaxTime]

\* A retried registration is answered from the log for as long as the run
\* exists, whatever else happened to it, and names the root shards it made
\* (OP_LOG_CAP "provides headroom": no run operation is ever evicted).
RegistrationReplays ==
    DOMAIN shards # {} =>
        \E e \in OpLogEntries(run) :
            /\ e.hash[1] = "RegisterShards"
            /\ DOMAIN e.hash[2] = run.roots
            /\ RunOpOutcome(e.op, e.hash, {}) = "Replayed"

\* The run's record is well formed at every stage of its life, and keeps what a
\* retry of register_shards is answered from (RunRecord::check_op_idempotency).
RunRecordSound == RunTypeOK /\ RegistrationReplays

\* A run whose shards all evaluated to AllDone stays so: an orchestrator that
\* reads get_run_progress and calls complete_run later acts on a fact that still
\* holds, however many splits, claims, parks and retries come in between.
AllDoneIsFinal ==
    [][DOMAIN shards # {} /\ EvaluateRunTerminal = "AllDone"
         => EvaluateRunTerminal' = "AllDone"]_runVars

\* The end of a run is final: its record is frozen, a run cancelled before its
\* registration never gets shards, and once no shard of an ended run is Active
\* none becomes Active again (unpark_shard: no "orphaned Active shards").
RunEndIsFinal ==
    [][IsRunTerminal(run.status) =>
          /\ run' = run
          /\ run.roots = {} => DOMAIN shards' = {}
          /\ CountOf("Active") = 0 => CountOf("Active")' = 0]_runVars

\* The retry hint of a claim that found nothing is exact: at the earliest
\* deadline it names, and not a tick before, a shard is claimable if nobody
\* acts meanwhile (collect_claim_candidates_into, ClaimError::NoneAvailable).
ClaimHintExact ==
    Candidates(now) = {} /\ LeaseDeadlines(now) # {} =>
        LET d == CHOOSE x \in LeaseDeadlines(now) : \A y \in LeaseDeadlines(now) : x <= y
        IN /\ Candidates(d) # {}
           /\ \A t \in now..(d - 1) : Candidates(t) = {}

\* What callers come back to a run with holds: a retried registration finds its
\* answer in the record (check_op_idempotency), and a worker that was told when
\* to claim again is told the right time (collect_claim_candidates_into).
RunSound == RunRecordSound /\ ClaimHintExact

-----------------------------------------------------------------------------
(* The run implements the shard protocol of ShardCoordination              *)

\* Until register_shards the abstract protocol shows the shards it will make.
Protocol == INSTANCE ShardCoordination
                WITH shards <- IF run.roots = {} THEN RootShards(Manifest) ELSE shards

\* Seen from its shards, a run with its registration, claims and ends is the
\* shard protocol started on the manifest, so every property of that protocol
\* is one of the run's.
ProtocolSpec == Protocol!Spec
=============================================================================

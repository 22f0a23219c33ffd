------------------------------ MODULE ClaimLoop ------------------------------
(***************************************************************************)
(* The loop of the distributed workers: claim a shard, scan it, advance it,*)
(* and claim again until the run has no Active shard (run_worker,          *)
(* claim_next, default_claim_next_available).  Workers die with leases,    *)
(* hand in a part of a shard and leave its lease to expire, or come too    *)
(* late; what they left behind must still be finished by somebody.         *)
(*                                                                         *)
(* RunManagement checks each claim against an absolute clock that ends;    *)
(* here time goes on for ever, so every deadline is the number of ticks    *)
(* that remain of it.  A claim reads the shards once and then tries the    *)
(* candidates call by call, each of which may have gone in the meantime;   *)
(* it takes less than a tick.                                              *)
(***************************************************************************)
EXTENDS Integers, Sequences
LOCAL INSTANCE SequencesExt
LOCAL INSTANCE FiniteSetsExt

CONSTANTS
    ClaimShards,     \* shard ids, positive integers
    ClaimWorkers,    \* worker ids, natural numbers
    Steady,          \* a worker that lives and keeps its leases' deadlines
    LeaseTicks,      \* the lease duration
    CooldownTicks,   \* claim_cooldown_interval; 0 turns it off
    MaxPartial       \* partial checkpoints of one shard: each moves its cursor
                     \* (select_shard_completion), so its keys bound them

ASSUME ClaimAssumption ==
    /\ ClaimShards \subseteq Nat \ {0} /\ ClaimWorkers \subseteq Nat /\ Steady \in ClaimWorkers
    /\ LeaseTicks \in Nat \ {0} /\ CooldownTicks \in Nat /\ MaxPartial \in Nat

Nobody == -1
NoHint == -1
RaceRetry == 1    \* CLAIM_RACE_RETRY_DELAY, in ticks

VARIABLES
    unfinished,  \* the Active shards; the others are Done
    holder,      \* whom a shard's record names
    left,        \* ticks until the deadline of its lease
    partials,    \* partial checkpoints of each shard so far
    cool,        \* ticks until a worker may claim again
    loop         \* where each worker's thread is

claimVars == <<unfinished, holder, left, partials, cool, loop>>

\* A thread: the candidates it has yet to try, the ticks until the instant it was
\* hinted or sleeps for, the shard it works on.
Thread(pc, queue, hint, shard) == [pc |-> pc, queue |-> queue, hint |-> hint, shard |-> shard]

Move(w, thread) == loop' = [loop EXCEPT ![w] = thread]

ClaimInit ==
    /\ unfinished = ClaimShards
    /\ holder = [s \in ClaimShards |-> Nobody]
    /\ left = [s \in ClaimShards |-> 0]
    /\ partials = [s \in ClaimShards |-> 0]
    /\ cool = [w \in ClaimWorkers |-> 0]
    /\ loop = [w \in ClaimWorkers |-> Thread("claim", <<>>, NoHint, 0)]

-----------------------------------------------------------------------------

\* claim_retry_delay: until the hinted instant, at least 1; a fixed pause
\* without one (which takes a shard that is split or reopened meanwhile: the
\* workers of this loop do neither).
Delay(hint) == IF hint = NoHint THEN RaceRetry ELSE Max({1, hint})

Tighter(hint, ticks) == IF hint = NoHint THEN ticks ELSE Min({hint, ticks})

\* ClaimError::Throttled: the cooldown of the last claim still runs.
Throttled(w) ==
    /\ loop[w].pc = "claim" /\ cool[w] > 0
    /\ Move(w, Thread("asleep", <<>>, Delay(cool[w]), 0))
    /\ UNCHANGED <<unfinished, holder, left, partials, cool>>

\* Mutation: a shard that once had a holder is no candidate again.
CandidatesNeverHeld == {s \in unfinished : holder[s] = Nobody}

\* collect_claim_candidates_into: the Active shards whose lease is over.
Candidates == {s \in unfinished : left[s] = 0}

\* The scan of default_claim_next_available: the candidates in the order of
\* their ids, from a start that spreads the workers, and the earliest deadline
\* of the shards that are leased.
Scan(w) ==
    LET sorted == SetToSortSeq(Candidates, <)
        n == Len(sorted)
        leased == {left[s] : s \in unfinished \ Candidates}
    IN /\ loop[w].pc = "claim" /\ cool[w] = 0
       /\ Move(w, Thread("try", [i \in 1..n |-> sorted[((w + i - 1) % n) + 1]],
                         IF leased = {} THEN NoHint ELSE Min(leased), 0))
       /\ UNCHANGED <<unfinished, holder, left, partials, cool>>

\* acquire_and_restore_into on the next candidate succeeds: it has still no
\* live lease.  The cooldown starts (record_claim).
TryTaken(w) ==
    /\ loop[w].pc = "try" /\ loop[w].queue # <<>>
    /\ LET s == Head(loop[w].queue)
       IN /\ s \in Candidates
          /\ holder' = [holder EXCEPT ![s] = w]
          /\ left' = [left EXCEPT ![s] = LeaseTicks]
          /\ cool' = [cool EXCEPT ![w] = CooldownTicks]
          /\ Move(w, Thread("work", <<>>, NoHint, s))
    /\ UNCHANGED <<unfinished, partials>>

\* It was lost to another worker: AlreadyLeased names a deadline, ShardTerminal
\* none, and the next candidate is tried.
TryLost(w) ==
    /\ loop[w].pc = "try" /\ loop[w].queue # <<>>
    /\ LET s == Head(loop[w].queue)
       IN /\ s \notin Candidates
          /\ Move(w, Thread("try", Tail(loop[w].queue),
                            IF s \in unfinished THEN Tighter(loop[w].hint, left[s])
                                                ELSE loop[w].hint, 0))
    /\ UNCHANGED <<unfinished, holder, left, partials, cool>>

\* ClaimError::NoneAvailable, with the earliest deadline met.
NoneAvailable(w) ==
    /\ loop[w].pc = "try" /\ loop[w].queue = <<>>
    /\ Move(w, Thread("progress", <<>>, loop[w].hint, 0))
    /\ UNCHANGED <<unfinished, holder, left, partials, cool>>

\* Mutation: a worker that finds nothing to claim leaves.
ProgressLeaves(w) ==
    /\ loop[w].pc = "progress"
    /\ Move(w, Thread("left", <<>>, NoHint, 0))
    /\ UNCHANGED <<unfinished, holder, left, partials, cool>>

\* get_run_progress, after NoneAvailable: without an Active shard the worker is
\* done (Ok(None)); otherwise it sleeps until the hinted instant.
Progress(w) ==
    /\ loop[w].pc = "progress"
    /\ Move(w, IF unfinished = {} THEN Thread("left", <<>>, NoHint, 0)
                                  ELSE Thread("asleep", <<>>, Delay(loop[w].hint), 0))
    /\ UNCHANGED <<unfinished, holder, left, partials, cool>>

Wake(w) ==
    /\ loop[w].pc = "asleep" /\ loop[w].hint = 0
    /\ Move(w, Thread("claim", <<>>, NoHint, 0))
    /\ UNCHANGED <<unfinished, holder, left, partials, cool>>

\* The worker still holds the lease it works under.
HoldsLease(w) == LET s == loop[w].shard IN s \in unfinished /\ holder[s] = w /\ left[s] > 0

\* advance_shard completes the shard.
CompleteShard(w) ==
    /\ loop[w].pc = "work" /\ HoldsLease(w)
    /\ unfinished' = unfinished \ {loop[w].shard}
    /\ left' = [left EXCEPT ![loop[w].shard] = 0]
    /\ holder' = [holder EXCEPT ![loop[w].shard] = Nobody]
    /\ Move(w, Thread("claim", <<>>, NoHint, 0))
    /\ UNCHANGED <<partials, cool>>

\* advance_shard checkpoints a part of it.  The lease stays with the worker,
\* which goes on to claim: this shard comes back when the lease runs out.
CheckpointShard(w) ==
    /\ loop[w].pc = "work" /\ HoldsLease(w)
    /\ partials[loop[w].shard] < MaxPartial
    /\ partials' = [partials EXCEPT ![loop[w].shard] = @ + 1]
    /\ Move(w, Thread("claim", <<>>, NoHint, 0))
    /\ UNCHANGED <<unfinished, holder, left, cool>>

\* The lease is gone: LeaseUncertain, StaleFence or LeaseExpired end the loop.
LoseLease(w) ==
    /\ loop[w].pc = "work" /\ ~HoldsLease(w)
    /\ Move(w, Thread("dead", <<>>, NoHint, 0))
    /\ UNCHANGED <<unfinished, holder, left, partials, cool>>

\* A worker other than the steady one fails or crashes, at any time.
Die(w) ==
    /\ w # Steady /\ loop[w].pc \notin {"left", "dead"}
    /\ Move(w, Thread("dead", <<>>, NoHint, 0))
    /\ UNCHANGED <<unfinished, holder, left, partials, cool>>

Less(n) == IF n > 0 THEN n - 1 ELSE n

\* Time passes for everybody, and not past the deadline of a lease that the
\* steady worker works under.
Elapse ==
    /\ \A w \in ClaimWorkers : loop[w].pc # "try"
    /\ loop[Steady].pc = "work" => left[loop[Steady].shard] > 1
    /\ left' = [s \in ClaimShards |-> Less(left[s])]
    /\ cool' = [w \in ClaimWorkers |-> Less(cool[w])]
    /\ loop' = [w \in ClaimWorkers |-> [loop[w] EXCEPT !.hint = Less(@)]]
    /\ UNCHANGED <<unfinished, holder, partials>>

-----------------------------------------------------------------------------

\* A call to the coordinator returns.
ClaimCall(w) == TryTaken(w) \/ TryLost(w) \/ NoneAvailable(w)

LoopStep(w) ==
    \/ Throttled(w) \/ Scan(w) \/ ClaimCall(w) \/ Progress(w) \/ Wake(w)
    \/ CompleteShard(w) \/ CheckpointShard(w) \/ LoseLease(w)

ClaimNext ==
    \/ \E w \in ClaimWorkers : LoopStep(w) \/ Die(w)
    \/ Elapse

ClaimSpec == ClaimInit /\ [][ClaimNext]_claimVars

(***************************************************************************)
(* Time passes, calls return, and the steady worker's thread is scheduled. *)
(* Nothing is assumed of the others: they may stop anywhere.               *)
(***************************************************************************)
ClaimFairSpec ==
    /\ ClaimSpec
    /\ WF_claimVars(Elapse)
    /\ \A w \in ClaimWorkers : WF_claimVars(ClaimCall(w))
    /\ WF_claimVars(LoopStep(Steady))

(***************************************************************************)
(* As long as one worker stays, every shard of the run is finished, whoever*)
(* died, stalled or gave a part back with its lease running: nobody leaves *)
(* before (claim_next: "no shards are available and the run has zero active*)
(* leases"), a hint leads back to the shard once its lease is over, and    *)
(* the cooldown does not keep the worker away for good.  Then it leaves.   *)
(***************************************************************************)
RunSettles == <>(unfinished = {} /\ loop[Steady].pc = "left")
=============================================================================

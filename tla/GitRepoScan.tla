----------------------------- MODULE GitRepoScan -----------------------------
(***************************************************************************)
(* One Git repository scanned under successive leases: the stages of       *)
(* scanner-git (runner.rs, runner_diff_history.rs, spiller.rs,             *)
(* checkpoint.rs, finalize.rs), the durable state they keep through        *)
(* GitPersistenceAdapter (git_persistence.rs), and the lease that hands    *)
(* findings and the done row to the external sinks before it commits the   *)
(* Git state (distributed/execution.rs run_git_repo_lease).                *)
(*                                                                         *)
(* A blob is a number; each packed blob is a pack plan of its own, planned *)
(* in order; loose blobs come after the packs.  A revision is what the     *)
(* mirror's refs reach, as a set of blobs.  The repository moves on        *)
(* between leases, force pushes included.  A process dies, loses its lease *)
(* or has a call fail at any step, between two writes of a backend without *)
(* atomic batches too.  Leases of one repository do not overlap here.      *)
(***************************************************************************)
EXTENDS Integers, SequencesExt

CONSTANTS
    History,      \* revision -> the blobs its commits introduce
    Fingerprint,  \* revision -> RepoArtifactFingerprint of the mirror's packs
    Loose,        \* blobs that lie outside the packs
    Secret,       \* blobs in which the engine finds something
    Corrupt,      \* blobs that cannot be decoded
    Interval,     \* CHECKPOINT_PLAN_INTERVAL
    Atomic,       \* supports_atomic_batches()
    None,         \* an absent key
    MaxFaults     \* bound: leases that end in a failure

Revision == DOMAIN History
Blob == UNION {History[r] : r \in Revision}

\* The base state of a checkpoint.
Checkpoint ==
    [stage : {"CommitPlan", "SpillDedup"}, print : {Fingerprint[r] : r \in Revision},
     plan : SUBSET Blob, cand : SUBSET Blob]

ASSUME GitAssumption ==
    /\ History \in Seq(SUBSET Nat) /\ History # << >>
    /\ DOMAIN Fingerprint = Revision
    /\ IsFiniteSet(Blob) /\ Loose \cup Secret \cup Corrupt \subseteq Blob
    /\ Interval \in Nat \ {0} /\ Atomic \in BOOLEAN
    /\ None \notin Revision \cup Checkpoint /\ MaxFaults \in Nat

VARIABLES
    rev,       \* the revision a mirror sync would fetch
    store,     \* durable Git state: checkpoint keys, seen bitmaps, watermark
    findings,  \* blobs whose findings the external sink has
    ledger,    \* revisions recorded so far in the repository's one done row
    shard,     \* "open" or "done", as the coordinator has it
    proc,      \* the leasing process, Idle when there is none
    faults,    \* failed leases
    ghost      \* history: blobs scanned by any lease; blobs lost so far, by cause

vars == <<rev, store, findings, ledger, shard, proc, faults, ghost>>

Idle == [pc |-> "idle"]

\* The commit plan of revision r against watermark m: what m reaches is
\* left out if m is an ancestor of r, and nothing otherwise.
Planned(r, m) ==
    IF m # None /\ History[m] \subseteq History[r] THEN History[r] \ History[m] ELSE History[r]

-----------------------------------------------------------------------------
(* Durable writes.  A batch is a sequence of keys and their new values; a   *)
(* deleted key is None, or the empty bitmap.                                *)

Put(key, value) == [key |-> key, value |-> value]
Delete(key) == Put(key, IF key = "staging" THEN {} ELSE None)

\* Mutation: the base is written before the stale prefix is gone.
StageOpsBaseFirst(base) == <<Put("base", base), Delete("prefix")>>

\* notify_stage_complete of a stage that has a base state and no prefix.
StageOps(base) == <<Delete("prefix"), Put("base", base)>>

PlanBase(p) ==
    [stage |-> "CommitPlan", print |-> Fingerprint[p.rev], plan |-> p.plan, cand |-> {}]

SpillBase(p) == [PlanBase(p) EXCEPT !.stage = "SpillDedup", !.cand = p.cand]

\* notify_stage_complete of PackPlanComplete and PreFinalize.
PrefixOps(p, stage) ==
    <<Put("prefix", [stage |-> stage, count |-> p.count,
                     scanned |-> p.scanned, skipped |-> p.skipped])>>

\* commit_finalize of a partial outcome: staging is discarded first, the
\* checkpoint stays.
PartialOps(p) == <<Delete("staging"), Put("scope", store.scope \cup p.scanned)>>

\* Mutation: the watermark moves before the seen scope covers it.
CompleteOpsMarkFirst(p) ==
    <<Put("mark", p.rev), Put("scope", store.scope \cup p.scanned \cup store.staging),
      Delete("staging"), Delete("prefix"), Delete("base")>>

\* Mutation: the base is deleted before the prefix.
CompleteOpsBaseFirst(p) ==
    <<Put("scope", store.scope \cup p.scanned \cup store.staging), Delete("staging"),
      Put("mark", p.rev), Delete("base"), Delete("prefix")>>

\* commit_finalize of a complete outcome on a backend without atomic batches:
\* seen scope with the staged blobs, staging, watermark, then the checkpoint.
CompleteOps(p) ==
    <<Put("scope", store.scope \cup p.scanned \cup store.staging), Delete("staging"),
      Put("mark", p.rev), Delete("prefix"), Delete("base")>>

\* apply_batch: a batch names a key at most once.
Applied(s, ops) ==
    [k \in DOMAIN s |->
        IF \E i \in DOMAIN ops : ops[i].key = k
          THEN ops[CHOOSE i \in DOMAIN ops : ops[i].key = k].value ELSE s[k]]

\* The process hands ops to the backend and goes on at pc next.
Writing(p, ops, next) == [p EXCEPT !.pc = "write", !.ops = ops, !.next = next]

\* One call of the backend: the whole batch, or one operation of it.
Write ==
    /\ proc.pc = "write"
    /\ LET batch == IF Atomic THEN proc.ops ELSE <<Head(proc.ops)>>
           rest == IF Atomic THEN << >> ELSE Tail(proc.ops)
       IN /\ store' = Applied(store, batch)
          /\ proc' = [proc EXCEPT !.pc = IF rest = << >> THEN proc.next ELSE @, !.ops = rest]
    /\ UNCHANGED <<rev, findings, ledger, shard, faults, ghost>>

-----------------------------------------------------------------------------
(* The lease.                                                               *)

Fresh(r) ==
    [pc |-> "spill", rev |-> r, plan |-> Planned(r, store.mark), todo |-> {}, cand |-> {},
     scanned |-> {}, skipped |-> {}, captured |-> {}, index |-> 0, count |-> 0, saved |-> 0,
     resumed |-> None, ops |-> << >>, next |-> "spill"]

\* from_loaded discards a checkpoint of other packs.
Stale(r) == store.base = None \/ store.base.print # Fingerprint[r]

\* What load_resume_state and from_loaded refuse outright.
Refused(r) ==
    /\ store.prefix # None
    /\ store.base = None \/ (~Stale(r) /\ store.base.stage = "CommitPlan")

\* Mutation: the plan in progress when the prefix was saved is taken as done.
ResumeAtOneTooFar(p) ==
    LET x == store.prefix
    IN [p EXCEPT !.pc = IF x.stage = "PreFinalize" THEN "finalize" ELSE "packs",
                 !.index = x.count + 1, !.count = x.count, !.saved = x.count,
                 !.scanned = x.scanned, !.skipped = x.skipped, !.resumed = x.stage]

\* The prefix gives back what was scanned and how many plans that covers; what
\* the event sink captured of it is gone with the process that scanned it.
ResumeAt(p) ==
    LET x == store.prefix
    IN [p EXCEPT !.pc = IF x.stage = "PreFinalize" THEN "finalize" ELSE "packs",
                 !.index = x.count, !.count = x.count, !.saved = x.count,
                 !.scanned = x.scanned, !.skipped = x.skipped, !.resumed = x.stage]

\* The process that continues from the stored checkpoint.
Resumed(r) ==
    LET b == store.base
        p == [Fresh(r) EXCEPT !.plan = b.plan, !.cand = b.cand, !.resumed = b.stage]
    IN IF b.stage = "CommitPlan" THEN [p EXCEPT !.todo = b.plan]
       ELSE IF store.prefix = None THEN [p EXCEPT !.pc = "packs"] ELSE ResumeAt(p)

\* A lease is granted, the mirror synced and the repository opened.
Open ==
    /\ shard = "open" /\ proc = Idle
    /\ LET f == Fresh(rev)
       IN proc' = IF Refused(rev) THEN [f EXCEPT !.pc = "fail"]
                  ELSE IF Stale(rev)
                  THEN Writing([f EXCEPT !.todo = f.plan], StageOps(PlanBase(f)), "spill")
                  ELSE Resumed(rev)
    /\ ghost' = IF Stale(rev) THEN ghost
                ELSE [ghost EXCEPT !.restored = @ \cup proc'.scanned,
                                   !.moved = @ \cup (Planned(rev, store.mark) \ proc'.plan)]
    /\ UNCHANGED <<rev, store, findings, ledger, shard, faults>>

\* Spiller::flush_batch: a batch, here of one blob, is checked against the
\* committed scope, emitted and then staged.
Spill ==
    /\ proc.pc = "spill" /\ proc.todo # {}
    /\ LET b == Min(proc.todo)
           unseen == {b} \ store.scope
       IN /\ proc' = [proc EXCEPT !.todo = @ \ {b}, !.cand = @ \cup unseen]
          /\ store' = [store EXCEPT !.staging = @ \cup unseen]
    /\ UNCHANGED <<rev, findings, ledger, shard, faults, ghost>>

SpillDone ==
    /\ proc.pc = "spill" /\ proc.todo = {}
    /\ proc' = Writing(proc, StageOps(SpillBase(proc)), "packs")
    /\ UNCHANGED <<rev, store, findings, ledger, shard, faults, ghost>>

\* Blobs bs go through the engine: decoded or skipped, findings captured.
Scanned(p, bs) ==
    [p EXCEPT !.scanned = @ \cup (bs \ Corrupt), !.skipped = @ \cup (bs \cap Corrupt),
              !.captured = @ \cup ((bs \ Corrupt) \cap Secret)]

\* A scan of blobs not yet seen also ends an earlier lease's claim to them.
Witnessed(bs) ==
    [ghost EXCEPT !.scanned = @ \cup (bs \ Corrupt), !.restored = @ \ (bs \ store.scope),
                  !.partial = @ \ (bs \ store.scope)]

\* The pack plan at position i.
PlanAt(p, i) ==
    {b \in p.cand \ Loose : Cardinality({c \in p.cand \ Loose : c < b}) = i}

\* One pack plan.  The clean prefix grows only while no plan before failed, and
\* is saved every Interval plans.
ScanPack ==
    /\ proc.pc = "packs" /\ proc.index < Cardinality(proc.cand \ Loose)
    /\ LET bs == PlanAt(proc, proc.index)
           clean == bs \cap Corrupt = {} /\ proc.index = proc.count
           p == [Scanned(proc, bs) EXCEPT !.index = @ + 1, !.count = @ + IF clean THEN 1 ELSE 0]
       IN /\ proc' = IF clean /\ p.count - p.saved >= Interval
                     THEN Writing([p EXCEPT !.saved = p.count], PrefixOps(p, "PackPlanComplete"), "packs")
                     ELSE p
          /\ ghost' = Witnessed(bs)
    /\ UNCHANGED <<rev, store, findings, ledger, shard, faults>>

\* The loose blobs, and the last checkpoint.
ScanLoose ==
    /\ proc.pc = "packs" /\ proc.index >= Cardinality(proc.cand \ Loose)
    /\ LET bs == proc.cand \cap Loose
           p == Scanned(proc, bs)
       IN /\ proc' = Writing(p, PrefixOps(p, "PreFinalize"), "finalize")
          /\ ghost' = Witnessed(bs)
    /\ UNCHANGED <<rev, store, findings, ledger, shard, faults>>

\* A partial outcome is committed on the spot and ends the lease in an error.
FinalizePartial ==
    /\ proc.pc = "finalize" /\ proc.skipped # {}
    /\ proc' = Writing(proc, PartialOps(proc), "fail")
    /\ ghost' = [ghost EXCEPT !.partial = @ \cup proc.scanned]
    /\ UNCHANGED <<rev, store, findings, ledger, shard, faults>>

\* Mutation: a complete outcome is not held back for the external sinks.
FinalizeCompleteInline ==
    /\ proc.pc = "finalize" /\ proc.skipped = {}
    /\ proc' = Writing(proc, CompleteOps(proc), "findings")
    /\ ghost' = [ghost EXCEPT !.abandoned = @ \cup (store.staging \ proc.cand)]
    /\ UNCHANGED <<rev, store, findings, ledger, shard, faults>>

\* A complete outcome is deferred (DeferredCompleteFinalizeStore).
FinalizeComplete ==
    /\ proc.pc = "finalize" /\ proc.skipped = {}
    /\ proc' = [proc EXCEPT !.pc = "findings"]
    /\ UNCHANGED <<rev, store, findings, ledger, shard, faults, ghost>>

\* submit_git_repo_persistence: findings, then the done row.
SubmitFindings ==
    /\ proc.pc = "findings"
    /\ findings' = findings \cup proc.captured
    /\ proc' = [proc EXCEPT !.pc = "ledger"]
    /\ UNCHANGED <<rev, store, ledger, shard, faults, ghost>>

SubmitDoneRow ==
    /\ proc.pc = "ledger"
    /\ ledger' = ledger \cup {proc.rev}
    /\ proc' = [proc EXCEPT !.pc = "commit"]
    /\ UNCHANGED <<rev, store, findings, shard, faults, ghost>>

\* The deferred finalize; staging is read when it is committed.
CommitFinalize ==
    /\ proc.pc = "commit"
    /\ proc' = Writing(proc, CompleteOps(proc), "complete")
    /\ ghost' = [ghost EXCEPT !.abandoned = @ \cup (store.staging \ proc.cand)]
    /\ UNCHANGED <<rev, store, findings, ledger, shard, faults>>

CompleteShard ==
    /\ proc.pc = "complete"
    /\ shard' = "done" /\ proc' = Idle
    /\ UNCHANGED <<rev, store, findings, ledger, faults, ghost>>

-----------------------------------------------------------------------------
(* The world.                                                               *)

\* The lease ends in an error of its own.
LeaseError ==
    /\ proc.pc = "fail"
    /\ proc' = Idle
    /\ UNCHANGED <<rev, store, findings, ledger, shard, faults, ghost>>

\* A crash, a lost lease or a failed call, at any step.  What was written stays.
Fail ==
    /\ proc # Idle /\ faults < MaxFaults
    /\ proc' = Idle /\ faults' = faults + 1
    /\ UNCHANGED <<rev, store, findings, ledger, shard, ghost>>

\* The repository moves.
Push ==
    /\ rev < Len(History)
    /\ rev' = rev + 1
    /\ UNCHANGED <<store, findings, ledger, shard, proc, faults, ghost>>

\* A later run has a shard for the repository again.
NextRun ==
    /\ shard = "done"
    /\ shard' = "open"
    /\ UNCHANGED <<rev, store, findings, ledger, proc, faults, ghost>>

Init ==
    /\ rev = 1
    /\ store = [base |-> None, prefix |-> None, scope |-> {}, staging |-> {}, mark |-> None]
    /\ findings = {} /\ ledger = {}
    /\ shard = "open" /\ proc = Idle /\ faults = 0
    /\ ghost = [scanned |-> {}, restored |-> {}, partial |-> {}, abandoned |-> {}, moved |-> {}]

Step ==
    \/ Open \/ Spill \/ SpillDone \/ ScanPack \/ ScanLoose
    \/ FinalizePartial \/ FinalizeComplete \/ SubmitFindings \/ SubmitDoneRow
    \/ CommitFinalize \/ Write \/ CompleteShard \/ LeaseError

Next == Step \/ Fail \/ Push \/ NextRun

Spec == Init /\ [][Next]_vars

\* A claimed shard is worked on, and re-claimed after a failure.
FairSpec == Spec /\ WF_vars(Step)

-----------------------------------------------------------------------------
(* Properties.                                                              *)

\* The durable keys hold what the readers of git_persistence.rs decode, a prefix
\* only ever beside the SpillDedup base whose candidates it covers: count plans
\* and what they scanned (load_resume_state and from_loaded refuse the rest).
CheckpointSound ==
    /\ store.base = None \/ store.base \in Checkpoint
    /\ store.prefix # None =>
         /\ store.base # None
         /\ store.base.stage = "SpillDedup"
         /\ store.prefix.scanned \cup store.prefix.skipped \subseteq store.base.cand
         /\ UNION {PlanAt(store.base, i) : i \in 0..(store.prefix.count - 1)} \subseteq store.prefix.scanned
    /\ store.scope \cup store.staging \subseteq Blob
    /\ store.mark \in Revision \cup {None}

\* The watermark is never ahead of the seen scope or of the done row: every blob
\* it covers was committed as seen, except those a resumed plan left out because
\* the refs had moved under an unchanged pack fingerprint.
WatermarkCovered ==
    store.mark # None =>
        /\ History[store.mark] \subseteq store.scope \cup ghost.moved
        /\ store.mark \in ledger

\* A blob counts as seen only once some lease scanned it, except for what was
\* staged under a checkpoint that was discarded later.
SeenWasScanned == store.scope \subseteq ghost.scanned \cup ghost.abandoned

\* What a crashed lease leaves in the store can be trusted by the next one: its
\* checkpoint loads and counts what was staged, and what is marked seen was scanned
\* (save_checkpoint, commit_finalize).
StoreSound == CheckpointSound /\ SeenWasScanned

\* A blob with a secret that later leases will skip as seen has its findings in
\* the sink, unless it was scanned by a lease that did not get to submit (its
\* result restored from a checkpoint, or committed by a partial finalize), or
\* never scanned.
LossesAccounted ==
    store.scope \cap Secret
        \subseteq findings \cup ghost.restored \cup ghost.partial \cup ghost.abandoned

\* An open shard is settled: its lease completes, or blobs that cannot be
\* decoded are on record.  No interrupted write leaves a checkpoint on which
\* every later lease fails.
ShardSettles ==
    shard = "open" ~> (shard = "done" \/ (store.prefix # None /\ store.prefix.skipped # {}))

\* A blob the watermark covers has its findings in the sink.  Of a lease that
\* fails before they are there, submit_git_repo_persistence says: "the repo stays
\* reclaimable. On re-claim the repo is re-scanned, so partial durable state
\* remains safe".
FindingsDelivered ==
    store.mark # None => History[store.mark] \cap Secret \subseteq findings

\* A blob that later leases pass over, because it counts as seen or lies below the
\* watermark, was scanned: "ref tips never advance past unscanned content"
\* (persist.rs, finalize.rs) and "no blobs are permanently hidden" (spiller.rs).
NothingHidden ==
    store.scope \cup (IF store.mark = None THEN {} ELSE History[store.mark]) \subseteq ghost.scanned
=============================================================================

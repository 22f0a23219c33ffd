--------------------------- MODULE LeaseExecution ---------------------------
(***************************************************************************)
(* One filesystem shard executed under leases (gossip-scanner-runtime:     *)
(* distributed/execution.rs, lease_ops.rs, commit_bridge.rs,               *)
(* commit_pipeline.rs, result_committer.rs).                               *)
(*                                                                         *)
(* Each worker that holds a lease runs four threads: the scan thread reads *)
(* pages, drops what the done ledger already has and submits the rest; the *)
(* commit worker writes findings, then the done row, and reports; the      *)
(* drain thread feeds the reports to the checkpoint aggregator; and a      *)
(* watchdog gives the lease up when its deadline passes.  They share two   *)
(* bounded queues, a cancellation token and the uncertainty signal.  The   *)
(* worker then joins them and advances the shard, if nothing went wrong.   *)
(* Persistence calls fail, with or without effect; workers crash at any    *)
(* step; a worker whose lease was taken over goes on writing.              *)
(*                                                                         *)
(* The items of the shard are 1..N in key order; an item stands for its    *)
(* key, its findings and its done row.  The clocks of worker and           *)
(* coordinator are unrelated, so either may find the lease expired at any  *)
(* moment.                                                                 *)
(***************************************************************************)
EXTENDS PrefixCheckpoint, Sequences

CONSTANTS
    Worker,        \* worker processes
    NoWorker,      \* "no lease holder"
    N,             \* items of the shard
    Capacity,      \* commit_queue_capacity, of either queue
    MaxClaims,     \* bound: leases granted in a behaviour
    MaxFaults      \* bound: failing persistence and enumeration calls

ASSUME LeaseAssumption ==
    /\ NoWorker \notin Worker
    /\ N \in Nat /\ MaxClaims \in Nat /\ MaxFaults \in Nat
    /\ Capacity \in Nat \ {0}
    /\ MaxSeq > N

VARIABLES
    shard,     \* the shard record: fence, holder, whether its lease is live, cursor, done
    findings,  \* items whose findings are durable
    ledger,    \* items with a terminal done-ledger row
    scan,      \* worker -> scan thread, which is also the worker's main thread
    commit,    \* worker -> commit worker
    drain,     \* worker -> drain thread
    watch,     \* worker -> watchdog: "watch", "noted" or "exited"
    cancel,    \* worker -> cancellation token
    signal,    \* worker -> LeaseUncertaintySignal
    submitQ,   \* worker -> execution queue
    outcomeQ,  \* worker -> outcome queue
    faults,    \* failing calls so far
    trail      \* history: the fences found uncertain, and those that advanced the shard, how

pipeVars == <<commit, drain, watch, cancel, signal, submitQ, outcomeQ>>
durableVars == <<shard, findings, ledger>>
vars == <<durableVars, scan, pipeVars, faults, trail>>

Items == 1..N

\* Nothing is running: the process has no lease, or is gone.
Stopped(pc) == [pc |-> pc, fence |-> 0, start |-> 0, resume |-> 0, todo |-> {}, halt |-> FALSE,
                last |-> 0, awaiting |-> FALSE, paged |-> FALSE, confirmed |-> FALSE,
                error |-> FALSE, next |-> 0, submitted |-> {}, kind |-> "None", advance |-> 0]
NoCommit == [pc |-> "exited", work |-> [seq |-> 0, key |-> 0], ok |-> FALSE]
NoDrain == [pc |-> "none", error |-> FALSE, agg |-> NewAggregator(0, MaxSeq), committed |-> << >>]

LeaseInit ==
    /\ shard = [fence |-> 1, owner |-> NoWorker, live |-> FALSE, cursor |-> 0, done |-> FALSE]
    /\ findings = {} /\ ledger = {}
    /\ scan = [w \in Worker |-> Stopped("idle")]
    /\ commit = [w \in Worker |-> NoCommit]
    /\ drain = [w \in Worker |-> NoDrain]
    /\ watch = [w \in Worker |-> "exited"]
    /\ cancel = [w \in Worker |-> FALSE]
    /\ signal = [w \in Worker |-> "Open"]
    /\ submitQ = [w \in Worker |-> << >>]
    /\ outcomeQ = [w \in Worker |-> << >>]
    /\ faults = 0
    /\ trail = {}

\* The sink that holds the sending end is consumed by finish.
SenderOpen(w) == scan[w].pc \in {"page", "submit", "offer", "send"}

Fault == faults < MaxFaults /\ faults' = faults + 1

-----------------------------------------------------------------------------
(* The lease: claim_next, the deadline, advance_shard                      *)

\* claim_next: a worker asks until the shard is free, and starts over from the
\* durable cursor with fresh queues, token and signal.
Claim(w) ==
    /\ scan[w].pc \in {"idle", "dead"}
    /\ ~shard.done /\ ~shard.live /\ shard.fence <= MaxClaims
    /\ shard' = [shard EXCEPT !.fence = @ + 1, !.owner = w, !.live = TRUE]
    /\ scan' = [scan EXCEPT ![w] = [Stopped("page") EXCEPT
                    !.fence = shard.fence + 1, !.start = shard.cursor, !.resume = shard.cursor]]
    /\ commit' = [commit EXCEPT ![w] = [NoCommit EXCEPT !.pc = "recv"]]
    /\ drain' = [drain EXCEPT ![w] = [NoDrain EXCEPT !.pc = "recv"]]
    /\ watch' = [watch EXCEPT ![w] = "watch"]
    /\ cancel' = [cancel EXCEPT ![w] = FALSE]
    /\ signal' = [signal EXCEPT ![w] = "Open"]
    /\ submitQ' = [submitQ EXCEPT ![w] = << >>]
    /\ outcomeQ' = [outcomeQ EXCEPT ![w] = << >>]
    /\ UNCHANGED <<findings, ledger, faults, trail>>

\* The coordinator's clock reaches the deadline.
Lapse ==
    /\ shard.live
    /\ shard' = [shard EXCEPT !.live = FALSE]
    /\ UNCHANGED <<findings, ledger, scan, pipeVars, faults, trail>>

\* checkpoint and complete, as the coordinator answers them.
Advanced(w) ==
    LET s == scan[w]
    IN  IF s.kind = "Complete"
          THEN [shard EXCEPT !.cursor = s.advance, !.done = TRUE, !.owner = NoWorker, !.live = FALSE]
          ELSE [shard EXCEPT !.cursor = s.advance]

\* Mutation: the coordinator takes any worker's word.
AdvanceUnfenced(w) ==
    /\ scan[w].pc = "advance"
    /\ shard' = Advanced(w)
    /\ scan' = [scan EXCEPT ![w] = Stopped("idle")]
    /\ trail' = trail \cup {<<scan[w].kind, scan[w].fence>>}
    /\ UNCHANGED <<findings, ledger, pipeVars, faults>>

\* advance_shard: one call under the lease's fence; StaleFence, LeaseExpired or
\* any other refusal ends the worker.
Advance(w) ==
    /\ scan[w].pc = "advance"
    /\ IF /\ ~shard.done /\ shard.live
          /\ shard.owner = w /\ shard.fence = scan[w].fence
          /\ scan[w].advance >= shard.cursor
         THEN /\ shard' = Advanced(w)
              /\ scan' = [scan EXCEPT ![w] = Stopped("idle")]
              /\ trail' = trail \cup {<<scan[w].kind, scan[w].fence>>}
         ELSE /\ scan' = [scan EXCEPT ![w] = Stopped("dead")]
              /\ UNCHANGED <<shard, trail>>
    /\ UNCHANGED <<findings, ledger, pipeVars, faults>>

\* The process is lost, threads, queues and all.
Crash(w) ==
    /\ scan[w].pc \notin {"idle", "dead"}
    /\ scan' = [scan EXCEPT ![w] = Stopped("dead")]
    /\ commit' = [commit EXCEPT ![w] = NoCommit]
    /\ drain' = [drain EXCEPT ![w] = NoDrain]
    /\ watch' = [watch EXCEPT ![w] = "exited"]
    /\ cancel' = [cancel EXCEPT ![w] = FALSE]
    /\ signal' = [signal EXCEPT ![w] = "Open"]
    /\ submitQ' = [submitQ EXCEPT ![w] = << >>]
    /\ outcomeQ' = [outcomeQ EXCEPT ![w] = << >>]
    /\ UNCHANGED <<durableVars, faults, trail>>

-----------------------------------------------------------------------------
(* The scan thread: scan_ordered_source_with_engine                        *)

\* Mutation: submission goes on past an item that must be scanned again.
SubmittablePastStop(misses, stop) == misses \ {stop}

\* The outcomes a page submits: those before the first item that was deferred
\* or ended retryably (stop, 0 if there is none), so that no checkpoint can
\* cover it.
Submittable(misses, stop) == {i \in misses : stop = 0 \/ i < stop}

\* The outcomes of a page are submitted in key order.
First(S) == CHOOSE n \in S : \A m \in S : n <= m

\* execute_source and prefilter_done_ledger: a page of the items after the
\* resume cursor, the ones already done left out.  A page may be called
\* terminal only if it reaches the end of the shard.
FillPage(w) ==
    /\ scan[w].pc = "page" /\ ~cancel[w]
    /\ \E last \in (scan[w].resume + 1)..N :
          LET misses == {i \in (scan[w].resume + 1)..last : i \notin ledger}
          IN  \E stop \in misses \cup {0}, terminal \in {FALSE, last = N} :
                scan' = [scan EXCEPT ![w] = [@ EXCEPT
                    !.pc = "submit", !.todo = Submittable(misses, stop),
                    !.halt = (stop # 0), !.last = last, !.awaiting = terminal, !.paged = TRUE]]
    /\ UNCHANGED <<durableVars, pipeVars, faults, trail>>

\* ExhaustedEmpty confirms the end, unless a page came before it that did not
\* say it was the last.
Exhausted(w) ==
    /\ scan[w].pc = "page" /\ ~cancel[w]
    /\ scan[w].resume >= N
    /\ LET unannounced == ~scan[w].awaiting /\ scan[w].paged
       IN  scan' = [scan EXCEPT ![w] = [@ EXCEPT
              !.pc = "finish", !.error = unannounced, !.confirmed = ~unannounced]]
    /\ UNCHANGED <<durableVars, pipeVars, faults, trail>>

\* Stopped, or an error of the ledger lookup or of the scan: partial progress
\* survives a retryable stop only once a page was executed.
EnumerateStops(w, retryable) ==
    /\ scan[w].pc = "page" /\ ~cancel[w]
    /\ Fault
    /\ scan' = [scan EXCEPT ![w] = [@ EXCEPT
           !.pc = "finish", !.error = ~retryable \/ ~scan[w].paged]]
    /\ UNCHANGED <<durableVars, pipeVars, trail>>

\* The cancellation check at the head of the page loop and of the item loop.
ScanCancelled(w) ==
    /\ cancel[w]
    /\ scan[w].pc = "page" \/ (scan[w].pc = "submit" /\ scan[w].todo # {})
    /\ scan' = [scan EXCEPT ![w].pc = "finish"]
    /\ UNCHANGED <<durableVars, pipeVars, faults, trail>>

\* submit_ordered_item takes its sequence number before it submits.
NextItem(w) ==
    /\ scan[w].pc = "submit" /\ scan[w].todo # {} /\ ~cancel[w]
    /\ scan' = [scan EXCEPT ![w].pc = "offer", ![w].next = @ + 1]
    /\ UNCHANGED <<durableVars, pipeVars, faults, trail>>

\* The page is submitted: stop before a deferred or retryable item, or go on.
PageDone(w) ==
    /\ scan[w].pc = "submit" /\ scan[w].todo = {}
    /\ scan' = IF scan[w].halt
                 THEN [scan EXCEPT ![w].pc = "finish"]
                 ELSE [scan EXCEPT ![w].pc = "page", ![w].resume = scan[w].last]
    /\ UNCHANGED <<durableVars, pipeVars, faults, trail>>

\* CommitPipelineSender::submit looks at the token, then blocks on the queue.
Offer(w) ==
    /\ scan[w].pc = "offer"
    /\ scan' = IF cancel[w]
                 THEN [scan EXCEPT ![w].pc = "finish", ![w].error = TRUE]
                 ELSE [scan EXCEPT ![w].pc = "send"]
    /\ UNCHANGED <<durableVars, pipeVars, faults, trail>>

Send(w) ==
    /\ scan[w].pc = "send"
    /\ \/ /\ commit[w].pc = "exited"
          /\ scan' = [scan EXCEPT ![w].pc = "finish", ![w].error = TRUE]
          /\ UNCHANGED submitQ
       \/ LET seq == scan[w].next - 1
              key == First(scan[w].todo)
          IN  /\ commit[w].pc # "exited" /\ Len(submitQ[w]) < Capacity
              /\ submitQ' = [submitQ EXCEPT ![w] = Append(@, [seq |-> seq, key |-> key])]
              /\ scan' = [scan EXCEPT ![w].pc = "submit", ![w].todo = @ \ {key}, ![w].submitted = @ \cup {seq}]
    /\ UNCHANGED <<durableVars, commit, drain, watch, cancel, signal, outcomeQ, faults, trail>>

-----------------------------------------------------------------------------
(* The commit worker: run_commit_stage, ResultCommitter::commit_item       *)

CommitReceive(w) ==
    /\ commit[w].pc = "recv" /\ submitQ[w] # << >>
    /\ commit' = [commit EXCEPT ![w] = [pc |-> "taken", work |-> Head(submitQ[w]), ok |-> FALSE]]
    /\ submitQ' = [submitQ EXCEPT ![w] = Tail(@)]
    /\ UNCHANGED <<durableVars, scan, drain, watch, cancel, signal, outcomeQ, faults, trail>>

\* Cancelled, or the queue is empty and its sender gone.  What a cancelled
\* worker leaves in the queue is lost.
CommitExit(w) ==
    /\ commit[w].pc = "recv"
    /\ cancel[w] \/ (submitQ[w] = << >> /\ ~SenderOpen(w))
    /\ commit' = [commit EXCEPT ![w].pc = "exited"]
    /\ UNCHANGED <<durableVars, scan, drain, watch, cancel, signal, submitQ, outcomeQ, faults, trail>>

\* try_send: a full outcome queue loses the report.
TrySent(w, ok) ==
    IF Len(outcomeQ[w]) < Capacity
      THEN Append(outcomeQ[w], [work |-> commit[w].work, ok |-> ok])
      ELSE outcomeQ[w]

\* Mutation: an item taken is committed without its findings.
CommitTakenLedgerOnly(w) ==
    /\ commit[w].pc = "taken"
    /\ commit' = [commit EXCEPT ![w].pc = "ledger"]
    /\ UNCHANGED <<durableVars, scan, drain, watch, cancel, signal, submitQ, outcomeQ, faults, trail>>

\* The second look at the token, before anything is written.
CommitTaken(w) ==
    /\ commit[w].pc = "taken"
    /\ IF cancel[w]
         THEN /\ outcomeQ' = [outcomeQ EXCEPT ![w] = TrySent(w, FALSE)]
              /\ commit' = [commit EXCEPT ![w].pc = "exited"]
         ELSE /\ commit' = [commit EXCEPT ![w].pc = "findings"]
              /\ UNCHANGED outcomeQ
    /\ UNCHANGED <<durableVars, scan, drain, watch, cancel, signal, submitQ, faults, trail>>

\* upsert_batch and wait_findings
CommitFindings(w) ==
    /\ commit[w].pc = "findings"
    /\ findings' = findings \cup {commit[w].work.key}
    /\ commit' = [commit EXCEPT ![w].pc = "ledger"]
    /\ UNCHANGED <<shard, ledger, scan, drain, watch, cancel, signal, submitQ, outcomeQ, faults, trail>>

\* batch_upsert and wait_done_ledger
CommitLedger(w) ==
    /\ commit[w].pc = "ledger"
    /\ ledger' = ledger \cup {commit[w].work.key}
    /\ commit' = [commit EXCEPT ![w].pc = "outcome", ![w].ok = TRUE]
    /\ UNCHANGED <<shard, findings, scan, drain, watch, cancel, signal, submitQ, outcomeQ, faults, trail>>

\* Either call answers with an error; its write may have landed all the same.
CommitFails(w, landed) ==
    LET key == IF landed THEN {commit[w].work.key} ELSE {}
    IN  /\ Fault
        /\ \/ commit[w].pc = "findings" /\ findings' = findings \cup key /\ UNCHANGED ledger
           \/ commit[w].pc = "ledger" /\ ledger' = ledger \cup key /\ UNCHANGED findings
        /\ commit' = [commit EXCEPT ![w].pc = "outcome"]
        /\ UNCHANGED <<shard, scan, drain, watch, cancel, signal, submitQ, outcomeQ, trail>>

\* The third look at the token: a cancelled worker only tries to report.
CommitReport(w) ==
    /\ commit[w].pc = "outcome"
    /\ IF cancel[w]
         THEN /\ outcomeQ' = [outcomeQ EXCEPT ![w] = TrySent(w, commit[w].ok)]
              /\ commit' = [commit EXCEPT ![w].pc = "exited"]
         ELSE /\ commit' = [commit EXCEPT ![w].pc = "report"]
              /\ UNCHANGED outcomeQ
    /\ UNCHANGED <<durableVars, scan, drain, watch, cancel, signal, submitQ, faults, trail>>

\* The blocking send.  Its receiver outlives the worker: the drain thread lets
\* go of it only after the worker has exited.
CommitSend(w) ==
    /\ commit[w].pc = "report" /\ Len(outcomeQ[w]) < Capacity
    /\ outcomeQ' = [outcomeQ EXCEPT ![w] = TrySent(w, commit[w].ok)]
    /\ commit' = [commit EXCEPT ![w].pc = "recv"]
    /\ UNCHANGED <<durableVars, scan, drain, watch, cancel, signal, submitQ, faults, trail>>

-----------------------------------------------------------------------------
(* The drain thread: drain_commit_stage                                    *)

Receipt(work) ==
    [seq |-> work.seq, valid |-> TRUE, kind |-> "OrderedContent", key |-> work.key]

\* The drain thread once it has taken outcome o.
Drained(d, o) ==
    LET recorded == RecordOutcome(d.agg, Receipt(o.work))
    IN  CASE d.error -> d
          [] ~d.error /\ o.ok /\ recorded \in {"Buffered", "DuplicateBuffered", "AlreadyCheckpointed"} ->
               [d EXCEPT !.agg = AfterRecord(d.agg, Receipt(o.work)), !.committed = Append(@, o.work.seq)]
          [] OTHER -> [d EXCEPT !.error = TRUE]

\* Mutation: the drain thread stops receiving at the first error.
DrainReceiveStops(w) ==
    /\ drain[w].pc = "recv" /\ outcomeQ[w] # << >> /\ ~drain[w].error
    /\ drain' = [drain EXCEPT ![w] = Drained(@, Head(outcomeQ[w]))]
    /\ cancel' = [cancel EXCEPT ![w] = @ \/ drain'[w].error]
    /\ outcomeQ' = [outcomeQ EXCEPT ![w] = Tail(@)]
    /\ UNCHANGED <<durableVars, scan, commit, watch, signal, submitQ, faults, trail>>

\* The first failure cancels the pipeline; the queue is drained to the end in
\* any case.
DrainReceive(w) ==
    /\ drain[w].pc = "recv" /\ outcomeQ[w] # << >>
    /\ drain' = [drain EXCEPT ![w] = Drained(@, Head(outcomeQ[w]))]
    /\ cancel' = [cancel EXCEPT ![w] = @ \/ drain'[w].error]
    /\ outcomeQ' = [outcomeQ EXCEPT ![w] = Tail(@)]
    /\ UNCHANGED <<durableVars, scan, commit, watch, signal, submitQ, faults, trail>>

\* The commit worker is joined; dropping the drainer cancels the token.
DrainJoin(w) ==
    /\ drain[w].pc = "recv" /\ outcomeQ[w] = << >> /\ commit[w].pc = "exited"
    /\ drain' = [drain EXCEPT ![w].pc = IF drain[w].error THEN "failed" ELSE "drained"]
    /\ cancel' = [cancel EXCEPT ![w] = TRUE]
    /\ UNCHANGED <<durableVars, scan, commit, watch, signal, submitQ, outcomeQ, faults, trail>>

\* Mutation: sealing the signal erases an uncertainty already recorded.
DrainCloseForgets(w) ==
    /\ drain[w].pc = "drained"
    /\ drain' = [drain EXCEPT ![w].pc = "ok"]
    /\ signal' = [signal EXCEPT ![w] = "Closed"]
    /\ UNCHANGED <<durableVars, scan, commit, watch, cancel, submitQ, outcomeQ, faults, trail>>

\* LeaseUncertaintySignal::close, after a drain without error
DrainClose(w) ==
    /\ drain[w].pc = "drained"
    /\ drain' = [drain EXCEPT ![w].pc = "ok"]
    /\ signal' = [signal EXCEPT ![w] = IF @ = "Open" THEN "Closed" ELSE @]
    /\ UNCHANGED <<durableVars, scan, commit, watch, cancel, submitQ, outcomeQ, faults, trail>>

-----------------------------------------------------------------------------
(* The watchdog: watch_lease_deadline                                      *)

\* Mutation: the token is cancelled before the uncertainty is noted.
WatchExpireCancelFirst(w) ==
    /\ watch[w] = "watch"
    /\ cancel' = [cancel EXCEPT ![w] = TRUE]
    /\ watch' = [watch EXCEPT ![w] = "exited"]
    /\ UNCHANGED <<durableVars, scan, commit, drain, signal, submitQ, outcomeQ, faults, trail>>

\* The worker's clock reaches the deadline: LeaseUncertaintySignal::note
WatchExpire(w) ==
    /\ watch[w] = "watch"
    /\ IF signal[w] = "Open"
         THEN /\ signal' = [signal EXCEPT ![w] = "Recorded"]
              /\ watch' = [watch EXCEPT ![w] = "noted"]
              /\ trail' = trail \cup {<<"Uncertain", scan[w].fence>>}
         ELSE /\ watch' = [watch EXCEPT ![w] = "exited"]
              /\ UNCHANGED <<signal, trail>>
    /\ UNCHANGED <<durableVars, scan, commit, drain, cancel, submitQ, outcomeQ, faults>>

WatchCancel(w) ==
    /\ watch[w] = "noted"
    /\ cancel' = [cancel EXCEPT ![w] = TRUE]
    /\ watch' = [watch EXCEPT ![w] = "exited"]
    /\ UNCHANGED <<durableVars, scan, commit, drain, signal, submitQ, outcomeQ, faults, trail>>

\* lease_watch_done is set and the watchdog unparked.
WatchDone(w) ==
    /\ watch[w] = "watch" /\ scan[w].pc = "unwatch"
    /\ watch' = [watch EXCEPT ![w] = "exited"]
    /\ UNCHANGED <<durableVars, scan, commit, drain, cancel, signal, submitQ, outcomeQ, faults, trail>>

-----------------------------------------------------------------------------
(* run_filesystem_lease: join the threads and decide                       *)

\* ReceiptCommitSink::finish drops the sender.
Finish(w) ==
    /\ scan[w].pc = "finish"
    /\ scan' = [scan EXCEPT ![w].pc = "join"]
    /\ UNCHANGED <<durableVars, pipeVars, faults, trail>>

JoinDrain(w) ==
    /\ scan[w].pc = "join" /\ drain[w].pc \in {"ok", "failed"}
    /\ scan' = [scan EXCEPT ![w].pc = "unwatch"]
    /\ UNCHANGED <<durableVars, pipeVars, faults, trail>>

Elements(seq) == {seq[i] : i \in DOMAIN seq}

\* wait_for_submitted_commits, and the prepared prefix counts what was committed.
Accounted(s, d) ==
    /\ Elements(d.committed) = s.submitted
    /\ Cardinality(s.submitted) = Len(d.committed)
    /\ \E p \in AfterPrepare(d.agg).pending : p.units = Len(d.committed)

\* The cursor of the durable prefix, or else that of the last page that needed
\* no work, or else 0.
ProgressCursor(s, d) ==
    IF d.committed # << >>
      THEN (CHOOSE p \in AfterPrepare(d.agg).pending : TRUE).key
      ELSE IF s.resume # s.start THEN s.resume ELSE 0

\* resolve_filesystem_lease_results, then select_shard_completion.  An exhausted
\* shard without new progress completes at the cursor it was claimed with.
Verdict(s, d, sig) ==
    CASE sig = "Recorded" -> [kind |-> "LeaseUncertain", advance |-> 0]
      [] sig # "Recorded" /\ s.error -> [kind |-> "Runtime", advance |-> 0]
      [] sig # "Recorded" /\ ~s.error /\ d.pc = "failed" -> [kind |-> "Durability", advance |-> 0]
      [] OTHER ->
           IF d.committed # << >> /\ ~Accounted(s, d)
             THEN [kind |-> "Mismatch", advance |-> 0]
             ELSE LET progress == ProgressCursor(s, d)
                  IN  CASE s.confirmed -> [kind |-> "Complete",
                                           advance |-> IF progress # 0 THEN progress ELSE s.start]
                        [] ~s.confirmed /\ progress # 0 -> [kind |-> "Checkpoint", advance |-> progress]
                        [] OTHER -> [kind |-> "NoProgress", advance |-> 0]

Resolve(w) ==
    LET v == Verdict(scan[w], drain[w], signal[w])
    IN  /\ scan[w].pc = "unwatch" /\ watch[w] = "exited"
        /\ scan' = [scan EXCEPT ![w] = [Stopped(IF v.kind \in {"Complete", "Checkpoint"}
                                                  THEN "advance" ELSE "dead")
                       EXCEPT !.fence = scan[w].fence, !.kind = v.kind, !.advance = v.advance]]
        /\ UNCHANGED <<durableVars, pipeVars, faults, trail>>

-----------------------------------------------------------------------------

ScanStep(w) ==
    \/ FillPage(w) \/ Exhausted(w) \/ ScanCancelled(w)
    \/ \E retryable \in BOOLEAN : EnumerateStops(w, retryable)
    \/ NextItem(w) \/ PageDone(w) \/ Offer(w) \/ Send(w)
    \/ Finish(w) \/ JoinDrain(w) \/ Resolve(w) \/ Advance(w)

CommitStep(w) ==
    \/ CommitReceive(w) \/ CommitExit(w) \/ CommitTaken(w)
    \/ CommitFindings(w) \/ CommitLedger(w)
    \/ \E landed \in BOOLEAN : CommitFails(w, landed)
    \/ CommitReport(w) \/ CommitSend(w)

DrainStep(w) == DrainReceive(w) \/ DrainJoin(w) \/ DrainClose(w)

WatchStep(w) == WatchCancel(w) \/ WatchDone(w)

LeaseNext ==
    \/ Lapse
    \/ \E w \in Worker :
          \/ Claim(w) \/ WatchExpire(w) \/ Crash(w)
          \/ ScanStep(w) \/ CommitStep(w) \/ DrainStep(w) \/ WatchStep(w)

LeaseSpec == LeaseInit /\ [][LeaseNext]_vars

\* Every thread that can take a step takes one; persistence and coordinator
\* calls return.  No deadline need ever pass and nobody need claim.
LeaseFairSpec ==
    /\ LeaseSpec
    /\ \A w \in Worker : /\ WF_vars(ScanStep(w)) /\ WF_vars(CommitStep(w))
                         /\ WF_vars(DrainStep(w)) /\ WF_vars(WatchStep(w))

-----------------------------------------------------------------------------
(* Properties                                                              *)

\* The durable state of a shard only ever changes as DurableScan allows,
\* whichever of the workers, stale ones included, makes the change
\* (ResultCommitter, advance_shard).
Durable == INSTANCE DurableScan WITH cursor <- shard.cursor, done <- shard.done
ImplementsDurableScan == Durable!DurableSpec

\* NothingSkipped of DurableScan: an item behind the cursor is done, a done item
\* has its findings (scan_ordered_source_with_engine, commit_item).
NoItemSkipped == Durable!NothingSkipped

\* drain_commit_stage, "This is safe because drain_error is always set before
\* drainer.cancel()": reports are lost only in an execution that is already
\* known to have failed, so the cross-check of submitted and committed numbers
\* never fails on its own.
GapsHaveACause == \A w \in Worker : scan[w].kind # "Mismatch"

\* watch_lease_deadline and LeaseUncertaintySignal: a worker whose deadline
\* passed before its results were drained does not advance the shard.
UncertainNeverAdvances ==
    \A f \in 1..shard.fence :
        <<"Uncertain", f>> \in trail => {<<"Checkpoint", f>>, <<"Complete", f>>} \cap trail = {}

\* advance_shard under a fence: a shard is completed once, by the last lease that
\* ever advances it, though a stale worker may reach the same verdict later.
CompletedOnce ==
    \A t, u \in trail :
        t[1] = "Complete" /\ u[1] \in {"Checkpoint", "Complete"} /\ t # u => u[2] < t[2]

\* commit_pipeline.rs and drain_commit_stage: full queues, failing sinks, a
\* cancellation at any moment: an execution always ends, with every thread
\* joined.
LeaseEnds ==
    \A w \in Worker : scan[w].pc \notin {"idle", "dead"} ~> scan[w].pc \in {"idle", "dead"}
=============================================================================

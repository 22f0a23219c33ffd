------------------------ MODULE LeaseExecutionProofs ------------------------
(***************************************************************************)
(* One shard scanned under leases, by any number of workers, over any      *)
(* number of items, faults, crashes and takeovers: no item is skipped, no  *)
(* report is lost without a cause, a worker in doubt does not advance the  *)
(* shard.                                                                  *)
(*                                                                         *)
(* The argument is about one worker at a time.  As long as its execution   *)
(* has no cause to be thrown away, the items it submitted are one stream,  *)
(* numbered without a gap and rising in key: the drain thread has a prefix *)
(* of it, then come the outcome queue, the item in the commit worker's     *)
(* hands, the execution queue and what the page has left to submit         *)
(* (StreamOK).  Of the items up to any of these, none is missing: it is    *)
(* done or it is in the stream.  When the threads are joined all but the   *)
(* first part is empty.                                                    *)
(***************************************************************************)
EXTENDS LeaseExecution, TLAPS, FiniteSetTheorems, SequenceTheorems

\* Where the scan thread may still submit, has a page open, or holds the pipeline;
\* where the commit worker has an item in hand; where the drain has been joined.
Open == {"page", "submit", "offer", "send"}
InPage == {"submit", "offer", "send"}
Running == Open \cup {"finish", "join", "unwatch"}
Busy == {"taken", "findings", "ledger", "outcome", "report"}
Joined == {"drained", "ok", "failed"}

\* What is submitted, and what becomes of it.
Work == [seq : Nat, key : Items]
Outcome == [work : Work, ok : BOOLEAN]

\* The fields of the three threads' records.
IsScan(s) ==
    s = [pc |-> s.pc, fence |-> s.fence, start |-> s.start, resume |-> s.resume, todo |-> s.todo,
         halt |-> s.halt, last |-> s.last, awaiting |-> s.awaiting, paged |-> s.paged,
         confirmed |-> s.confirmed, error |-> s.error, next |-> s.next, submitted |-> s.submitted,
         kind |-> s.kind, advance |-> s.advance]
IsCommit(c) == c = [pc |-> c.pc, work |-> c.work, ok |-> c.ok]
IsDrain(d) == d = [pc |-> d.pc, error |-> d.error, agg |-> d.agg, committed |-> d.committed]

\* The execution is known to have failed, or to be in doubt.
Cause(s, d, g) == s.error \/ d.error \/ g = "Recorded"

\* What each thread is doing, whatever happened.
ThreadsOK(s, c, d, x, k, g, sq) ==
    /\ s.pc \in {"idle", "dead", "advance"} \cup Running
    /\ c.pc \in {"recv", "exited"} \cup Busy
    /\ d.pc \in {"none", "recv"} \cup Joined
    /\ x \in {"watch", "noted", "exited"}
    /\ g \in {"Open", "Recorded", "Closed"}
    /\ s.pc \notin Running => c.pc = "exited" /\ d.pc \in {"none", "ok", "failed"} /\ x = "exited"
    /\ s.pc \in Running => d.pc # "none"
    /\ s.pc = "unwatch" => d.pc \in {"ok", "failed"}
    /\ d.pc \in Joined => c.pc = "exited"
    /\ d.pc = "failed" => d.error
    /\ d.pc \in {"drained", "ok"} => ~d.error
    /\ d.pc = "ok" => g # "Open"
    /\ g = "Closed" => d.pc = "ok"
    /\ x = "noted" => g = "Recorded"
    /\ s.pc \in Running /\ k => d.error \/ g = "Recorded" \/ d.pc \in Joined
    /\ s.pc \in Running /\ c.pc = "exited" =>
          d.error \/ g = "Recorded" \/ (sq = << >> /\ s.pc \notin Open)

\* What is in the queues and in the commit worker's hands.
WorkOK(c, sq, oq, fi, le) ==
    /\ sq \in Seq(Work)
    /\ oq \in Seq(Outcome)
    /\ c.pc \in Busy => c.work \in Work /\ c.ok \in BOOLEAN
    /\ c.pc = "ledger" => c.work.key \in fi
    /\ c.pc \in {"findings", "ledger", "taken"} => c.ok = FALSE
    /\ c.pc \in Busy /\ c.ok => c.work.key \in le
    /\ \A i \in 1..Len(oq) : oq[i].ok => oq[i].work.key \in le

\* The scan thread's own bookkeeping, and what it decided.
ScanOK(s, le) ==
    /\ s.fence \in Nat
    /\ s.start \in 0..N /\ s.resume \in 0..N /\ s.last \in 0..N /\ s.advance \in 0..N
    /\ s.todo \subseteq Items
    /\ 1..s.start \subseteq le
    /\ s.confirmed => s.resume = N /\ s.pc \notin Open
    /\ s.pc \in Open => ~s.error
    /\ s.next \in Nat
    /\ s.pc \in {"offer", "send"} => s.todo # {} /\ s.next >= 1
    /\ s.kind # "Mismatch"
    /\ s.pc = "advance" =>
          /\ s.kind \in {"Checkpoint", "Complete"}
          /\ 1..s.advance \subseteq le
          /\ s.kind = "Complete" => Items \subseteq le

\* How many items the stream has.
Hand(c) == IF c.pc \in Busy THEN 1 ELSE 0
Total(c, d, sq, oq) == Len(d.committed) + Len(oq) + Hand(c) + Len(sq)

\* The aggregator of an execution: nothing acknowledged, nothing pending.
AggOK(agg) ==
    /\ agg = [next |-> 0, units |-> 0, max |-> MaxSeq, kind |-> agg.kind, lastKey |-> NoProgress,
              receipts |-> agg.receipts, pending |-> {}]
    /\ agg.kind \in {{}, {"OrderedContent"}}

\* The n submitted items carry the numbers 0..n-1 and the keys of `key`, in order.
Placed(key, c, d, sq, oq) ==
    LET m == Len(d.committed)
    IN  /\ \A i \in 1..m : d.committed[i] = i - 1
        /\ DOMAIN d.agg.receipts = 0..(m - 1)
        /\ \A j \in 0..(m - 1) : d.agg.receipts[j] = Receipt([seq |-> j, key |-> key[j]])
        /\ \A i \in 1..Len(oq) : oq[i].work = [seq |-> m + i - 1, key |-> key[m + i - 1]]
        /\ c.pc \in Busy => c.work = [seq |-> m + Len(oq), key |-> key[m + Len(oq)]]
        /\ \A i \in 1..Len(sq) :
              sq[i] = [seq |-> m + Len(oq) + Hand(c) + i - 1, key |-> key[m + Len(oq) + Hand(c) + i - 1]]

\* Each item is one further on than the one before.
Rising(key, n) ==
    /\ \A j \in 0..(n - 1) : key[j] > j
    /\ \A i, j \in 0..(n - 1) : i < j => key[i] < key[j]

\* Item i is done, or is on its way.
Covered(i, key, n, todo, le) == i \in le \/ i \in todo \/ \E j \in 0..(n - 1) : key[j] = i

\* What the page has left comes after all that was submitted.
Ahead(key, n, s) ==
    /\ \A t \in s.todo : \A j \in 0..(n - 1) : key[j] < t
    /\ s.pc = "page" => \A j \in 0..(n - 1) : key[j] <= s.resume
    /\ s.pc \in InPage =>
          /\ \A t \in s.todo : t <= s.last
          /\ \A j \in 0..(n - 1) : key[j] <= s.last

\* Up to the resume point, to any submitted item and, in a page that did not halt,
\* to the end of the page, no item is missing.
AllCovered(key, n, s, le) ==
    /\ \A i \in 1..s.resume : Covered(i, key, n, s.todo, le)
    /\ \A j \in 0..(n - 1) : \A i \in 1..key[j] : Covered(i, key, n, s.todo, le)
    /\ \A t \in s.todo : \A i \in 1..t : Covered(i, key, n, s.todo, le)
    /\ s.pc \in InPage /\ ~s.halt => \A i \in 1..s.last : Covered(i, key, n, s.todo, le)

StreamOK(key, n, s, c, d, sq, oq, le) ==
    /\ key \in [0..(n - 1) -> Items]
    /\ d.committed \in Seq(Nat)
    /\ n = Total(c, d, sq, oq)
    /\ s.submitted = 0..(n - 1)
    /\ s.pc \in {"page", "submit"} => s.next = n
    /\ s.pc \in {"offer", "send"} => s.next = n + 1 /\ s.todo # {}
    /\ s.pc \notin InPage => s.todo = {}
    /\ AggOK(d.agg)
    /\ Placed(key, c, d, sq, oq)
    /\ Rising(key, n)
    /\ \A j \in 0..(Len(d.committed) - 1) : key[j] \in le
    /\ Ahead(key, n, s)
    /\ AllCovered(key, n, s, le)

\* One worker.
WorkerOK(s, c, d, x, k, g, sq, oq, fi, le) ==
    /\ IsScan(s) /\ IsCommit(c) /\ IsDrain(d)
    /\ ThreadsOK(s, c, d, x, k, g, sq)
    /\ WorkOK(c, sq, oq, fi, le)
    /\ ScanOK(s, le)
    /\ d.pc \in Joined => oq = << >>
    /\ s.pc \in Running /\ ~Cause(s, d, g) =>
          \E n \in Nat : \E key \in [0..(n - 1) -> Items] : StreamOK(key, n, s, c, d, sq, oq, le)

\* The maps from workers to their threads and queues.
MapsOK ==
    /\ scan = [w \in Worker |-> scan[w]] /\ commit = [w \in Worker |-> commit[w]]
    /\ drain = [w \in Worker |-> drain[w]] /\ watch = [w \in Worker |-> watch[w]]
    /\ cancel = [w \in Worker |-> cancel[w]] /\ signal = [w \in Worker |-> signal[w]]
    /\ submitQ = [w \in Worker |-> submitQ[w]] /\ outcomeQ = [w \in Worker |-> outcomeQ[w]]

\* The shard's durable state.
ShardInv ==
    /\ shard = [fence |-> shard.fence, owner |-> shard.owner, live |-> shard.live,
                cursor |-> shard.cursor, done |-> shard.done]
    /\ shard.fence \in Nat \ {0} /\ shard.cursor \in 0..N
    /\ findings \subseteq Items /\ ledger \subseteq findings
    /\ 1..shard.cursor \subseteq ledger
    /\ shard.done => Items \subseteq ledger

\* Every worker by itself.
WorkersInv ==
    \A w \in Worker : WorkerOK(scan[w], commit[w], drain[w], watch[w], cancel[w], signal[w],
                               submitQ[w], outcomeQ[w], findings, ledger)

\* A fence belongs to one worker, and is used to advance the shard at most once.
FencesInv ==
    /\ \A w \in Worker : scan[w].pc \notin {"idle", "dead"} =>
          /\ scan[w].fence \in 1..shard.fence
          /\ \A u \in Worker : scan[u].pc \notin {"idle", "dead"} /\ scan[u].fence = scan[w].fence => u = w
          /\ <<"Checkpoint", scan[w].fence>> \notin trail /\ <<"Complete", scan[w].fence>> \notin trail
          /\ <<"Uncertain", scan[w].fence>> \in trail => scan[w].pc # "advance" /\ signal[w] = "Recorded"

\* What the trail says of the shard.
TrailInv ==
    /\ trail \subseteq {"Uncertain", "Checkpoint", "Complete"} \X Nat
    /\ \A t \in trail : t[2] <= shard.fence
    /\ \A t \in trail : t[1] = "Complete" => shard.done
    /\ UncertainNeverAdvances
    /\ CompletedOnce

\* The inductive invariant.
LeaseInv == MapsOK /\ ShardInv /\ WorkersInv /\ FencesInv /\ TrailInv

-----------------------------------------------------------------------------
(* A worker among others                                                   *)

\* What a stream says stays true while others add to the done ledger.
LEMMA StreamKept ==
    ASSUME NEW key, NEW n \in Nat, NEW s, NEW c, NEW d, NEW sq, NEW oq, NEW le, NEW le2,
           StreamOK(key, n, s, c, d, sq, oq, le), le \subseteq le2
    PROVE  StreamOK(key, n, s, c, d, sq, oq, le2)
  <1>1. ASSUME NEW i, Covered(i, key, n, s.todo, le) PROVE Covered(i, key, n, s.todo, le2)
    BY <1>1 DEF Covered
  <1>2. AllCovered(key, n, s, le2)
    BY <1>1 DEF StreamOK, AllCovered
  <1>3. \A j \in 0..(Len(d.committed) - 1) : key[j] \in le2
    BY DEF StreamOK
  <1> QED  BY <1>2, <1>3 DEF StreamOK

\* A worker is not disturbed by what others make durable.
LEMMA WorkerKept ==
    ASSUME NEW s, NEW c, NEW d, NEW x, NEW k, NEW g, NEW sq, NEW oq,
           NEW fi, NEW fi2, NEW le, NEW le2,
           WorkerOK(s, c, d, x, k, g, sq, oq, fi, le), fi \subseteq fi2, le \subseteq le2
    PROVE  WorkerOK(s, c, d, x, k, g, sq, oq, fi2, le2)
  <1>1. WorkOK(c, sq, oq, fi2, le2)
    BY DEF WorkerOK, WorkOK
  <1>2. ScanOK(s, le2)
    BY DEF WorkerOK, ScanOK
  <1>3. ASSUME s.pc \in Running, ~Cause(s, d, g)
        PROVE  \E n \in Nat : \E key \in [0..(n - 1) -> Items] : StreamOK(key, n, s, c, d, sq, oq, le2)
    <2>1. PICK n \in Nat : \E key \in [0..(n - 1) -> Items] : StreamOK(key, n, s, c, d, sq, oq, le)
      BY <1>3 DEF WorkerOK
    <2>2. PICK key \in [0..(n - 1) -> Items] : StreamOK(key, n, s, c, d, sq, oq, le)
      BY <2>1
    <2>3. StreamOK(key, n, s, c, d, sq, oq, le2)
      BY <2>2, StreamKept
    <2> QED  BY <2>3
  <1> QED  BY <1>1, <1>2, <1>3 DEF WorkerOK

\* The worker w as it is.
WorkerInv(w) ==
    WorkerOK(scan[w], commit[w], drain[w], watch[w], cancel[w], signal[w],
             submitQ[w], outcomeQ[w], findings, ledger)

\* A step of w alone: the other workers' threads and queues stay, and what is
\* durable stays so.
OnlyWorker(w) ==
    /\ MapsOK'
    /\ \A u \in Worker \ {w} :
          /\ scan'[u] = scan[u] /\ commit'[u] = commit[u] /\ drain'[u] = drain[u]
          /\ watch'[u] = watch[u] /\ cancel'[u] = cancel[u] /\ signal'[u] = signal[u]
          /\ submitQ'[u] = submitQ[u] /\ outcomeQ'[u] = outcomeQ[u]
    /\ findings \subseteq findings' /\ ledger \subseteq ledger'

\* The workers are fine after a step of one of them if that one is.
LEMMA OthersKept ==
    ASSUME WorkersInv, NEW w \in Worker, OnlyWorker(w), WorkerInv(w)'
    PROVE  WorkersInv'
  <1>1. ASSUME NEW u \in Worker \ {w} PROVE WorkerInv(u)'
    <2>1. WorkerInv(u)
      BY DEF WorkersInv, WorkerInv
    <2>2. WorkerOK(scan[u], commit[u], drain[u], watch[u], cancel[u], signal[u],
                   submitQ[u], outcomeQ[u], findings', ledger')
      BY <2>1, WorkerKept DEF WorkerInv, OnlyWorker
    <2> QED  BY <2>2 DEF WorkerInv, OnlyWorker
  <1> QED  BY <1>1 DEF WorkersInv, WorkerInv

\* A step of one of the scan thread's actions touches that worker only.
LEMMA ScanStepIsLocal ==
    ASSUME MapsOK, NEW w \in Worker, ScanStep(w)
    PROVE  OnlyWorker(w)
  <1> USE DEF MapsOK, OnlyWorker, durableVars, pipeVars
  <1>1. CASE FillPage(w)  BY <1>1 DEF FillPage
  <1>2. CASE Exhausted(w)  BY <1>2 DEF Exhausted
  <1>3. CASE ScanCancelled(w)  BY <1>3 DEF ScanCancelled
  <1>4. CASE \E retryable \in BOOLEAN : EnumerateStops(w, retryable)  BY <1>4 DEF EnumerateStops
  <1>5. CASE NextItem(w)  BY <1>5 DEF NextItem
  <1>6. CASE PageDone(w)  BY <1>6 DEF PageDone
  <1>7. CASE Offer(w)  BY <1>7 DEF Offer
  <1>8. CASE Send(w)  BY <1>8 DEF Send
  <1>9. CASE Finish(w)  BY <1>9 DEF Finish
  <1>10. CASE JoinDrain(w)  BY <1>10 DEF JoinDrain
  <1>11. CASE Resolve(w)  BY <1>11 DEF Resolve
  <1>12. CASE Advance(w)  BY <1>12 DEF Advance
  <1> QED  BY <1>1, <1>2, <1>3, <1>4, <1>5, <1>6, <1>7, <1>8, <1>9, <1>10, <1>11, <1>12 DEF ScanStep

\* So does a step of its other threads, of its process and of the coordinator for it.
LEMMA OtherStepIsLocal ==
    ASSUME MapsOK, NEW w \in Worker,
           Claim(w) \/ WatchExpire(w) \/ Crash(w) \/ CommitStep(w) \/ DrainStep(w) \/ WatchStep(w)
    PROVE  OnlyWorker(w)
  <1> USE DEF MapsOK, OnlyWorker, durableVars, pipeVars
  <1>1. CASE Claim(w)  BY <1>1 DEF Claim
  <1>2. CASE WatchExpire(w)  BY <1>2 DEF WatchExpire
  <1>3. CASE Crash(w)  BY <1>3 DEF Crash
  <1>4. CASE CommitReceive(w)  BY <1>4 DEF CommitReceive
  <1>5. CASE CommitExit(w)  BY <1>5 DEF CommitExit
  <1>6. CASE CommitTaken(w)  BY <1>6 DEF CommitTaken
  <1>7. CASE CommitFindings(w)  BY <1>7 DEF CommitFindings
  <1>8. CASE CommitLedger(w)  BY <1>8 DEF CommitLedger
  <1>9. CASE \E landed \in BOOLEAN : CommitFails(w, landed)  BY <1>9 DEF CommitFails
  <1>10. CASE CommitReport(w)  BY <1>10 DEF CommitReport
  <1>11. CASE CommitSend(w)  BY <1>11 DEF CommitSend
  <1>12. CASE DrainReceive(w)  BY <1>12 DEF DrainReceive
  <1>13. CASE DrainJoin(w)  BY <1>13 DEF DrainJoin
  <1>14. CASE DrainClose(w)  BY <1>14 DEF DrainClose
  <1>15. CASE WatchCancel(w)  BY <1>15 DEF WatchCancel
  <1>16. CASE WatchDone(w)  BY <1>16 DEF WatchDone
  <1> QED  BY <1>1, <1>2, <1>3, <1>4, <1>5, <1>6, <1>7, <1>8, <1>9, <1>10, <1>11, <1>12, <1>13,
              <1>14, <1>15, <1>16 DEF CommitStep, DrainStep, WatchStep

-----------------------------------------------------------------------------
(* The scan thread                                                         *)

\* The stream does not depend on where the scan thread is once it has left its
\* pages, nor on what it notes about them.
LEMMA StreamMoves ==
    ASSUME NEW s, NEW t, NEW c, NEW d, NEW sq, NEW oq, NEW le, NEW n \in Nat, NEW key,
           StreamOK(key, n, s, c, d, sq, oq, le),
           t.submitted = s.submitted, t.todo = s.todo, t.resume = s.resume,
           s.todo = {}, t.pc \notin Open
    PROVE  StreamOK(key, n, t, c, d, sq, oq, le)
  <1>1. Ahead(key, n, t)
    BY DEF StreamOK, Ahead, Open, InPage
  <1>2. AllCovered(key, n, t, le)
    BY DEF StreamOK, AllCovered, Open, InPage
  <1> QED  BY <1>1, <1>2 DEF StreamOK, Open, InPage

\* A scan thread that gives up, or learns it is at the end, leaves its pages; it
\* may do so with an item still to submit only when the execution has failed.
LEMMA ScanLeaves ==
    ASSUME NEW s, NEW t, NEW c, NEW d, NEW x, NEW k, NEW g, NEW sq, NEW oq, NEW fi, NEW le,
           WorkerOK(s, c, d, x, k, g, sq, oq, fi, le),
           s.pc \in Open,
           IsScan(t), t.pc = "finish",
           t.fence = s.fence, t.start = s.start, t.resume = s.resume, t.todo = s.todo, t.last = s.last,
           t.submitted = s.submitted, t.kind = s.kind, t.advance = s.advance, t.next = s.next,
           t.confirmed => t.resume = N,
           t.error \/ d.error \/ g = "Recorded" \/ s.pc = "page" \/ s.todo = {}
    PROVE  WorkerOK(t, c, d, x, k, g, sq, oq, fi, le)
  <1>1. ThreadsOK(t, c, d, x, k, g, sq)
    BY DEF WorkerOK, ThreadsOK, Open, Running
  <1>2. ScanOK(t, le)
    BY DEF WorkerOK, ScanOK, Open
  <1>3. ASSUME ~Cause(t, d, g)
        PROVE  \E n \in Nat : \E key \in [0..(n - 1) -> Items] : StreamOK(key, n, t, c, d, sq, oq, le)
    <2>1. s.pc \in Running /\ ~Cause(s, d, g)
      BY <1>3 DEF Cause, Running, WorkerOK, ScanOK
    <2>2. PICK n \in Nat : \E key \in [0..(n - 1) -> Items] : StreamOK(key, n, s, c, d, sq, oq, le)
      BY <2>1 DEF WorkerOK
    <2>3. PICK key \in [0..(n - 1) -> Items] : StreamOK(key, n, s, c, d, sq, oq, le)
      BY <2>2
    <2>4. s.todo = {}
      BY <1>3, <2>3 DEF Cause, StreamOK, InPage
    <2>5. StreamOK(key, n, t, c, d, sq, oq, le)
      BY <2>3, <2>4, StreamMoves DEF Open
    <2> QED  BY <2>5
  <1> QED  BY <1>1, <1>2, <1>3 DEF WorkerOK

\* Once out of its pages the scan thread only waits for the others.
LEMMA ScanWaits ==
    ASSUME NEW s, NEW t, NEW c, NEW d, NEW x, NEW k, NEW g, NEW sq, NEW oq, NEW fi, NEW le,
           WorkerOK(s, c, d, x, k, g, sq, oq, fi, le),
           s.pc \in {"finish", "join"}, t.pc \in {"join", "unwatch"},
           t.pc = "unwatch" => d.pc \in {"ok", "failed"},
           IsScan(t),
           t.fence = s.fence, t.start = s.start, t.resume = s.resume, t.todo = s.todo, t.last = s.last,
           t.submitted = s.submitted, t.kind = s.kind, t.advance = s.advance, t.error = s.error,
           t.confirmed = s.confirmed, t.next = s.next
    PROVE  WorkerOK(t, c, d, x, k, g, sq, oq, fi, le)
  <1>1. ThreadsOK(t, c, d, x, k, g, sq)
    BY DEF WorkerOK, ThreadsOK, Open, Running
  <1>2. ScanOK(t, le)
    BY DEF WorkerOK, ScanOK, Open
  <1>3. ASSUME ~Cause(t, d, g)
        PROVE  \E n \in Nat : \E key \in [0..(n - 1) -> Items] : StreamOK(key, n, t, c, d, sq, oq, le)
    <2>1. s.pc \in Running /\ ~Cause(s, d, g)
      BY <1>3 DEF Cause, Running
    <2>2. PICK n \in Nat : \E key \in [0..(n - 1) -> Items] : StreamOK(key, n, s, c, d, sq, oq, le)
      BY <2>1 DEF WorkerOK
    <2>3. PICK key \in [0..(n - 1) -> Items] : StreamOK(key, n, s, c, d, sq, oq, le)
      BY <2>2
    <2>4. s.todo = {}
      BY <2>3 DEF StreamOK, InPage
    <2>5. StreamOK(key, n, t, c, d, sq, oq, le)
      BY <2>3, <2>4, StreamMoves DEF Open
    <2> QED  BY <2>5
  <1> QED  BY <1>1, <1>2, <1>3 DEF WorkerOK

\* A token cancelled while the scan thread is in its pages means a failure is known.
LEMMA CancelHasACause ==
    ASSUME NEW s, NEW c, NEW d, NEW x, NEW k, NEW g, NEW sq,
           ThreadsOK(s, c, d, x, k, g, sq), s.pc \in Open, k
    PROVE  d.error \/ g = "Recorded"
  BY DEF ThreadsOK, Open, Running

\* ExhaustedEmpty ends the pages, and confirms the end only at the last item.
LEMMA ExhaustedKeeps ==
    ASSUME LeaseAssumption, MapsOK, NEW w \in Worker, WorkerInv(w), Exhausted(w)
    PROVE  WorkerInv(w)'
  <1> DEFINE s == scan[w]
             t == scan'[w]
  <1>1. /\ s.pc = "page" /\ s.resume >= N
        /\ t = [s EXCEPT !.pc = "finish", !.error = (~s.awaiting /\ s.paged),
                         !.confirmed = ~(~s.awaiting /\ s.paged)]
    BY DEF Exhausted, MapsOK
  <1>2. IsScan(s) /\ s.resume \in 0..N
    BY DEF WorkerInv, WorkerOK, ScanOK
  <1>3. /\ IsScan(t) /\ t.pc = "finish"
        /\ t.fence = s.fence /\ t.start = s.start /\ t.resume = s.resume /\ t.todo = s.todo /\ t.last = s.last
        /\ t.submitted = s.submitted /\ t.kind = s.kind /\ t.advance = s.advance /\ t.next = s.next
    BY <1>1, <1>2 DEF IsScan
  <1>4. t.resume = N
    BY <1>1, <1>2, <1>3 DEF LeaseAssumption
  <1>5. s.pc \in Open
    BY <1>1 DEF Open
  <1> HIDE DEF s, t
  <1>6. WorkerOK(t, commit[w], drain[w], watch[w], cancel[w], signal[w], submitQ[w], outcomeQ[w], findings, ledger)
    <2>1. WorkerOK(s, commit[w], drain[w], watch[w], cancel[w], signal[w], submitQ[w], outcomeQ[w], findings, ledger)
      BY DEF WorkerInv, s
    <2>2. s.pc = "page"
      BY <1>1
    <2> QED  BY <1>3, <1>4, <1>5, <2>1, <2>2, ScanLeaves
  <1> QED  BY <1>6 DEF WorkerInv, Exhausted, durableVars, pipeVars, t

\* A retryable stop keeps the partial progress, another one is an error.
LEMMA EnumerateStopsKeeps ==
    ASSUME MapsOK, NEW w \in Worker, WorkerInv(w), NEW retryable \in BOOLEAN, EnumerateStops(w, retryable)
    PROVE  WorkerInv(w)'
  <1> DEFINE s == scan[w]
             t == scan'[w]
  <1>1. s.pc = "page" /\ t = [s EXCEPT !.pc = "finish", !.error = (~retryable \/ ~s.paged)]
    BY DEF EnumerateStops, MapsOK
  <1>2. IsScan(s) /\ (s.confirmed => s.resume = N)
    BY DEF WorkerInv, WorkerOK, ScanOK
  <1>3. /\ IsScan(t) /\ t.pc = "finish"
        /\ t.fence = s.fence /\ t.start = s.start /\ t.resume = s.resume /\ t.todo = s.todo /\ t.last = s.last
        /\ t.submitted = s.submitted /\ t.kind = s.kind /\ t.advance = s.advance /\ t.confirmed = s.confirmed
        /\ t.next = s.next
    BY <1>1, <1>2 DEF IsScan
  <1>4. s.pc \in Open /\ s.pc = "page"
    BY <1>1 DEF Open
  <1> HIDE DEF s, t
  <1>5. WorkerOK(t, commit[w], drain[w], watch[w], cancel[w], signal[w], submitQ[w], outcomeQ[w], findings, ledger)
    <2>1. WorkerOK(s, commit[w], drain[w], watch[w], cancel[w], signal[w], submitQ[w], outcomeQ[w], findings, ledger)
      BY DEF WorkerInv, s
    <2>2. t.confirmed => t.resume = N
      BY <1>2, <1>3
    <2> QED  BY <1>3, <1>4, <2>1, <2>2, ScanLeaves
  <1> QED  BY <1>5 DEF WorkerInv, EnumerateStops, durableVars, pipeVars, t

\* The scan thread leaves with items in hand when it finds the token cancelled.
LEMMA ScanCancelledKeeps ==
    ASSUME MapsOK, NEW w \in Worker, WorkerInv(w), ScanCancelled(w)
    PROVE  WorkerInv(w)'
  <1> DEFINE s == scan[w]
             t == scan'[w]
  <1>1. s.pc \in Open /\ cancel[w] /\ t = [s EXCEPT !.pc = "finish"]
    BY DEF ScanCancelled, MapsOK, Open
  <1>2. IsScan(s) /\ (s.confirmed => s.resume = N)
    BY DEF WorkerInv, WorkerOK, ScanOK
  <1>3. /\ IsScan(t) /\ t.pc = "finish"
        /\ t.fence = s.fence /\ t.start = s.start /\ t.resume = s.resume /\ t.todo = s.todo /\ t.last = s.last
        /\ t.submitted = s.submitted /\ t.kind = s.kind /\ t.advance = s.advance /\ t.confirmed = s.confirmed
        /\ t.next = s.next
    BY <1>1, <1>2 DEF IsScan
  <1> HIDE DEF s, t
  <1>4. drain[w].error \/ signal[w] = "Recorded"
    BY <1>1, CancelHasACause DEF WorkerInv, WorkerOK, s
  <1>5. WorkerOK(t, commit[w], drain[w], watch[w], cancel[w], signal[w], submitQ[w], outcomeQ[w], findings, ledger)
    <2>1. WorkerOK(s, commit[w], drain[w], watch[w], cancel[w], signal[w], submitQ[w], outcomeQ[w], findings, ledger)
      BY DEF WorkerInv, s
    <2>2. s.pc \in Open /\ (t.confirmed => t.resume = N)
      BY <1>1, <1>2, <1>3
    <2> QED  BY <1>3, <1>4, <2>1, <2>2, ScanLeaves
  <1> QED  BY <1>5 DEF WorkerInv, ScanCancelled, durableVars, pipeVars, t

\* Between two items of one page nothing changes but the number taken.
LEMMA ScanInPage ==
    ASSUME NEW s, NEW t, NEW c, NEW d, NEW x, NEW k, NEW g, NEW sq, NEW oq, NEW fi, NEW le,
           WorkerOK(s, c, d, x, k, g, sq, oq, fi, le),
           s.pc \in InPage, t.pc \in {"offer", "send"},
           IsScan(t),
           t.fence = s.fence, t.start = s.start, t.resume = s.resume, t.todo = s.todo, t.last = s.last,
           t.halt = s.halt, t.submitted = s.submitted, t.kind = s.kind, t.advance = s.advance,
           t.error = s.error, t.confirmed = s.confirmed, s.todo # {} \/ s.pc = "offer",
           t.next = IF s.pc = "submit" THEN s.next + 1 ELSE s.next
    PROVE  WorkerOK(t, c, d, x, k, g, sq, oq, fi, le)
  <1>1. ThreadsOK(t, c, d, x, k, g, sq)
    BY DEF WorkerOK, ThreadsOK, Open, InPage, Running
  <1>2. ScanOK(t, le)
    BY DEF WorkerOK, ScanOK, Open, InPage
  <1>3. ASSUME ~Cause(t, d, g)
        PROVE  \E n \in Nat : \E key \in [0..(n - 1) -> Items] : StreamOK(key, n, t, c, d, sq, oq, le)
    <2>1. s.pc \in Running /\ ~Cause(s, d, g)
      BY <1>3 DEF Cause, Running, Open, InPage
    <2>2. PICK n \in Nat : \E key \in [0..(n - 1) -> Items] : StreamOK(key, n, s, c, d, sq, oq, le)
      BY <2>1 DEF WorkerOK
    <2>3. PICK key \in [0..(n - 1) -> Items] : StreamOK(key, n, s, c, d, sq, oq, le)
      BY <2>2
    <2>4. Ahead(key, n, t)
      BY <2>3 DEF StreamOK, Ahead, InPage
    <2>5. AllCovered(key, n, t, le)
      BY <2>3 DEF StreamOK, AllCovered, InPage
    <2>6. s.pc = "submit" => s.next = n
      BY <2>3 DEF StreamOK
    <2>7. t.pc \in {"offer", "send"} => t.next = n + 1 /\ t.todo # {}
      BY <2>3, <2>6 DEF StreamOK, InPage
    <2>8. StreamOK(key, n, t, c, d, sq, oq, le)
      BY <2>3, <2>4, <2>5, <2>7 DEF StreamOK, InPage
    <2> QED  BY <2>8
  <1> QED  BY <1>1, <1>2, <1>3 DEF WorkerOK

\* The page is submitted to its end, and the next one starts after it.
LEMMA ScanTurnsPage ==
    ASSUME NEW s, NEW t, NEW c, NEW d, NEW x, NEW k, NEW g, NEW sq, NEW oq, NEW fi, NEW le,
           WorkerOK(s, c, d, x, k, g, sq, oq, fi, le),
           s.pc = "submit", s.todo = {}, ~s.halt, t.pc = "page",
           IsScan(t),
           t.fence = s.fence, t.start = s.start, t.resume = s.last, t.todo = s.todo, t.last = s.last,
           t.submitted = s.submitted, t.kind = s.kind, t.advance = s.advance,
           t.error = s.error, t.confirmed = s.confirmed, t.next = s.next
    PROVE  WorkerOK(t, c, d, x, k, g, sq, oq, fi, le)
  <1>1. ThreadsOK(t, c, d, x, k, g, sq)
    BY DEF WorkerOK, ThreadsOK, Open, Running
  <1>2. ScanOK(t, le)
    BY DEF WorkerOK, ScanOK, Open
  <1>3. ASSUME ~Cause(t, d, g)
        PROVE  \E n \in Nat : \E key \in [0..(n - 1) -> Items] : StreamOK(key, n, t, c, d, sq, oq, le)
    <2>1. s.pc \in Running /\ ~Cause(s, d, g)
      BY <1>3 DEF Cause, Running, Open
    <2>2. PICK n \in Nat : \E key \in [0..(n - 1) -> Items] : StreamOK(key, n, s, c, d, sq, oq, le)
      BY <2>1 DEF WorkerOK
    <2>3. PICK key \in [0..(n - 1) -> Items] : StreamOK(key, n, s, c, d, sq, oq, le)
      BY <2>2
    <2>4. Ahead(key, n, t)
      BY <2>3 DEF StreamOK, Ahead, InPage
    <2>5. AllCovered(key, n, t, le)
      BY <2>3 DEF StreamOK, AllCovered, InPage
    <2>6. StreamOK(key, n, t, c, d, sq, oq, le)
      BY <2>3, <2>4, <2>5 DEF StreamOK, InPage
    <2> QED  BY <2>6
  <1> QED  BY <1>1, <1>2, <1>3 DEF WorkerOK

\* A page: the items after the resume cursor that are not done, up to the first
\* that must be scanned again.
LEMMA ScanFillsPage ==
    ASSUME LeaseAssumption,
           NEW s, NEW t, NEW c, NEW d, NEW x, NEW k, NEW g, NEW sq, NEW oq, NEW fi, NEW le,
           WorkerOK(s, c, d, x, k, g, sq, oq, fi, le),
           NEW last \in (s.resume + 1)..N, NEW misses, NEW stop \in misses \cup {0},
           misses = {i \in (s.resume + 1)..last : i \notin le},
           s.pc = "page", t.pc = "submit", IsScan(t),
           t.fence = s.fence, t.start = s.start, t.resume = s.resume, t.todo = Submittable(misses, stop),
           t.last = last, t.halt = (stop # 0),
           t.submitted = s.submitted, t.kind = s.kind, t.advance = s.advance,
           t.error = s.error, t.confirmed = s.confirmed, t.next = s.next
    PROVE  WorkerOK(t, c, d, x, k, g, sq, oq, fi, le)
  <1>0. s.resume \in 0..N /\ last \in 1..N /\ N \in Nat
    BY DEF WorkerOK, ScanOK, LeaseAssumption
  <1>1. ThreadsOK(t, c, d, x, k, g, sq)
    BY DEF WorkerOK, ThreadsOK, Open, Running
  <1>2. ScanOK(t, le)
    <2>1. t.todo \subseteq Items
      BY <1>0 DEF Submittable, Items
    <2> QED  BY <1>0, <2>1 DEF WorkerOK, ScanOK, Open
  <1>3. ASSUME ~Cause(t, d, g)
        PROVE  \E n \in Nat : \E key \in [0..(n - 1) -> Items] : StreamOK(key, n, t, c, d, sq, oq, le)
    <2>1. s.pc \in Running /\ ~Cause(s, d, g)
      BY <1>3 DEF Cause, Running, Open
    <2>2. PICK n \in Nat : \E key \in [0..(n - 1) -> Items] : StreamOK(key, n, s, c, d, sq, oq, le)
      BY <2>1 DEF WorkerOK
    <2>3. PICK key \in [0..(n - 1) -> Items] : StreamOK(key, n, s, c, d, sq, oq, le)
      BY <2>2
    <2>4. s.todo = {} /\ (\A j \in 0..(n - 1) : key[j] <= s.resume /\ key[j] \in 1..N)
      BY <2>3 DEF StreamOK, Ahead, InPage, Items
    <2>5. Ahead(key, n, t)
      BY <1>0, <2>4 DEF Ahead, InPage, Submittable
    <2>6. ASSUME NEW i \in 1..s.resume PROVE Covered(i, key, n, t.todo, le)
      BY <2>3, <2>4, <2>6 DEF StreamOK, AllCovered, Covered
    <2>7. ASSUME NEW i \in (s.resume + 1)..last, stop = 0 \/ i < stop PROVE Covered(i, key, n, t.todo, le)
      BY <2>7 DEF Covered, Submittable
    <2>8. \A j \in 0..(n - 1) : \A i \in 1..key[j] : Covered(i, key, n, t.todo, le)
      <3> SUFFICES ASSUME NEW j \in 0..(n - 1), NEW i \in 1..key[j] PROVE Covered(i, key, n, t.todo, le)
        OBVIOUS
      <3>1. key[j] \in Int /\ s.resume \in Int /\ key[j] <= s.resume
        BY <1>0, <2>4
      <3>2. i \in 1..s.resume
        BY <3>1
      <3> QED  BY <2>6, <3>2
    <2>9. \A q \in t.todo : \A i \in 1..q : Covered(i, key, n, t.todo, le)
      <3> SUFFICES ASSUME NEW q \in t.todo, NEW i \in 1..q PROVE Covered(i, key, n, t.todo, le)
        OBVIOUS
      <3>1. q \in (s.resume + 1)..last /\ (stop = 0 \/ q < stop)
        BY DEF Submittable
      <3>2. stop \in Nat
        BY <1>0
      <3>3. i \in 1..s.resume \/ (i \in (s.resume + 1)..last /\ (stop = 0 \/ i < stop))
        BY <1>0, <3>1, <3>2
      <3> QED  BY <2>6, <2>7, <3>3
    <2>10. stop = 0 => \A i \in 1..last : Covered(i, key, n, t.todo, le)
      <3> SUFFICES ASSUME stop = 0, NEW i \in 1..last PROVE Covered(i, key, n, t.todo, le)
        OBVIOUS
      <3>1. i \in 1..s.resume \/ i \in (s.resume + 1)..last
        BY <1>0
      <3> QED  BY <2>6, <2>7, <3>1
    <2>11. AllCovered(key, n, t, le)
      BY <2>6, <2>8, <2>9, <2>10 DEF AllCovered
    <2>12. StreamOK(key, n, t, c, d, sq, oq, le)
      BY <2>3, <2>5, <2>11 DEF StreamOK, InPage
    <2> QED  BY <2>12
  <1> QED  BY <1>1, <1>2, <1>3 DEF WorkerOK

\* Every set of items has a first one.
LEMMA FirstOfSome ==
    ASSUME NEW S, S \subseteq Nat, S # {}
    PROVE  First(S) \in S /\ \A m \in S : First(S) <= m
  <1> DEFINE R == OpToRel(<, Nat)
  <1>1. IsWellFoundedOn(R, Nat)
    BY NatLessThanWellFounded
  <1>2. \A a, b \in Nat : a < b => <<a, b>> \in R
    BY DEF OpToRel
  <1> HIDE DEF R
  <1>3. PICK n \in S : \A m \in S : ~ (<<m, n>> \in R)
    BY <1>1, WFMin
  <1>4. \A m \in S : ~(m < n)
    BY <1>2, <1>3, Zenon
  <1>5. \A m \in S : n <= m
    BY <1>4
  <1> QED  BY <1>5 DEF First

\* An item sent is the next one of the stream.
LEMMA StreamGrows ==
    ASSUME NEW s, NEW t, NEW c, NEW d, NEW sq, NEW oq, NEW le, NEW n \in Nat,
           NEW key \in [0..(n - 1) -> Items], NEW f,
           StreamOK(key, n, s, c, d, sq, oq, le), sq \in Seq(Work), oq \in Seq(Outcome),
           s.pc = "send", s.todo \subseteq Items, s.last \in Nat, s.resume \in Nat, N \in Nat,
           f \in s.todo, \A m \in s.todo : f <= m,
           t.pc = "submit", t.todo = s.todo \ {f}, t.submitted = s.submitted \cup {n},
           t.resume = s.resume, t.last = s.last, t.halt = s.halt, t.next = s.next
    PROVE  \E k2 \in [0..n -> Items] :
              StreamOK(k2, n + 1, t, c, d, Append(sq, [seq |-> n, key |-> f]), oq, le)
  <1> DEFINE k2 == [j \in 0..n |-> IF j = n THEN f ELSE key[j]]
             sq2 == Append(sq, [seq |-> n, key |-> f])
             m == Len(d.committed)
             a == Len(oq)
             b == Hand(c)
             e == Len(sq)
  <1>1. 0..((n + 1) - 1) = 0..n
    OBVIOUS
  <1>2. n = m + a + b + e
    BY DEF StreamOK, Total
  <1>3. f \in 1..N /\ (\A j \in 0..(n - 1) : key[j] \in 1..N) /\ m \in Nat /\ a \in Nat /\ e \in Nat
        /\ b \in {0, 1}
    <2>1. f \in 1..N /\ (\A j \in 0..(n - 1) : key[j] \in 1..N)
      BY DEF Items
    <2>2. d.committed \in Seq(Nat)
      BY DEF StreamOK
    <2>3. b \in {0, 1}
      BY DEF Hand
    <2>4. a \in Nat /\ e \in Nat /\ m \in Nat
      BY <2>2
    <2> QED  BY <2>1, <2>3, <2>4
  <1>4. k2 \in [0..n -> Items] /\ k2[n] = f /\ (\A j \in 0..(n - 1) : k2[j] = key[j])
    BY <1>3
  <1> HIDE DEF k2
  <1>5. Len(sq2) = e + 1 /\ sq2[e + 1] = [seq |-> n, key |-> f] /\ (\A i \in 1..e : sq2[i] = sq[i])
    BY <1>3
  <1> HIDE DEF sq2
  <1>6. /\ \A j \in 0..(m - 1) : d.agg.receipts[j] = Receipt([seq |-> j, key |-> key[j]])
        /\ \A i \in 1..a : oq[i].work = [seq |-> m + i - 1, key |-> key[m + i - 1]]
        /\ c.pc \in Busy => c.work = [seq |-> m + a, key |-> key[m + a]]
        /\ \A i \in 1..e : sq[i] = [seq |-> m + a + b + i - 1, key |-> key[m + a + b + i - 1]]
        /\ \A i \in 1..m : d.committed[i] = i - 1
        /\ DOMAIN d.agg.receipts = 0..(m - 1)
    BY DEF StreamOK, Placed
  <1>7. c.pc \in Busy => b = 1
    BY DEF Hand
  <1>8. \A j \in 0..(m - 1) : key[j] \in le
    BY DEF StreamOK
  <1>9. Placed(k2, c, d, sq2, oq) <=>
        /\ \A i \in 1..m : d.committed[i] = i - 1
        /\ DOMAIN d.agg.receipts = 0..(m - 1)
        /\ \A j \in 0..(m - 1) : d.agg.receipts[j] = Receipt([seq |-> j, key |-> k2[j]])
        /\ \A i \in 1..a : oq[i].work = [seq |-> m + i - 1, key |-> k2[m + i - 1]]
        /\ c.pc \in Busy => c.work = [seq |-> m + a, key |-> k2[m + a]]
        /\ \A i \in 1..Len(sq2) : sq2[i] = [seq |-> m + a + b + i - 1, key |-> k2[m + a + b + i - 1]]
    BY DEF Placed
  <1>10. n + 1 = Total(c, d, sq2, oq)
    <2>1. Total(c, d, sq2, oq) = m + a + b + Len(sq2)
      BY DEF Total
    <2> HIDE DEF m, a, b, e
    <2> QED  BY <1>3, <1>5, <1>2, <2>1
  <1>11. t.submitted = 0..((n + 1) - 1)
    BY <1>1 DEF StreamOK
  <1>12. s.next = n + 1
    BY DEF StreamOK
  <1>13. Placed(k2, c, d, sq2, oq)
    <2> HIDE DEF m, a, b, e
    <2>2. ASSUME NEW j \in 0..(m - 1) PROVE d.agg.receipts[j] = Receipt([seq |-> j, key |-> k2[j]])
      <3>1. j \in 0..(n - 1)
        BY <1>3, <1>2
      <3>2. k2[j] = key[j]
        BY <3>1, <1>4
      <3> QED  BY <3>2, <1>6
    <2>3. ASSUME NEW i \in 1..a PROVE oq[i].work = [seq |-> m + i - 1, key |-> k2[m + i - 1]]
      <3>1. m + i - 1 \in 0..(n - 1)
        BY <1>3, <1>2
      <3>2. k2[m + i - 1] = key[m + i - 1]
        BY <3>1, <1>4
      <3> QED  BY <3>2, <1>6
    <2>4. ASSUME c.pc \in Busy PROVE c.work = [seq |-> m + a, key |-> k2[m + a]]
      <3>1. m + a \in 0..(n - 1)
        BY <2>4, <1>3, <1>2, <1>7
      <3>2. k2[m + a] = key[m + a]
        BY <3>1, <1>4
      <3> QED  BY <2>4, <3>2, <1>6
    <2>5. ASSUME NEW i \in 1..Len(sq2)
          PROVE  sq2[i] = [seq |-> m + a + b + i - 1, key |-> k2[m + a + b + i - 1]]
      <3>1. CASE i = e + 1
        <4>1. m + a + b + i - 1 = n
          BY <1>3, <1>2, <3>1
        <4> QED  BY <4>1, <1>4, <1>5, <3>1
      <3>2. CASE i \in 1..e
        <4>1. m + a + b + i - 1 \in 0..(n - 1)
          BY <1>3, <1>2, <3>2
        <4>2. k2[m + a + b + i - 1] = key[m + a + b + i - 1]
          BY <4>1, <1>4
        <4> QED  BY <4>2, <1>5, <1>6, <3>2
      <3> QED  BY <1>3, <1>5, <3>1, <3>2
    <2> QED  BY <1>6, <1>9, <2>2, <2>3, <2>4, <2>5
  <1>14. Rising(k2, n + 1)
    <2>1. \A j \in 0..(n - 1) : key[j] > j /\ key[j] < f
      BY <1>3 DEF StreamOK, Rising, Ahead
    <2>2. f > n
      <3>1. CASE n = 0  BY <1>3, <3>1
      <3>2. CASE n > 0
        <4>1. key[n - 1] > n - 1 /\ key[n - 1] < f /\ key[n - 1] \in 1..N
          BY <1>3, <2>1, <3>2
        <4> QED  BY <1>3, <4>1
      <3> QED  BY <3>1, <3>2
    <2>3. \A i, j \in 0..(n - 1) : i < j => key[i] < key[j]
      BY DEF StreamOK, Rising
    <2>4. \A j \in 0..n : k2[j] > j
      BY <1>4, <2>1, <2>2
    <2>5. \A i, j \in 0..n : i < j => k2[i] < k2[j]
      BY <1>4, <2>1, <2>3
    <2> QED  BY <1>1, <2>4, <2>5 DEF Rising
  <1>15. Ahead(k2, n + 1, t)
    <2>1. \A q \in s.todo : \A j \in 0..(n - 1) : key[j] < q
      BY DEF StreamOK, Ahead
    <2>6. \A q \in t.todo : q \in 1..N /\ f < q
      BY <1>3 DEF Items
    <2>2. ASSUME NEW q \in t.todo, NEW j \in 0..n PROVE k2[j] < q
      <3>1. CASE j = n  BY <3>1, <1>4, <2>6
      <3>2. CASE j \in 0..(n - 1)  BY <3>2, <1>4, <2>1
      <3> QED  BY <3>1, <3>2
    <2>3. \A q \in t.todo : q <= t.last
      BY DEF StreamOK, Ahead, InPage
    <2>4. f <= s.last /\ \A j \in 0..(n - 1) : key[j] <= s.last
      BY DEF StreamOK, Ahead, InPage
    <2>5. \A j \in 0..n : k2[j] <= t.last
      BY <1>4, <2>4
    <2> QED  BY <1>1, <2>2, <2>3, <2>5 DEF Ahead, InPage
  <1>16. AllCovered(k2, n + 1, t, le)
    <2>1. ASSUME NEW i, Covered(i, key, n, s.todo, le) PROVE Covered(i, k2, n + 1, t.todo, le)
      BY <1>1, <2>1, <1>4 DEF Covered
    <2>2. \A i \in 1..f : Covered(i, k2, n + 1, t.todo, le)
      BY <2>1 DEF StreamOK, AllCovered
    <2>3. ASSUME NEW j \in 0..n, NEW i \in 1..k2[j] PROVE Covered(i, k2, n + 1, t.todo, le)
      <3>1. CASE j = n  BY <3>1, <1>4, <2>2
      <3>2. CASE j \in 0..(n - 1)
        <4>1. i \in 1..key[j]
          BY <3>2, <1>4
        <4>2. Covered(i, key, n, s.todo, le)
          BY <3>2, <4>1 DEF StreamOK, AllCovered
        <4> QED  BY <2>1, <4>2
      <3> QED  BY <3>1, <3>2
    <2>4. \A q \in t.todo : \A i \in 1..q : Covered(i, k2, n + 1, t.todo, le)
      BY <2>1 DEF StreamOK, AllCovered
    <2>5. \A i \in 1..t.resume : Covered(i, k2, n + 1, t.todo, le)
      BY <2>1 DEF StreamOK, AllCovered
    <2>6. ~t.halt => \A i \in 1..t.last : Covered(i, k2, n + 1, t.todo, le)
      BY <2>1 DEF StreamOK, AllCovered, InPage
    <2> QED  BY <1>1, <2>3, <2>4, <2>5, <2>6 DEF AllCovered
  <1>17. ASSUME NEW j \in 0..(m - 1) PROVE k2[j] \in le
    <2> HIDE DEF m, a, b, e
    <2>1. j \in 0..(n - 1)
      BY <1>3, <1>2
    <2> QED  BY <2>1, <1>4, <1>8
  <1>18. StreamOK(k2, n + 1, t, c, d, sq2, oq, le)
    BY <1>1, <1>4, <1>10, <1>11, <1>12, <1>13, <1>14, <1>15, <1>16, <1>17 DEF StreamOK, InPage
  <1> QED  BY <1>4, <1>18 DEF sq2

\* submit_ordered_item takes the next number.
LEMMA NextItemKeeps ==
    ASSUME MapsOK, NEW w \in Worker, WorkerInv(w), NextItem(w)
    PROVE  WorkerInv(w)'
  <1> DEFINE s == scan[w]
             t == scan'[w]
  <1>1. s.pc = "submit" /\ s.todo # {} /\ t = [s EXCEPT !.pc = "offer", !.next = s.next + 1]
    BY DEF NextItem, MapsOK
  <1>2. IsScan(s)
    BY DEF WorkerInv, WorkerOK
  <1>3. /\ IsScan(t) /\ t.pc = "offer" /\ t.next = s.next + 1
        /\ t.fence = s.fence /\ t.start = s.start /\ t.resume = s.resume /\ t.todo = s.todo /\ t.halt = s.halt
        /\ t.last = s.last /\ t.submitted = s.submitted /\ t.kind = s.kind /\ t.advance = s.advance /\ t.error = s.error
        /\ t.confirmed = s.confirmed
    BY <1>1, <1>2 DEF IsScan
  <1>4. s.pc \in InPage
    BY <1>1 DEF InPage
  <1> HIDE DEF s, t
  <1>5. WorkerOK(t, commit[w], drain[w], watch[w], cancel[w], signal[w], submitQ[w], outcomeQ[w], findings, ledger)
    BY <1>1, <1>3, <1>4, ScanInPage DEF WorkerInv, s
  <1> QED  BY <1>5 DEF WorkerInv, NextItem, durableVars, pipeVars, t

\* CommitPipelineSender::submit looks at the token.
LEMMA OfferKeeps ==
    ASSUME MapsOK, NEW w \in Worker, WorkerInv(w), Offer(w)
    PROVE  WorkerInv(w)'
  <1> DEFINE s == scan[w]
             t == scan'[w]
  <1>1. s.pc = "offer" /\ IsScan(s) /\ s.pc \in InPage /\ s.pc \in Open /\ (s.confirmed => s.resume = N)
    BY DEF Offer, WorkerInv, WorkerOK, ScanOK, InPage, Open
  <1>2. CASE cancel[w]
    <2>1. t = [s EXCEPT !.pc = "finish", !.error = TRUE]
      BY <1>2 DEF Offer, MapsOK
    <2>2. /\ IsScan(t) /\ t.pc = "finish" /\ t.error
          /\ t.fence = s.fence /\ t.start = s.start /\ t.resume = s.resume /\ t.todo = s.todo /\ t.halt = s.halt
        /\ t.last = s.last /\ t.submitted = s.submitted /\ t.kind = s.kind /\ t.advance = s.advance /\ t.confirmed = s.confirmed
        /\ t.next = s.next
      BY <1>1, <2>1 DEF IsScan
    <2> HIDE DEF s, t
    <2>3. WorkerOK(t, commit[w], drain[w], watch[w], cancel[w], signal[w], submitQ[w], outcomeQ[w], findings, ledger)
      BY <1>1, <2>2, ScanLeaves DEF WorkerInv, s
    <2> QED  BY <2>3 DEF WorkerInv, Offer, durableVars, pipeVars, t
  <1>3. CASE ~cancel[w]
    <2>1. t = [s EXCEPT !.pc = "send"]
      BY <1>3 DEF Offer, MapsOK
    <2>2. /\ IsScan(t) /\ t.pc = "send"
          /\ t.fence = s.fence /\ t.start = s.start /\ t.resume = s.resume /\ t.todo = s.todo /\ t.halt = s.halt
        /\ t.last = s.last /\ t.submitted = s.submitted /\ t.kind = s.kind /\ t.advance = s.advance /\ t.error = s.error
        /\ t.confirmed = s.confirmed /\ t.next = s.next
      BY <1>1, <2>1 DEF IsScan
    <2> HIDE DEF s, t
    <2>3. WorkerOK(t, commit[w], drain[w], watch[w], cancel[w], signal[w], submitQ[w], outcomeQ[w], findings, ledger)
      BY <1>1, <2>2, ScanInPage DEF WorkerInv, s
    <2> QED  BY <2>3 DEF WorkerInv, Offer, durableVars, pipeVars, t
  <1> QED  BY <1>2, <1>3

\* The page is submitted.
LEMMA PageDoneKeeps ==
    ASSUME MapsOK, NEW w \in Worker, WorkerInv(w), PageDone(w)
    PROVE  WorkerInv(w)'
  <1> DEFINE s == scan[w]
             t == scan'[w]
  <1>1. s.pc = "submit" /\ s.todo = {} /\ IsScan(s) /\ s.pc \in Open /\ (s.confirmed => s.resume = N)
    BY DEF PageDone, WorkerInv, WorkerOK, ScanOK, Open
  <1>2. CASE s.halt
    <2>1. t = [s EXCEPT !.pc = "finish"]
      BY <1>2 DEF PageDone, MapsOK
    <2>2. /\ IsScan(t) /\ t.pc = "finish"
          /\ t.fence = s.fence /\ t.start = s.start /\ t.resume = s.resume /\ t.todo = s.todo /\ t.halt = s.halt
        /\ t.last = s.last /\ t.submitted = s.submitted /\ t.kind = s.kind /\ t.advance = s.advance /\ t.error = s.error
        /\ t.confirmed = s.confirmed /\ t.next = s.next
      BY <1>1, <2>1 DEF IsScan
    <2> HIDE DEF s, t
    <2>3. WorkerOK(t, commit[w], drain[w], watch[w], cancel[w], signal[w], submitQ[w], outcomeQ[w], findings, ledger)
      BY <1>1, <2>2, ScanLeaves DEF WorkerInv, s
    <2> QED  BY <2>3 DEF WorkerInv, PageDone, durableVars, pipeVars, t
  <1>3. CASE ~s.halt
    <2>1. t = [s EXCEPT !.pc = "page", !.resume = s.last]
      BY <1>3 DEF PageDone, MapsOK
    <2>2. /\ IsScan(t) /\ t.pc = "page" /\ t.resume = s.last
          /\ t.fence = s.fence /\ t.start = s.start /\ t.todo = s.todo /\ t.halt = s.halt /\ t.last = s.last
        /\ t.submitted = s.submitted /\ t.kind = s.kind /\ t.advance = s.advance /\ t.error = s.error /\ t.confirmed = s.confirmed
        /\ t.next = s.next
      BY <1>1, <2>1 DEF IsScan
    <2> HIDE DEF s, t
    <2>3. WorkerOK(t, commit[w], drain[w], watch[w], cancel[w], signal[w], submitQ[w], outcomeQ[w], findings, ledger)
      BY <1>1, <1>3, <2>2, ScanTurnsPage DEF WorkerInv, s
    <2> QED  BY <2>3 DEF WorkerInv, PageDone, durableVars, pipeVars, t
  <1> QED  BY <1>2, <1>3

\* A page is read and filtered.
LEMMA FillPageKeeps ==
    ASSUME LeaseAssumption, MapsOK, NEW w \in Worker, WorkerInv(w), FillPage(w)
    PROVE  WorkerInv(w)'
  <1> DEFINE s == scan[w]
             t == scan'[w]
             misses(last) == {i \in (s.resume + 1)..last : i \notin ledger}
  <1>1. PICK last \in (s.resume + 1)..N : \E stop \in misses(last) \cup {0}, terminal \in {FALSE, last = N} :
            scan' = [scan EXCEPT ![w] = [@ EXCEPT
                    !.pc = "submit", !.todo = Submittable(misses(last), stop),
                    !.halt = (stop # 0), !.last = last, !.awaiting = terminal, !.paged = TRUE]]
    BY DEF FillPage
  <1>2. PICK stop \in misses(last) \cup {0}, terminal \in {FALSE, last = N} :
            scan' = [scan EXCEPT ![w] = [@ EXCEPT
                    !.pc = "submit", !.todo = Submittable(misses(last), stop),
                    !.halt = (stop # 0), !.last = last, !.awaiting = terminal, !.paged = TRUE]]
    BY <1>1
  <1>3. s.pc = "page" /\ t = [s EXCEPT !.pc = "submit", !.todo = Submittable(misses(last), stop),
                    !.halt = (stop # 0), !.last = last, !.awaiting = terminal, !.paged = TRUE]
    BY <1>2 DEF FillPage, MapsOK
  <1>4. IsScan(s)
    BY DEF WorkerInv, WorkerOK
  <1> HIDE DEF misses
  <1>5. /\ IsScan(t) /\ t.pc = "submit" /\ t.todo = Submittable(misses(last), stop)
        /\ t.halt = (stop # 0) /\ t.last = last
        /\ t.fence = s.fence /\ t.start = s.start /\ t.resume = s.resume /\ t.submitted = s.submitted /\ t.kind = s.kind
        /\ t.advance = s.advance /\ t.error = s.error /\ t.confirmed = s.confirmed /\ t.next = s.next
    BY <1>3, <1>4 DEF IsScan
  <1>6. misses(last) = {i \in (s.resume + 1)..last : i \notin ledger}
    BY DEF misses
  <1> HIDE DEF s, t
  <1>7. s.pc = "page"
    BY <1>3
  <1>8. WorkerOK(t, commit[w], drain[w], watch[w], cancel[w], signal[w], submitQ[w], outcomeQ[w], findings, ledger)
    BY <1>5, <1>6, <1>7, ScanFillsPage DEF WorkerInv, s
  <1> QED  BY <1>8 DEF WorkerInv, FillPage, durableVars, pipeVars, t

\* finish drops the sender; the drain thread is joined.
LEMMA FinishKeeps ==
    ASSUME MapsOK, NEW w \in Worker, WorkerInv(w), Finish(w) \/ JoinDrain(w)
    PROVE  WorkerInv(w)'
  <1> DEFINE s == scan[w]
             t == scan'[w]
  <1>1. PICK pc \in {"join", "unwatch"} :
           /\ s.pc \in {"finish", "join"} /\ t = [s EXCEPT !.pc = pc]
           /\ pc = "unwatch" => drain[w].pc \in {"ok", "failed"}
    BY DEF Finish, JoinDrain, MapsOK
  <1>2. IsScan(s)
    BY DEF WorkerInv, WorkerOK
  <1>3. /\ IsScan(t) /\ t.pc = pc
        /\ t.fence = s.fence /\ t.start = s.start /\ t.resume = s.resume /\ t.todo = s.todo /\ t.halt = s.halt
        /\ t.last = s.last /\ t.submitted = s.submitted /\ t.kind = s.kind /\ t.advance = s.advance /\ t.error = s.error
        /\ t.confirmed = s.confirmed /\ t.next = s.next
    BY <1>1, <1>2 DEF IsScan
  <1> HIDE DEF s, t
  <1>4. WorkerOK(t, commit[w], drain[w], watch[w], cancel[w], signal[w], submitQ[w], outcomeQ[w], findings, ledger)
    BY <1>1, <1>3, ScanWaits DEF WorkerInv, s
  <1> QED  BY <1>4 DEF WorkerInv, Finish, JoinDrain, durableVars, pipeVars, t

\* The item goes into the queue of a commit worker that is there.
LEMMA ScanSends ==
    ASSUME LeaseAssumption,
           NEW s, NEW t, NEW c, NEW d, NEW x, NEW k, NEW g, NEW sq, NEW oq, NEW fi, NEW le, NEW f, NEW q,
           WorkerOK(s, c, d, x, k, g, sq, oq, fi, le),
           s.pc = "send", c.pc # "exited", f = First(s.todo), q = s.next - 1,
           t.pc = "submit", IsScan(t), t.todo = s.todo \ {f}, t.submitted = s.submitted \cup {q},
           t.fence = s.fence, t.start = s.start, t.resume = s.resume, t.last = s.last, t.halt = s.halt,
           t.kind = s.kind, t.advance = s.advance, t.error = s.error, t.confirmed = s.confirmed, t.next = s.next
    PROVE  WorkerOK(t, c, d, x, k, g, Append(sq, [seq |-> q, key |-> f]), oq, fi, le)
  <1> DEFINE sq2 == Append(sq, [seq |-> q, key |-> f])
  <1>1. s.todo \subseteq Items /\ s.todo # {} /\ s.next \in Nat /\ s.next >= 1
        /\ sq \in Seq(Work) /\ oq \in Seq(Outcome) /\ s.last \in Nat /\ s.resume \in Nat /\ N \in Nat
    BY DEF WorkerOK, ScanOK, WorkOK, LeaseAssumption
  <1>2. s.todo \subseteq Nat
    BY <1>1 DEF Items
  <1>3. f \in s.todo /\ \A m \in s.todo : f <= m
    BY <1>1, <1>2, FirstOfSome
  <1>4. q \in Nat /\ [seq |-> q, key |-> f] \in Work
    BY <1>1, <1>3 DEF Work
  <1>5. sq2 \in Seq(Work)
    BY <1>1, <1>4
  <1> HIDE DEF sq2
  <1>6. ThreadsOK(t, c, d, x, k, g, sq2)
    BY DEF WorkerOK, ThreadsOK, Open, Running
  <1>7. WorkOK(c, sq2, oq, fi, le)
    BY <1>5 DEF WorkerOK, WorkOK
  <1>8. ScanOK(t, le)
    BY DEF WorkerOK, ScanOK, Open
  <1>9. ASSUME ~Cause(t, d, g)
        PROVE  \E n \in Nat : \E key \in [0..(n - 1) -> Items] : StreamOK(key, n, t, c, d, sq2, oq, le)
    <2>1. s.pc \in Running /\ ~Cause(s, d, g)
      BY <1>9 DEF Cause, Running, Open
    <2>2. PICK n \in Nat : \E key \in [0..(n - 1) -> Items] : StreamOK(key, n, s, c, d, sq, oq, le)
      BY <2>1 DEF WorkerOK
    <2>3. PICK key \in [0..(n - 1) -> Items] : StreamOK(key, n, s, c, d, sq, oq, le)
      BY <2>2
    <2>4. q = n
      BY <2>3, <1>1 DEF StreamOK
    <2>5. \E k2 \in [0..n -> Items] : StreamOK(k2, n + 1, t, c, d, Append(sq, [seq |-> n, key |-> f]), oq, le)
      BY <1>1, <1>3, <2>3, <2>4, StreamGrows
    <2>6. n + 1 \in Nat /\ 0..n = 0..((n + 1) - 1)
      OBVIOUS
    <2>7. \E k2 \in [0..((n + 1) - 1) -> Items] : StreamOK(k2, n + 1, t, c, d, sq2, oq, le)
      BY <2>4, <2>5, <2>6 DEF sq2
    <2> QED  BY <2>6, <2>7
  <1>10. WorkerOK(t, c, d, x, k, g, sq2, oq, fi, le)
    BY <1>6, <1>7, <1>8, <1>9 DEF WorkerOK
  <1> QED  BY <1>10 DEF sq2

\* The blocking send, or its error when the commit worker is gone.
LEMMA SendKeeps ==
    ASSUME LeaseAssumption, MapsOK, NEW w \in Worker, WorkerInv(w), Send(w)
    PROVE  WorkerInv(w)'
  <1> DEFINE s == scan[w]
             t == scan'[w]
             f == First(s.todo)
             q == s.next - 1
  <1>1. s.pc = "send" /\ IsScan(s) /\ s.pc \in Open /\ (s.confirmed => s.resume = N)
    BY DEF Send, WorkerInv, WorkerOK, ScanOK, Open
  <1>2. UNCHANGED <<commit, drain, watch, cancel, signal, outcomeQ, findings, ledger>>
    BY DEF Send, durableVars
  <1>3. commit[w].pc = "exited" => t = [s EXCEPT !.pc = "finish", !.error = TRUE] /\ submitQ' = submitQ
    BY DEF Send, MapsOK
  <1>4. commit[w].pc # "exited" => submitQ'[w] = Append(submitQ[w], [seq |-> q, key |-> f])
    BY DEF Send, MapsOK
  <1>5. commit[w].pc # "exited" =>
           t = [s EXCEPT !.pc = "submit", !.todo = s.todo \ {f}, !.submitted = s.submitted \cup {q}]
    <2> SUFFICES ASSUME commit[w].pc # "exited"
                 PROVE  t = [s EXCEPT !.pc = "submit", !.todo = s.todo \ {f}, !.submitted = s.submitted \cup {q}]
      OBVIOUS
    <2>1. scan' = [scan EXCEPT ![w] = [s EXCEPT !.pc = "submit", !.todo = s.todo \ {f},
                                                !.submitted = s.submitted \cup {q}]]
      BY DEF Send
    <2>2. ASSUME NEW v, scan' = [scan EXCEPT ![w] = v] PROVE t = v
      BY <2>2 DEF MapsOK
    <2> QED  BY <2>1, <2>2
  <1> HIDE DEF f, q
  <1>6. CASE commit[w].pc = "exited"
    <2>1. t = [s EXCEPT !.pc = "finish", !.error = TRUE] /\ submitQ' = submitQ
      BY <1>6, <1>3
    <2>2. /\ IsScan(t) /\ t.pc = "finish" /\ t.error
          /\ t.fence = s.fence /\ t.start = s.start /\ t.resume = s.resume /\ t.todo = s.todo /\ t.halt = s.halt
          /\ t.last = s.last /\ t.submitted = s.submitted /\ t.kind = s.kind /\ t.advance = s.advance
          /\ t.confirmed = s.confirmed /\ t.next = s.next
      BY <1>1, <2>1 DEF IsScan
    <2> HIDE DEF s, t
    <2>3. WorkerOK(t, commit[w], drain[w], watch[w], cancel[w], signal[w], submitQ[w], outcomeQ[w], findings, ledger)
      BY <1>1, <2>2, ScanLeaves DEF WorkerInv, s
    <2> QED  BY <1>2, <2>1, <2>3 DEF WorkerInv, t
  <1>7. CASE commit[w].pc # "exited"
    <2>1. /\ submitQ'[w] = Append(submitQ[w], [seq |-> q, key |-> f])
          /\ t = [s EXCEPT !.pc = "submit", !.todo = s.todo \ {f}, !.submitted = s.submitted \cup {q}]
      BY <1>7, <1>4, <1>5
    <2>2. /\ IsScan(t) /\ t.pc = "submit" /\ t.todo = s.todo \ {f} /\ t.submitted = s.submitted \cup {q}
          /\ t.fence = s.fence /\ t.start = s.start /\ t.resume = s.resume /\ t.halt = s.halt
          /\ t.last = s.last /\ t.kind = s.kind /\ t.advance = s.advance /\ t.error = s.error
          /\ t.confirmed = s.confirmed /\ t.next = s.next
      BY <1>1, <2>1 DEF IsScan
    <2>3. f = First(s.todo) /\ q = s.next - 1
      BY DEF f, q
    <2> HIDE DEF s, t
    <2>4. WorkerOK(t, commit[w], drain[w], watch[w], cancel[w], signal[w],
                   Append(submitQ[w], [seq |-> q, key |-> f]), outcomeQ[w], findings, ledger)
      BY <1>1, <1>7, <2>2, <2>3, ScanSends DEF WorkerInv, s
    <2> QED  BY <1>2, <2>1, <2>4 DEF WorkerInv, t
  <1> QED  BY <1>6, <1>7

-----------------------------------------------------------------------------
(* The verdict                                                             *)

\* The prefix of an aggregator that has the receipts 0..n-1, rising in key, is
\* all of them.
LEMMA WholePrefix ==
    ASSUME NEW n \in Nat, n > 0, NEW agg, NEW key \in [0..(n - 1) -> Nat],
           AggOK(agg), DOMAIN agg.receipts = 0..(n - 1),
           \A j \in 0..(n - 1) : agg.receipts[j] = Receipt([seq |-> j, key |-> key[j]]),
           Rising(key, n)
    PROVE  AfterPrepare(agg).pending = {[first |-> 0, last |-> n - 1, key |-> key[n - 1], units |-> n]}
  <1>1. Buffered(agg) = 0..(n - 1) /\ agg.next = 0 /\ agg.pending = {} /\ agg.lastKey = 0
    BY DEF Buffered, AggOK, NoProgress
  <1>2. Run(agg) = 0..(n - 1)
    BY <1>1 DEF Run
  <1>3. ASSUME NEW j \in 0..(n - 1) PROVE agg.receipts[j].key = key[j]
    <2>1. \A q, y : Receipt([seq |-> q, key |-> y]).key = y
      BY DEF Receipt
    <2>2. agg.receipts[j] = Receipt([seq |-> j, key |-> key[j]])
      OBVIOUS
    <2> QED  BY <2>1, <2>2, Zenon
  <1>4. ~Regresses(agg)
    <2> SUFFICES ASSUME NEW j \in 0..(n - 1), PreviousKey(agg, j) # NoProgress
                 PROVE  key[j] > PreviousKey(agg, j) /\ PreviousKey(agg, j) \in Nat
      BY <1>2, <1>3 DEF Regresses
    <2>1. j # 0
      BY <1>1 DEF PreviousKey, NoProgress
    <2>2. j - 1 \in 0..(n - 1) /\ j - 1 < j
      BY <2>1
    <2>3. PreviousKey(agg, j) = key[j - 1]
      BY <1>1, <1>3, <2>1, <2>2 DEF PreviousKey
    <2>4. key[j - 1] < key[j]
      BY <2>2 DEF Rising
    <2> QED  BY <2>2, <2>3, <2>4
  <1>5. Last(Run(agg)) = n - 1
    <2>1. n - 1 \in Run(agg) /\ \A m \in Run(agg) : m <= n - 1
      BY <1>2
    <2>2. \E z \in Run(agg) : \A m \in Run(agg) : m <= z
      BY <2>1
    <2>3. Last(Run(agg)) \in Run(agg) /\ \A m \in Run(agg) : m <= Last(Run(agg))
      BY <2>2 DEF Last
    <2>4. Last(Run(agg)) \in 0..(n - 1) /\ n - 1 <= Last(Run(agg))
      BY <1>2, <2>1, <2>3
    <2> QED  BY <2>4
  <1>6. Cardinality(Run(agg)) = n
    BY <1>2, FS_Interval
  <1>7. Prefix(agg) = [first |-> 0, last |-> n - 1, key |-> key[n - 1], units |-> n]
    BY <1>1, <1>3, <1>5, <1>6 DEF Prefix
  <1>8. AfterPrepare(agg) = [agg EXCEPT !.pending = {Prefix(agg)}]
    BY <1>1, <1>2, <1>4 DEF AfterPrepare
  <1>9. [agg EXCEPT !.pending = {Prefix(agg)}].pending = {Prefix(agg)}
    BY DEF AggOK
  <1> QED  BY <1>7, <1>8, <1>9

\* With every thread joined and no failure known, everything submitted was
\* committed and everything up to the scan's resume point and to the last
\* submitted item is in the done ledger.
LEMMA JoinedStream ==
    ASSUME LeaseAssumption,
           NEW s, NEW c, NEW d, NEW x, NEW k, NEW g, NEW sq, NEW oq, NEW fi, NEW le,
           WorkerOK(s, c, d, x, k, g, sq, oq, fi, le), s.pc = "unwatch", ~Cause(s, d, g)
    PROVE  /\ d.pc # "failed"
           /\ 1..s.resume \subseteq le
           /\ d.committed # << >> => /\ Accounted(s, d)
                                     /\ ProgressCursor(s, d) \in 1..N
                                     /\ 1..ProgressCursor(s, d) \subseteq le
  <1>1. d.pc = "ok" /\ c.pc = "exited" /\ oq = << >> /\ sq = << >>
    BY DEF WorkerOK, ThreadsOK, Cause, Running, Open, Joined
  <1>2. s.pc \in Running
    BY DEF Running
  <1>3. PICK n \in Nat : \E key \in [0..(n - 1) -> Items] : StreamOK(key, n, s, c, d, sq, oq, le)
    BY <1>2 DEF WorkerOK
  <1>4. PICK key \in [0..(n - 1) -> Items] : StreamOK(key, n, s, c, d, sq, oq, le)
    BY <1>3
  <1>5. s.submitted = 0..(n - 1) /\ s.todo = {} /\ AggOK(d.agg) /\ Rising(key, n) /\ d.committed \in Seq(Nat)
    BY <1>4 DEF StreamOK, InPage
  <1>6. Len(d.committed) = n
    <2>1. Hand(c) = 0 /\ Len(oq) = 0 /\ Len(sq) = 0
      BY <1>1 DEF Hand, Busy
    <2>2. n = Len(d.committed) + Len(oq) + Hand(c) + Len(sq)
      BY <1>4 DEF StreamOK, Total
    <2> QED  BY <1>5, <2>1, <2>2
  <1>7. /\ \A i \in 1..n : d.committed[i] = i - 1
        /\ DOMAIN d.agg.receipts = 0..(n - 1)
        /\ \A j \in 0..(n - 1) : d.agg.receipts[j] = Receipt([seq |-> j, key |-> key[j]])
    BY <1>4, <1>6 DEF StreamOK, Placed
  <1>8. \A j \in 0..(n - 1) : key[j] \in le
    BY <1>4, <1>6 DEF StreamOK
  <1>9. ASSUME NEW i, Covered(i, key, n, s.todo, le) PROVE i \in le
    BY <1>5, <1>8, <1>9 DEF Covered
  <1>10. 1..s.resume \subseteq le
    BY <1>4, <1>9 DEF StreamOK, AllCovered
  <1>11. ASSUME d.committed # << >>
         PROVE  /\ Accounted(s, d)
                /\ ProgressCursor(s, d) \in 1..N
                /\ 1..ProgressCursor(s, d) \subseteq le
    <2>1. n > 0
      BY <1>5, <1>6, <1>11
    <2>2. key \in [0..(n - 1) -> Nat] /\ n - 1 \in 0..(n - 1)
      BY <2>1 DEF Items
    <2>3. AfterPrepare(d.agg).pending = {[first |-> 0, last |-> n - 1, key |-> key[n - 1], units |-> n]}
      BY <1>5, <1>7, <2>1, <2>2, WholePrefix
    <2>4. Elements(d.committed) = 0..(n - 1)
      <3>1. DOMAIN d.committed = 1..n
        BY <1>5, <1>6
      <3>2. \A j \in 0..(n - 1) : j + 1 \in 1..n /\ d.committed[j + 1] = j
        BY <1>7
      <3>3. \A i \in 1..n : d.committed[i] \in 0..(n - 1)
        BY <1>7
      <3> QED  BY <3>1, <3>2, <3>3 DEF Elements
    <2>5. Cardinality(s.submitted) = n
      <3>1. Cardinality(0..(n - 1)) = n
        BY <2>1, FS_Interval
      <3> QED  BY <1>5, <3>1
    <2>6. Accounted(s, d)
      <3>1. \E p \in AfterPrepare(d.agg).pending : p.units = Len(d.committed)
        BY <2>3, <1>6
      <3> QED  BY <1>5, <1>6, <2>4, <2>5, <3>1 DEF Accounted
    <2>7. ProgressCursor(s, d) = key[n - 1]
      <3> DEFINE prefix == CHOOSE p \in AfterPrepare(d.agg).pending : TRUE
      <3>1. prefix = [first |-> 0, last |-> n - 1, key |-> key[n - 1], units |-> n]
        BY <2>3
      <3>2. ProgressCursor(s, d) = prefix.key
        BY <1>11, Zenon DEF ProgressCursor
      <3> HIDE DEF prefix
      <3> QED  BY <3>1, <3>2
    <2>8. key[n - 1] \in 1..N /\ \A i \in 1..key[n - 1] : i \in le
      BY <1>4, <1>9, <2>2 DEF StreamOK, AllCovered, Items
    <2> QED  BY <2>6, <2>7, <2>8
  <1> QED  BY <1>1, <1>10, <1>11

\* The verdict on a lease is one the shard can be advanced by: never Mismatch, and
\* a cursor, or the end of the shard, that the done ledger covers.
LEMMA VerdictSound ==
    ASSUME LeaseAssumption,
           NEW s, NEW c, NEW d, NEW x, NEW k, NEW g, NEW sq, NEW oq, NEW fi, NEW le, NEW v,
           WorkerOK(s, c, d, x, k, g, sq, oq, fi, le), s.pc = "unwatch", v = Verdict(s, d, g)
    PROVE  /\ v.kind # "Mismatch"
           /\ v.advance \in 0..N
           /\ v.kind \in {"Complete", "Checkpoint"} =>
                 1..v.advance \subseteq le /\ g # "Recorded"
           /\ v.kind = "Complete" => Items \subseteq le
  <1>1. N \in Nat /\ s.start \in 0..N /\ s.resume \in 0..N /\ 1..s.start \subseteq le
        /\ (s.confirmed => s.resume = N)
    BY DEF WorkerOK, ScanOK, LeaseAssumption
  <1>2. CASE g = "Recorded"
    <2>1. v = [kind |-> "LeaseUncertain", advance |-> 0]
      BY <1>2 DEF Verdict
    <2> QED  BY <1>1, <2>1
  <1>3. CASE g # "Recorded" /\ s.error
    <2>1. v = [kind |-> "Runtime", advance |-> 0]
      BY <1>3 DEF Verdict
    <2> QED  BY <1>1, <2>1
  <1>4. CASE g # "Recorded" /\ ~s.error /\ d.error
    <2>2. d.pc = "failed"
      BY <1>4 DEF WorkerOK, ThreadsOK
    <2>3. v = [kind |-> "Durability", advance |-> 0]
      BY <1>4, <2>2 DEF Verdict
    <2> QED  BY <1>1, <2>3
  <1>5. CASE g # "Recorded" /\ ~s.error /\ ~d.error
    <2>1. ~Cause(s, d, g)
      BY <1>5 DEF Cause
    <2>2. /\ d.pc # "failed"
          /\ 1..s.resume \subseteq le
          /\ d.committed # << >> => /\ Accounted(s, d)
                                    /\ ProgressCursor(s, d) \in 1..N
                                    /\ 1..ProgressCursor(s, d) \subseteq le
      BY <2>1, JoinedStream
    <2> DEFINE progress == ProgressCursor(s, d)
    <2>3. progress \in 0..N /\ 1..progress \subseteq le
      BY <1>1, <2>2 DEF ProgressCursor
    <2>4. v = CASE s.confirmed -> [kind |-> "Complete", advance |-> IF progress # 0 THEN progress ELSE s.start]
                [] ~s.confirmed /\ progress # 0 -> [kind |-> "Checkpoint", advance |-> progress]
                [] OTHER -> [kind |-> "NoProgress", advance |-> 0]
      BY <1>5, <2>2 DEF Verdict
    <2> HIDE DEF progress
    <2>5. CASE s.confirmed
      <3>1. v.kind = "Complete" /\ (v.advance = progress \/ v.advance = s.start)
        BY <2>4, <2>5
      <3>2. Items \subseteq le
        BY <1>1, <2>2, <2>5 DEF Items
      <3> QED  BY <1>1, <1>5, <2>3, <3>1, <3>2
    <2>6. CASE ~s.confirmed
      <3>1. (v.kind = "Checkpoint" /\ v.advance = progress) \/ (v.kind = "NoProgress" /\ v.advance = 0)
        BY <2>4, <2>6
      <3> QED  BY <1>1, <1>5, <2>3, <3>1
    <2> QED  BY <2>5, <2>6
  <1> QED  BY <1>2, <1>3, <1>4, <1>5

\* The threads of a worker that runs nothing.
LEMMA Resting ==
    ASSUME LeaseAssumption, NEW c, NEW d, NEW k, NEW g, NEW sq, NEW oq, NEW fi, NEW le, NEW t,
           IsScan(t), t.pc \in {"idle", "dead", "advance"}, t.fence \in Nat, t.start = 0, t.resume = 0,
           t.todo = {}, t.last = 0, ~t.confirmed, t.next = 0, t.kind # "Mismatch", t.advance \in 0..N,
           t.pc = "advance" => /\ t.kind \in {"Checkpoint", "Complete"}
                               /\ 1..t.advance \subseteq le
                               /\ t.kind = "Complete" => Items \subseteq le,
           IsCommit(c), IsDrain(d), WorkOK(c, sq, oq, fi, le),
           c.pc = "exited", d.pc \in {"none", "ok", "failed"}, g \in {"Open", "Recorded", "Closed"},
           d.pc = "failed" => d.error, d.pc = "ok" => ~d.error /\ g # "Open", g = "Closed" => d.pc = "ok",
           d.pc \in Joined => oq = << >>
    PROVE  WorkerOK(t, c, d, "exited", k, g, sq, oq, fi, le)
  <1>1. ThreadsOK(t, c, d, "exited", k, g, sq)
    BY DEF ThreadsOK, Running, Open, Joined
  <1>2. ScanOK(t, le)
    BY DEF ScanOK, LeaseAssumption, Open
  <1>3. t.pc \notin Running
    BY DEF Running, Open
  <1> QED  BY <1>1, <1>2, <1>3 DEF WorkerOK

\* The threads are joined and the worker decides.
LEMMA ResolveKeeps ==
    ASSUME LeaseAssumption, MapsOK, NEW w \in Worker, WorkerInv(w), Resolve(w)
    PROVE  WorkerInv(w)'
  <1> DEFINE s == scan[w]
             t == scan'[w]
             v == Verdict(scan[w], drain[w], signal[w])
             pc == IF v.kind \in {"Complete", "Checkpoint"} THEN "advance" ELSE "dead"
  <1>1. s.pc = "unwatch" /\ watch[w] = "exited"
    BY DEF Resolve
  <1>2. t = [Stopped(pc) EXCEPT !.fence = s.fence, !.kind = v.kind, !.advance = v.advance]
    BY DEF Resolve, MapsOK
  <1> HIDE DEF v
  <1>3. /\ v.kind # "Mismatch"
        /\ v.advance \in 0..N
        /\ v.kind \in {"Complete", "Checkpoint"} => 1..v.advance \subseteq ledger
        /\ v.kind = "Complete" => Items \subseteq ledger
    BY <1>1, VerdictSound DEF WorkerInv, v
  <1>4. /\ IsScan(t) /\ t.pc = pc /\ t.fence = s.fence /\ t.kind = v.kind /\ t.advance = v.advance
        /\ t.start = 0 /\ t.resume = 0 /\ t.todo = {} /\ t.last = 0 /\ ~t.confirmed /\ t.next = 0
    BY <1>2 DEF IsScan, Stopped
  <1>5. s.fence \in Nat
    BY DEF WorkerInv, WorkerOK, ScanOK
  <1>6. /\ IsCommit(commit[w]) /\ IsDrain(drain[w]) /\ WorkOK(commit[w], submitQ[w], outcomeQ[w], findings, ledger)
        /\ drain[w].pc \in Joined => outcomeQ[w] = << >>
    BY DEF WorkerInv, WorkerOK
  <1>7. ThreadsOK(s, commit[w], drain[w], "exited", cancel[w], signal[w], submitQ[w])
    BY <1>1 DEF WorkerInv, WorkerOK
  <1> HIDE DEF s
  <1>8. /\ drain[w].pc \in {"ok", "failed"} /\ commit[w].pc = "exited" /\ signal[w] \in {"Open", "Recorded", "Closed"}
        /\ drain[w].pc = "failed" => drain[w].error
        /\ drain[w].pc = "ok" => ~drain[w].error /\ signal[w] # "Open"
        /\ signal[w] = "Closed" => drain[w].pc = "ok"
    BY <1>1, <1>7 DEF ThreadsOK, Joined
  <1> HIDE DEF t
  <1>9. WorkerOK(t, commit[w], drain[w], "exited", cancel[w], signal[w], submitQ[w], outcomeQ[w], findings, ledger)
    BY <1>3, <1>4, <1>5, <1>6, <1>8, Resting
  <1> QED  BY <1>1, <1>9 DEF WorkerInv, Resolve, durableVars, pipeVars, t

\* The coordinator answers, and the worker is free or gone.
LEMMA AdvanceKeeps ==
    ASSUME LeaseAssumption, MapsOK, NEW w \in Worker, WorkerInv(w), Advance(w)
    PROVE  WorkerInv(w)'
  <1> DEFINE s == scan[w]
             t == scan'[w]
  <1>1. s.pc = "advance"
    BY DEF Advance
  <1>2. PICK pc \in {"idle", "dead"} : t = Stopped(pc)
    BY DEF Advance, MapsOK
  <1>3. /\ IsScan(t) /\ t.pc = pc /\ t.fence = 0 /\ t.kind = "None" /\ t.advance = 0
        /\ t.start = 0 /\ t.resume = 0 /\ t.todo = {} /\ t.last = 0 /\ ~t.confirmed /\ t.next = 0
    BY <1>2 DEF IsScan, Stopped
  <1>4. /\ IsCommit(commit[w]) /\ IsDrain(drain[w]) /\ WorkOK(commit[w], submitQ[w], outcomeQ[w], findings, ledger)
        /\ drain[w].pc \in Joined => outcomeQ[w] = << >>
    BY DEF WorkerInv, WorkerOK
  <1>5. ThreadsOK(s, commit[w], drain[w], watch[w], cancel[w], signal[w], submitQ[w])
    BY DEF WorkerInv, WorkerOK
  <1> HIDE DEF s
  <1>6. /\ drain[w].pc \in {"none", "ok", "failed"} /\ commit[w].pc = "exited" /\ watch[w] = "exited"
        /\ signal[w] \in {"Open", "Recorded", "Closed"}
        /\ drain[w].pc = "failed" => drain[w].error
        /\ drain[w].pc = "ok" => ~drain[w].error /\ signal[w] # "Open"
        /\ signal[w] = "Closed" => drain[w].pc = "ok"
    BY <1>1, <1>5 DEF ThreadsOK, Running, Open
  <1> HIDE DEF t
  <1>7. 0 \in 0..N
    BY DEF LeaseAssumption
  <1>8. WorkerOK(t, commit[w], drain[w], "exited", cancel[w], signal[w], submitQ[w], outcomeQ[w], findings, ledger)
    BY <1>3, <1>4, <1>6, <1>7, Resting
  <1> QED  BY <1>6, <1>8 DEF WorkerInv, Advance, durableVars, pipeVars, t

\* A process without a lease: at the start, and after a crash.
LEMMA StoppedIsFine ==
    ASSUME LeaseAssumption, NEW pc \in {"idle", "dead"}, NEW fi, NEW le
    PROVE  WorkerOK(Stopped(pc), NoCommit, NoDrain, "exited", FALSE, "Open", << >>, << >>, fi, le)
  <1> DEFINE t == Stopped(pc)
  <1>1. /\ IsScan(t) /\ t.pc = pc /\ t.fence = 0 /\ t.kind = "None" /\ t.advance = 0
        /\ t.start = 0 /\ t.resume = 0 /\ t.todo = {} /\ t.last = 0 /\ ~t.confirmed /\ t.next = 0
    BY DEF IsScan, Stopped
  <1>2. IsCommit(NoCommit) /\ NoCommit.pc = "exited"
    BY DEF IsCommit, NoCommit
  <1>3. IsDrain(NoDrain) /\ NoDrain.pc = "none"
    BY DEF IsDrain, NoDrain
  <1>4. WorkOK(NoCommit, << >>, << >>, fi, le)
    <2>1. << >> \in Seq(Work) /\ << >> \in Seq(Outcome) /\ Len(<< >>) = 0
      OBVIOUS
    <2> QED  BY <1>2, <2>1 DEF WorkOK, Busy
  <1>5. 0 \in 0..N
    BY DEF LeaseAssumption
  <1> HIDE DEF t
  <1>6. /\ t.pc \in {"idle", "dead", "advance"} /\ t.pc # "advance" /\ t.kind # "Mismatch"
        /\ t.fence \in Nat /\ t.advance \in 0..N
        /\ NoDrain.pc \in {"none", "ok", "failed"} /\ NoDrain.pc # "ok" /\ NoDrain.pc # "failed"
        /\ NoDrain.pc \notin Joined
    BY <1>1, <1>3, <1>5 DEF Joined
  <1>7. WorkerOK(t, NoCommit, NoDrain, "exited", FALSE, "Open", << >>, << >>, fi, le)
    BY <1>1, <1>2, <1>3, <1>4, <1>6, Resting
  <1> QED  BY <1>7 DEF t

\* The process is lost.
LEMMA CrashKeeps ==
    ASSUME LeaseAssumption, MapsOK, NEW w \in Worker, Crash(w)
    PROVE  WorkerInv(w)'
  <1>1. /\ scan'[w] = Stopped("dead") /\ commit'[w] = NoCommit /\ drain'[w] = NoDrain /\ watch'[w] = "exited"
        /\ cancel'[w] = FALSE /\ signal'[w] = "Open" /\ submitQ'[w] = << >> /\ outcomeQ'[w] = << >>
    BY DEF Crash, MapsOK
  <1>2. WorkerOK(Stopped("dead"), NoCommit, NoDrain, "exited", FALSE, "Open", << >>, << >>, findings', ledger')
    BY StoppedIsFine
  <1> QED  BY <1>1, <1>2 DEF WorkerInv

\* The commit worker and the drain thread move on.
LEMMA CommitPc ==
    ASSUME NEW r, IsCommit(r), NEW p
    PROVE  LET t == [r EXCEPT !.pc = p] IN IsCommit(t) /\ t.pc = p /\ t.work = r.work /\ t.ok = r.ok
  BY DEF IsCommit

\* The same of the drain thread.
LEMMA DrainPc ==
    ASSUME NEW r, IsDrain(r), NEW p
    PROVE  LET t == [r EXCEPT !.pc = p]
           IN  IsDrain(t) /\ t.pc = p /\ t.error = r.error /\ t.agg = r.agg /\ t.committed = r.committed
  BY DEF IsDrain

\* A new lease starts from the durable cursor with nothing in its queues.
LEMMA ClaimKeeps ==
    ASSUME LeaseAssumption, MapsOK, ShardInv, NEW w \in Worker, Claim(w)
    PROVE  WorkerInv(w)'
  <1> DEFINE t == scan'[w]
             c == [NoCommit EXCEPT !.pc = "recv"]
             d == [NoDrain EXCEPT !.pc = "recv"]
             key == [j \in 0..(0 - 1) |-> 1]
  <1>1. t = [Stopped("page") EXCEPT !.fence = shard.fence + 1, !.start = shard.cursor, !.resume = shard.cursor]
    BY DEF Claim, MapsOK
  <1>2. /\ commit'[w] = c /\ drain'[w] = d /\ watch'[w] = "watch"
        /\ cancel'[w] = FALSE /\ signal'[w] = "Open" /\ submitQ'[w] = << >> /\ outcomeQ'[w] = << >>
    BY DEF Claim, MapsOK
  <1>3. findings' = findings /\ ledger' = ledger
    BY DEF Claim
  <1>4. shard.fence \in Nat /\ shard.cursor \in 0..N /\ 1..shard.cursor \subseteq ledger
    BY DEF ShardInv
  <1>5. /\ IsScan(t) /\ t.pc = "page" /\ t.fence = shard.fence + 1 /\ t.kind = "None" /\ t.advance = 0
        /\ t.start = shard.cursor /\ t.resume = shard.cursor /\ t.todo = {} /\ t.last = 0 /\ ~t.confirmed
        /\ t.next = 0 /\ t.submitted = {} /\ ~t.error
    BY <1>1 DEF IsScan, Stopped
  <1>6. IsCommit(c) /\ c.pc = "recv"
    <2>1. IsCommit(NoCommit)
      BY DEF IsCommit, NoCommit
    <2> QED  BY <2>1, CommitPc
  <1>7. IsDrain(d) /\ d.pc = "recv" /\ ~d.error /\ d.committed = << >> /\ d.agg = NewAggregator(0, MaxSeq)
    <2>1. IsDrain(NoDrain) /\ ~NoDrain.error /\ NoDrain.committed = << >> /\ NoDrain.agg = NewAggregator(0, MaxSeq)
      BY DEF IsDrain, NoDrain
    <2> QED  BY <2>1, DrainPc
  <1> HIDE DEF t, c, d
  <1>8. ThreadsOK(t, c, d, "watch", FALSE, "Open", << >>)
    BY <1>5, <1>6, <1>7 DEF ThreadsOK, Running, Open, Joined, Busy
  <1>9. << >> \in Seq(Work) /\ << >> \in Seq(Outcome) /\ << >> \in Seq(Nat) /\ Len(<< >>) = 0
    OBVIOUS
  <1>10. WorkOK(c, << >>, << >>, findings, ledger)
    BY <1>6, <1>9 DEF WorkOK, Busy
  <1>11. ScanOK(t, ledger)
    BY <1>4, <1>5 DEF ScanOK, Open, LeaseAssumption
  <1>12. 0..(0 - 1) = {} /\ key \in [0..(0 - 1) -> Items]
    OBVIOUS
  <1> HIDE DEF key
  <1>13. Placed(key, c, d, << >>, << >>)
    <2>1. DOMAIN d.agg.receipts = {}
      BY <1>7 DEF NewAggregator
    <2> QED  BY <1>6, <1>7, <1>9, <1>12, <2>1 DEF Placed, Busy
  <1>14. AggOK(d.agg)
    BY <1>7 DEF AggOK, NewAggregator
  <1>15. Rising(key, 0) /\ Ahead(key, 0, t)
    BY <1>5, <1>12 DEF Rising, Ahead, InPage
  <1>16. AllCovered(key, 0, t, ledger)
    BY <1>4, <1>5, <1>12 DEF AllCovered, Covered, InPage
  <1>17. Total(c, d, << >>, << >>) = 0
    BY <1>6, <1>7, <1>9 DEF Total, Hand, Busy
  <1>18. StreamOK(key, 0, t, c, d, << >>, << >>, ledger)
    BY <1>5, <1>7, <1>9, <1>12, <1>13, <1>14, <1>15, <1>16, <1>17 DEF StreamOK, InPage
  <1>19. \E n \in Nat : \E k2 \in [0..(n - 1) -> Items] : StreamOK(k2, n, t, c, d, << >>, << >>, ledger)
    BY <1>12, <1>18
  <1>20. WorkerOK(t, c, d, "watch", FALSE, "Open", << >>, << >>, findings, ledger)
    BY <1>5, <1>6, <1>7, <1>8, <1>10, <1>11, <1>19 DEF WorkerOK, Joined
  <1> QED  BY <1>2, <1>3, <1>20 DEF WorkerInv, t

-----------------------------------------------------------------------------
(* The commit worker                                                       *)

\* It goes on with the item in its hands.
LEMMA CommitGoesOn ==
    ASSUME NEW s, NEW c, NEW c2, NEW d, NEW x, NEW k, NEW g, NEW sq, NEW oq, NEW fi, NEW le,
           WorkerOK(s, c, d, x, k, g, sq, oq, fi, le),
           c.pc \in Busy, IsCommit(c2), c2.pc \in Busy, c2.work = c.work, c2.ok \in BOOLEAN,
           c2.pc = "ledger" => c.work.key \in fi,
           c2.pc \in {"findings", "ledger", "taken"} => c2.ok = FALSE,
           c2.ok => c.work.key \in le
    PROVE  WorkerOK(s, c2, d, x, k, g, sq, oq, fi, le)
  <1>1. c.pc # "exited" /\ c2.pc # "exited"
    BY DEF Busy
  <1>2. ThreadsOK(s, c2, d, x, k, g, sq)
    BY <1>1 DEF WorkerOK, ThreadsOK
  <1>3. WorkOK(c2, sq, oq, fi, le)
    BY DEF WorkerOK, WorkOK
  <1>4. Hand(c2) = Hand(c)
    BY DEF Hand
  <1>5. ASSUME NEW n, NEW key, StreamOK(key, n, s, c, d, sq, oq, le)
        PROVE  StreamOK(key, n, s, c2, d, sq, oq, le)
    <2>1. Total(c2, d, sq, oq) = Total(c, d, sq, oq)
      BY <1>4 DEF Total
    <2>2. Placed(key, c2, d, sq, oq)
      BY <1>4, <1>5 DEF StreamOK, Placed
    <2> QED  BY <1>5, <2>1, <2>2 DEF StreamOK
  <1> QED  BY <1>2, <1>3, <1>5 DEF WorkerOK

\* It exits: with a failure known, whatever it leaves undone, or at the end of a
\* queue nobody will add to.
LEMMA CommitStops ==
    ASSUME NEW s, NEW c, NEW c2, NEW d, NEW x, NEW k, NEW g, NEW sq, NEW oq, NEW oq2, NEW fi, NEW le,
           WorkerOK(s, c, d, x, k, g, sq, oq, fi, le),
           c.pc # "exited", IsCommit(c2), c2.pc = "exited",
           oq2 \in Seq(Outcome), \A i \in 1..Len(oq2) : oq2[i].ok => oq2[i].work.key \in le,
           d.error \/ g = "Recorded" \/ (sq = << >> /\ s.pc \notin Open /\ c.pc = "recv" /\ oq2 = oq)
    PROVE  WorkerOK(s, c2, d, x, k, g, sq, oq2, fi, le)
  <1>1. d.pc \notin Joined /\ s.pc \in Running
    BY DEF WorkerOK, ThreadsOK
  <1>2. ThreadsOK(s, c2, d, x, k, g, sq)
    BY <1>1 DEF WorkerOK, ThreadsOK
  <1>3. WorkOK(c2, sq, oq2, fi, le)
    BY DEF WorkerOK, WorkOK, Busy
  <1>4. ASSUME ~Cause(s, d, g)
        PROVE  \E n \in Nat : \E key \in [0..(n - 1) -> Items] : StreamOK(key, n, s, c2, d, sq, oq2, le)
    <2>1. oq2 = oq /\ c.pc = "recv"
      BY <1>4 DEF Cause
    <2>2. Hand(c2) = Hand(c) /\ c.pc \notin Busy /\ c2.pc \notin Busy
      BY <2>1 DEF Hand, Busy
    <2>3. PICK n \in Nat : \E key \in [0..(n - 1) -> Items] : StreamOK(key, n, s, c, d, sq, oq, le)
      BY <1>1, <1>4 DEF WorkerOK
    <2>4. PICK key \in [0..(n - 1) -> Items] : StreamOK(key, n, s, c, d, sq, oq, le)
      BY <2>3
    <2>5. Total(c2, d, sq, oq) = Total(c, d, sq, oq)
      BY <2>2 DEF Total
    <2>6. Placed(key, c2, d, sq, oq)
      BY <2>2, <2>4 DEF StreamOK, Placed
    <2>7. StreamOK(key, n, s, c2, d, sq, oq2, le)
      BY <2>1, <2>4, <2>5, <2>6 DEF StreamOK
    <2> QED  BY <2>7
  <1> QED  BY <1>1, <1>2, <1>3, <1>4 DEF WorkerOK

\* It takes the first item of its queue.
LEMMA CommitTakes ==
    ASSUME NEW s, NEW c, NEW c2, NEW d, NEW x, NEW k, NEW g, NEW sq, NEW oq, NEW fi, NEW le,
           WorkerOK(s, c, d, x, k, g, sq, oq, fi, le),
           c.pc = "recv", sq # << >>, c2 = [pc |-> "taken", work |-> Head(sq), ok |-> FALSE]
    PROVE  WorkerOK(s, c2, d, x, k, g, Tail(sq), oq, fi, le)
  <1> DEFINE sq2 == Tail(sq)
  <1>1. sq \in Seq(Work) /\ oq \in Seq(Outcome)
    BY DEF WorkerOK, WorkOK
  <1>2. /\ Len(sq) \in Nat /\ Len(sq) >= 1 /\ sq2 \in Seq(Work) /\ Len(sq2) = Len(sq) - 1 /\ Head(sq) = sq[1]
        /\ \A i \in 1..Len(sq2) : sq2[i] = sq[i + 1]
        /\ Head(sq) \in Work
    BY <1>1
  <1> HIDE DEF sq2
  <1>3. IsCommit(c2) /\ c2.pc = "taken" /\ c2.work = sq[1] /\ c2.ok = FALSE
    BY <1>2 DEF IsCommit
  <1>4. s.pc \in Running
    BY DEF WorkerOK, ThreadsOK
  <1>5. ThreadsOK(s, c2, d, x, k, g, sq2)
    BY <1>3 DEF WorkerOK, ThreadsOK, Busy
  <1>6. WorkOK(c2, sq2, oq, fi, le)
    BY <1>2, <1>3 DEF WorkerOK, WorkOK
  <1>7. ASSUME NEW n \in Nat, NEW key \in [0..(n - 1) -> Items], StreamOK(key, n, s, c, d, sq, oq, le)
        PROVE  StreamOK(key, n, s, c2, d, sq2, oq, le)
    <2> DEFINE m == Len(d.committed)
               a == Len(oq)
               e == Len(sq)
    <2>1. Hand(c) = 0 /\ Hand(c2) = 1 /\ c2.pc \in Busy
      BY <1>3 DEF Hand, Busy
    <2>2. d.committed \in Seq(Nat)
      BY <1>7 DEF StreamOK
    <2>3. m \in Nat /\ a \in Nat /\ e \in Nat /\ e >= 1
      BY <1>1, <1>2, <2>2
    <2>4. n = m + a + 0 + e /\ Total(c2, d, sq2, oq) = m + a + 1 + Len(sq2)
      BY <1>7, <2>1 DEF StreamOK, Total
    <2>5. \A i \in 1..e : sq[i] = [seq |-> m + a + 0 + i - 1, key |-> key[m + a + 0 + i - 1]]
      BY <1>7, <2>1 DEF StreamOK, Placed
    <2> HIDE DEF m, a, e
    <2>6. n = Total(c2, d, sq2, oq)
      BY <1>2, <2>3, <2>4 DEF e
    <2>7. c2.work = [seq |-> m + a, key |-> key[m + a]]
      <3>1. m + a + 0 + 1 - 1 = m + a /\ 1 \in 1..e
        BY <2>3
      <3>2. sq[1] = [seq |-> m + a + 0 + 1 - 1, key |-> key[m + a + 0 + 1 - 1]]
        BY <2>5, <3>1
      <3> QED  BY <1>3, <3>1, <3>2
    <2>8. ASSUME NEW i \in 1..Len(sq2)
          PROVE  sq2[i] = [seq |-> m + a + 1 + i - 1, key |-> key[m + a + 1 + i - 1]]
      <3>1. m + a + 0 + (i + 1) - 1 = m + a + 1 + i - 1 /\ i + 1 \in 1..e
        BY <1>2, <2>3 DEF e
      <3>2. sq[i + 1] = [seq |-> m + a + 0 + (i + 1) - 1, key |-> key[m + a + 0 + (i + 1) - 1]]
        BY <2>5, <3>1
      <3> QED  BY <1>2, <3>1, <3>2
    <2>9. Placed(key, c2, d, sq2, oq)
      BY <1>7, <2>1, <2>7, <2>8 DEF StreamOK, Placed, m, a
    <2> QED  BY <1>7, <2>6, <2>9 DEF StreamOK
  <1>8. WorkerOK(s, c2, d, x, k, g, sq2, oq, fi, le)
    BY <1>3, <1>5, <1>6, <1>7 DEF WorkerOK
  <1> QED  BY <1>8 DEF sq2

\* It reports the item in its hands to the drain thread, and waits for the next.
LEMMA CommitReports ==
    ASSUME NEW s, NEW c, NEW c2, NEW d, NEW x, NEW k, NEW g, NEW sq, NEW oq, NEW fi, NEW le,
           WorkerOK(s, c, d, x, k, g, sq, oq, fi, le),
           c.pc = "report", IsCommit(c2), c2.pc = "recv"
    PROVE  WorkerOK(s, c2, d, x, k, g, sq, Append(oq, [work |-> c.work, ok |-> c.ok]), fi, le)
  <1> DEFINE o == [work |-> c.work, ok |-> c.ok]
             oq2 == Append(oq, o)
  <1>1. sq \in Seq(Work) /\ oq \in Seq(Outcome)
    BY DEF WorkerOK, WorkOK
  <1>2. c.pc \in Busy /\ c2.pc \notin Busy
    BY DEF Busy
  <1>3. o \in Outcome /\ o.work = c.work /\ (o.ok => o.work.key \in le)
    BY <1>2 DEF WorkerOK, WorkOK, Outcome
  <1> HIDE DEF o
  <1>4. /\ Len(oq) \in Nat /\ oq2 \in Seq(Outcome) /\ Len(oq2) = Len(oq) + 1 /\ oq2[Len(oq) + 1] = o
        /\ \A i \in 1..Len(oq) : oq2[i] = oq[i]
    BY <1>1, <1>3
  <1> HIDE DEF oq2
  <1>5. \A i \in 1..Len(oq2) : oq2[i].ok => oq2[i].work.key \in le
    <2>1. \A i \in 1..Len(oq) : oq[i].ok => oq[i].work.key \in le
      BY DEF WorkerOK, WorkOK
    <2>2. \A i \in 1..Len(oq2) : i \in 1..Len(oq) \/ i = Len(oq) + 1
      BY <1>4
    <2> QED  BY <1>3, <1>4, <2>1, <2>2
  <1>6. WorkOK(c2, sq, oq2, fi, le)
    BY <1>1, <1>2, <1>4, <1>5 DEF WorkOK, Busy
  <1>7. d.pc \notin Joined
    BY DEF WorkerOK, ThreadsOK
  <1>8. ThreadsOK(s, c2, d, x, k, g, sq)
    BY <1>7 DEF WorkerOK, ThreadsOK, Busy
  <1>9. ASSUME NEW n \in Nat, NEW key \in [0..(n - 1) -> Items], StreamOK(key, n, s, c, d, sq, oq, le)
        PROVE  StreamOK(key, n, s, c2, d, sq, oq2, le)
    <2> DEFINE m == Len(d.committed)
               a == Len(oq)
               e == Len(sq)
    <2>1. Hand(c) = 1 /\ Hand(c2) = 0
      BY <1>2 DEF Hand
    <2>2. d.committed \in Seq(Nat)
      BY <1>9 DEF StreamOK
    <2>3. m \in Nat /\ a \in Nat /\ e \in Nat
      BY <1>1, <2>2
    <2>4. n = m + a + 1 + e /\ Total(c2, d, sq, oq2) = m + Len(oq2) + 0 + e
      BY <1>9, <2>1 DEF StreamOK, Total
    <2>5. \A i \in 1..e : sq[i] = [seq |-> m + a + 1 + i - 1, key |-> key[m + a + 1 + i - 1]]
      BY <1>9, <2>1 DEF StreamOK, Placed
    <2>6. c.work = [seq |-> m + a, key |-> key[m + a]]
      BY <1>2, <1>9 DEF StreamOK, Placed
    <2>7. \A i \in 1..a : oq[i].work = [seq |-> m + i - 1, key |-> key[m + i - 1]]
      BY <1>9 DEF StreamOK, Placed
    <2> HIDE DEF m, a, e
    <2>8. Len(oq2) = a + 1 /\ n = Total(c2, d, sq, oq2)
      BY <1>4, <2>3, <2>4 DEF a
    <2>9. ASSUME NEW i \in 1..Len(oq2)
          PROVE  oq2[i].work = [seq |-> m + i - 1, key |-> key[m + i - 1]]
      <3>1. CASE i = a + 1
        <4>1. m + i - 1 = m + a
          BY <2>3, <3>1
        <4> QED  BY <1>3, <1>4, <2>6, <3>1, <4>1 DEF a
      <3>2. CASE i # a + 1
        <4>1. i \in 1..a
          BY <2>3, <2>8, <3>2
        <4> QED  BY <1>4, <2>7, <4>1 DEF a
      <3> QED  BY <3>1, <3>2
    <2>10. ASSUME NEW i \in 1..e
           PROVE  sq[i] = [seq |-> m + Len(oq2) + 0 + i - 1, key |-> key[m + Len(oq2) + 0 + i - 1]]
      <3>1. m + Len(oq2) + 0 + i - 1 = m + a + 1 + i - 1
        BY <2>3, <2>8
      <3> QED  BY <2>5, <3>1
    <2>11. Placed(key, c2, d, sq, oq2)
      BY <1>2, <1>9, <2>1, <2>9, <2>10 DEF StreamOK, Placed, m, e
    <2> QED  BY <1>9, <2>8, <2>11 DEF StreamOK
  <1>10. WorkerOK(s, c2, d, x, k, g, sq, oq2, fi, le)
    BY <1>6, <1>7, <1>8, <1>9 DEF WorkerOK
  <1> QED  BY <1>10 DEF oq2, o

\* The commit worker takes the item at the head of the execution queue.
LEMMA CommitReceiveKeeps ==
    ASSUME MapsOK, NEW w \in Worker, WorkerInv(w), CommitReceive(w)
    PROVE  WorkerInv(w)'
  <1> DEFINE c2 == [pc |-> "taken", work |-> Head(submitQ[w]), ok |-> FALSE]
  <1>1. /\ commit[w].pc = "recv" /\ submitQ[w] # << >>
        /\ commit'[w] = c2 /\ submitQ'[w] = Tail(submitQ[w])
    BY DEF CommitReceive, MapsOK
  <1>2. UNCHANGED <<findings, ledger, scan, drain, watch, cancel, signal, outcomeQ>>
    BY DEF CommitReceive, durableVars
  <1> HIDE DEF c2
  <1>3. WorkerOK(scan[w], c2, drain[w], watch[w], cancel[w], signal[w],
                 Tail(submitQ[w]), outcomeQ[w], findings, ledger)
    BY <1>1, CommitTakes DEF WorkerInv, c2
  <1> QED  BY <1>1, <1>2, <1>3 DEF WorkerInv

\* A commit worker that finds the token cancelled knows of a failure.
LEMMA CommitCancelled ==
    ASSUME NEW s, NEW c, NEW d, NEW x, NEW k, NEW g, NEW sq,
           ThreadsOK(s, c, d, x, k, g, sq), c.pc # "exited", k
    PROVE  d.error \/ g = "Recorded"
  BY DEF ThreadsOK

\* The commit worker leaves: cancelled, or nothing can come any more.
LEMMA CommitExitKeeps ==
    ASSUME MapsOK, NEW w \in Worker, WorkerInv(w), CommitExit(w)
    PROVE  WorkerInv(w)'
  <1> DEFINE c == commit[w]
             c2 == [commit[w] EXCEPT !.pc = "exited"]
  <1>1. /\ c.pc = "recv" /\ (cancel[w] \/ (submitQ[w] = << >> /\ ~SenderOpen(w))) /\ commit'[w] = c2
    BY DEF CommitExit, MapsOK
  <1>2. UNCHANGED <<findings, ledger, scan, drain, watch, cancel, signal, submitQ, outcomeQ>>
    BY DEF CommitExit, durableVars
  <1>3. IsCommit(c) /\ ThreadsOK(scan[w], c, drain[w], watch[w], cancel[w], signal[w], submitQ[w])
    BY DEF WorkerInv, WorkerOK
  <1>4. IsCommit(c2) /\ c2.pc = "exited"
    BY <1>3, CommitPc
  <1>5. c.pc # "exited"
    BY <1>1
  <1> HIDE DEF c, c2
  <1>6. \/ drain[w].error \/ signal[w] = "Recorded"
        \/ submitQ[w] = << >> /\ scan[w].pc \notin Open
    BY <1>1, <1>3, <1>5, CommitCancelled DEF SenderOpen, Open
  <1>7. outcomeQ[w] \in Seq(Outcome) /\ \A i \in 1..Len(outcomeQ[w]) : outcomeQ[w][i].ok => outcomeQ[w][i].work.key \in ledger
    BY DEF WorkerInv, WorkerOK, WorkOK
  <1>8. WorkerOK(scan[w], c, drain[w], watch[w], cancel[w], signal[w], submitQ[w], outcomeQ[w], findings, ledger)
    BY DEF WorkerInv, c
  <1>9. WorkerOK(scan[w], c2, drain[w], watch[w], cancel[w], signal[w], submitQ[w], outcomeQ[w], findings, ledger)
    BY <1>1, <1>4, <1>5, <1>6, <1>7, <1>8, CommitStops
  <1> QED  BY <1>1, <1>2, <1>9 DEF WorkerInv

\* A report that may be lost adds at most itself to the queue.
LEMMA TrySentSound ==
    ASSUME NEW w, NEW ok \in BOOLEAN, outcomeQ[w] \in Seq(Outcome), commit[w].work \in Work,
           \A i \in 1..Len(outcomeQ[w]) : outcomeQ[w][i].ok => outcomeQ[w][i].work.key \in ledger,
           ok => commit[w].work.key \in ledger
    PROVE  /\ TrySent(w, ok) \in Seq(Outcome)
           /\ \A i \in 1..Len(TrySent(w, ok)) : TrySent(w, ok)[i].ok => TrySent(w, ok)[i].work.key \in ledger
  <1> DEFINE oq == outcomeQ[w]
             o == [work |-> commit[w].work, ok |-> ok]
             oq2 == Append(oq, o)
  <1>1. o \in Outcome /\ o.work = commit[w].work /\ o.ok = ok
    BY DEF Outcome
  <1>2. \A i \in 1..Len(oq) : oq[i].ok => oq[i].work.key \in ledger
    OBVIOUS
  <1> HIDE DEF o, oq
  <1>3. oq \in Seq(Outcome)
    BY DEF oq
  <1>4. /\ Len(oq) \in Nat /\ oq2 \in Seq(Outcome) /\ Len(oq2) = Len(oq) + 1 /\ oq2[Len(oq) + 1] = o
        /\ \A i \in 1..Len(oq) : oq2[i] = oq[i]
    BY <1>1, <1>3
  <1> HIDE DEF oq2
  <1>5. \A i \in 1..Len(oq2) : i \in 1..Len(oq) \/ i = Len(oq) + 1
    BY <1>4
  <1>6. \A i \in 1..Len(oq2) : oq2[i].ok => oq2[i].work.key \in ledger
    BY <1>1, <1>2, <1>4, <1>5
  <1>7. TrySent(w, ok) = oq2 \/ TrySent(w, ok) = oq
    BY DEF TrySent, oq, oq2, o
  <1> QED  BY <1>2, <1>3, <1>4, <1>6, <1>7

\* The two places where a cancelled commit worker tries to report and exits.
LEMMA CommitGivesUp ==
    ASSUME NEW w \in Worker, WorkerInv(w), cancel[w], commit[w].pc \in {"taken", "outcome"},
           NEW ok \in BOOLEAN, ok => commit[w].ok,
           commit'[w] = [commit[w] EXCEPT !.pc = "exited"], outcomeQ'[w] = TrySent(w, ok),
           UNCHANGED <<findings, ledger, scan, drain, watch, cancel, signal, submitQ>>
    PROVE  WorkerInv(w)'
  <1> DEFINE c == commit[w]
             c2 == [commit[w] EXCEPT !.pc = "exited"]
             oq2 == TrySent(w, ok)
  <1>1. IsCommit(c) /\ ThreadsOK(scan[w], c, drain[w], watch[w], cancel[w], signal[w], submitQ[w])
    BY DEF WorkerInv, WorkerOK
  <1>2. WorkOK(c, submitQ[w], outcomeQ[w], findings, ledger)
    BY DEF WorkerInv, WorkerOK
  <1>3. IsCommit(c2) /\ c2.pc = "exited"
    BY <1>1, CommitPc
  <1>4. c.pc # "exited" /\ c.pc \in Busy
    BY DEF Busy
  <1>5. drain[w].error \/ signal[w] = "Recorded"
    BY <1>1, <1>4, CommitCancelled
  <1>6. /\ outcomeQ[w] \in Seq(Outcome) /\ c.work \in Work /\ (ok => c.work.key \in ledger)
        /\ \A i \in 1..Len(outcomeQ[w]) : outcomeQ[w][i].ok => outcomeQ[w][i].work.key \in ledger
    BY <1>2, <1>4 DEF WorkOK
  <1>7. oq2 \in Seq(Outcome) /\ \A i \in 1..Len(oq2) : oq2[i].ok => oq2[i].work.key \in ledger
    BY <1>6, TrySentSound
  <1>8. WorkerOK(scan[w], c, drain[w], watch[w], cancel[w], signal[w], submitQ[w], outcomeQ[w], findings, ledger)
    BY DEF WorkerInv
  <1> HIDE DEF c, c2, oq2
  <1>9. WorkerOK(scan[w], c2, drain[w], watch[w], cancel[w], signal[w], submitQ[w], oq2, findings, ledger)
    BY <1>3, <1>4, <1>5, <1>7, <1>8, CommitStops
  <1> QED  BY <1>9 DEF WorkerInv, c2, oq2

\* It goes on with its item, having perhaps made something durable.
LEMMA CommitProceeds ==
    ASSUME NEW w \in Worker, WorkerInv(w), commit[w].pc \in Busy,
           IsCommit(commit'[w]), commit'[w].pc \in Busy, commit'[w].work = commit[w].work,
           commit'[w].ok \in BOOLEAN,
           commit'[w].pc = "ledger" => commit[w].work.key \in findings',
           commit'[w].pc \in {"findings", "ledger", "taken"} => commit'[w].ok = FALSE,
           commit'[w].ok => commit[w].work.key \in ledger',
           findings \subseteq findings', ledger \subseteq ledger',
           UNCHANGED <<scan, drain, watch, cancel, signal, submitQ, outcomeQ>>
    PROVE  WorkerInv(w)'
  <1> DEFINE c == commit[w]
             c2 == commit'[w]
  <1>1. WorkerOK(scan[w], c, drain[w], watch[w], cancel[w], signal[w], submitQ[w], outcomeQ[w], findings', ledger')
    BY WorkerKept DEF WorkerInv
  <1> HIDE DEF c, c2
  <1>2. /\ c.pc \in Busy /\ IsCommit(c2) /\ c2.pc \in Busy /\ c2.work = c.work /\ c2.ok \in BOOLEAN
        /\ (c2.pc = "ledger" => c.work.key \in findings')
        /\ (c2.pc \in {"findings", "ledger", "taken"} => c2.ok = FALSE)
        /\ (c2.ok => c.work.key \in ledger')
    BY DEF c, c2
  <1>3. WorkerOK(scan[w], c2, drain[w], watch[w], cancel[w], signal[w], submitQ[w], outcomeQ[w], findings', ledger')
    BY <1>1, <1>2, CommitGoesOn
  <1> QED  BY <1>3 DEF WorkerInv, c2

\* The commit worker looks at the token before it writes, and again after it.
LEMMA CommitLooksKeeps ==
    ASSUME MapsOK, NEW w \in Worker, WorkerInv(w), CommitTaken(w) \/ CommitReport(w)
    PROVE  WorkerInv(w)'
  <1>1. IsCommit(commit[w]) /\ WorkOK(commit[w], submitQ[w], outcomeQ[w], findings, ledger)
    BY DEF WorkerInv, WorkerOK
  <1>2. UNCHANGED <<findings, ledger, scan, drain, watch, cancel, signal, submitQ>>
    BY DEF CommitTaken, CommitReport, durableVars
  <1>3. commit[w].pc \in {"taken", "outcome"} /\ commit[w].pc \in Busy
    BY DEF CommitTaken, CommitReport, Busy
  <1>4. commit[w].ok \in BOOLEAN
    BY <1>1, <1>3 DEF WorkOK
  <1>5. CASE cancel[w]
    <2>1. PICK ok \in {FALSE, commit[w].ok} : outcomeQ'[w] = TrySent(w, ok)
      BY <1>5 DEF CommitTaken, CommitReport, MapsOK
    <2>2. commit'[w] = [commit[w] EXCEPT !.pc = "exited"]
      BY <1>5 DEF CommitTaken, CommitReport, MapsOK
    <2>3. ok \in BOOLEAN /\ (ok => commit[w].ok)
      BY <1>4, <2>1
    <2> QED  BY <1>2, <1>3, <1>5, <2>1, <2>2, <2>3, CommitGivesUp
  <1>6. CASE ~cancel[w]
    <2>1. PICK p \in {"findings", "report"} : /\ commit'[w] = [commit[w] EXCEPT !.pc = p]
                                              /\ p = "findings" => commit[w].pc = "taken"
      BY <1>6 DEF CommitTaken, CommitReport, MapsOK
    <2>2. IsCommit(commit'[w]) /\ commit'[w].pc = p /\ commit'[w].work = commit[w].work /\ commit'[w].ok = commit[w].ok
      BY <1>1, <2>1, CommitPc
    <2>3. p \in Busy /\ outcomeQ' = outcomeQ
      BY <1>6 DEF Busy, CommitTaken, CommitReport
    <2>4. /\ p = "findings" => commit[w].ok = FALSE
          /\ commit[w].ok => commit[w].work.key \in ledger
      BY <1>1, <1>3, <2>1 DEF WorkOK
    <2> QED  BY <1>2, <1>3, <1>4, <2>1, <2>2, <2>3, <2>4, CommitProceeds
  <1> QED  BY <1>5, <1>6

\* Findings are written, then the done row; either call may fail.
LEMMA CommitWritesKeeps ==
    ASSUME MapsOK, NEW w \in Worker, WorkerInv(w),
           CommitFindings(w) \/ CommitLedger(w) \/ \E landed \in BOOLEAN : CommitFails(w, landed)
    PROVE  WorkerInv(w)'
  <1>1. IsCommit(commit[w]) /\ WorkOK(commit[w], submitQ[w], outcomeQ[w], findings, ledger)
    BY DEF WorkerInv, WorkerOK
  <1>2. UNCHANGED <<scan, drain, watch, cancel, signal, submitQ, outcomeQ>>
    BY DEF CommitFindings, CommitLedger, CommitFails
  <1>3. commit[w].pc \in {"findings", "ledger"} /\ commit[w].pc \in Busy
    BY DEF CommitFindings, CommitLedger, CommitFails, Busy
  <1>4. commit[w].ok = FALSE
    BY <1>1, <1>3 DEF WorkOK
  <1>5. findings \subseteq findings' /\ ledger \subseteq ledger'
    BY DEF CommitFindings, CommitLedger, CommitFails
  <1>6. CASE CommitFindings(w)
    <2>1. commit'[w] = [commit[w] EXCEPT !.pc = "ledger"] /\ commit[w].work.key \in findings'
      BY <1>6 DEF CommitFindings, MapsOK
    <2>2. IsCommit(commit'[w]) /\ commit'[w].pc = "ledger" /\ commit'[w].work = commit[w].work /\ commit'[w].ok = commit[w].ok
      BY <1>1, <2>1, CommitPc
    <2>3. commit'[w].pc \in Busy /\ commit'[w].ok \in BOOLEAN /\ ~commit'[w].ok
      BY <1>4, <2>2 DEF Busy
    <2> QED  BY <1>2, <1>3, <1>4, <1>5, <2>1, <2>2, <2>3, CommitProceeds
  <1>7. CASE CommitLedger(w)
    <2>1. commit'[w] = [commit[w] EXCEPT !.pc = "outcome", !.ok = TRUE] /\ commit[w].work.key \in ledger'
      BY <1>7 DEF CommitLedger, MapsOK
    <2>2. IsCommit(commit'[w]) /\ commit'[w].pc = "outcome" /\ commit'[w].work = commit[w].work /\ commit'[w].ok = TRUE
      BY <1>1, <2>1 DEF IsCommit
    <2>3. commit'[w].pc \in Busy /\ commit'[w].ok \in BOOLEAN
      BY <2>2 DEF Busy
    <2> QED  BY <1>2, <1>3, <1>5, <2>1, <2>2, <2>3, CommitProceeds
  <1>8. CASE \E landed \in BOOLEAN : CommitFails(w, landed)
    <2>1. commit'[w] = [commit[w] EXCEPT !.pc = "outcome"]
      BY <1>8 DEF CommitFails, MapsOK
    <2>2. IsCommit(commit'[w]) /\ commit'[w].pc = "outcome" /\ commit'[w].work = commit[w].work /\ commit'[w].ok = commit[w].ok
      BY <1>1, <2>1, CommitPc
    <2>3. commit'[w].pc \in Busy /\ commit'[w].ok \in BOOLEAN /\ ~commit'[w].ok
      BY <1>4, <2>2 DEF Busy
    <2> QED  BY <1>2, <1>3, <1>4, <1>5, <2>2, <2>3, CommitProceeds
  <1> QED  BY <1>6, <1>7, <1>8

\* The outcome of an item goes to the drain thread.
LEMMA CommitSendKeeps ==
    ASSUME MapsOK, NEW w \in Worker, WorkerInv(w), CommitSend(w)
    PROVE  WorkerInv(w)'
  <1> DEFINE c == commit[w]
             c2 == [commit[w] EXCEPT !.pc = "recv"]
             oq2 == Append(outcomeQ[w], [work |-> c.work, ok |-> c.ok])
  <1>1. c.pc = "report" /\ commit'[w] = c2 /\ outcomeQ'[w] = oq2
    BY DEF CommitSend, MapsOK, TrySent
  <1>2. UNCHANGED <<findings, ledger, scan, drain, watch, cancel, signal, submitQ>>
    BY DEF CommitSend, durableVars
  <1>3. WorkerOK(scan[w], c, drain[w], watch[w], cancel[w], signal[w], submitQ[w], outcomeQ[w], findings, ledger)
    BY DEF WorkerInv
  <1>4. IsCommit(c2) /\ c2.pc = "recv"
    BY <1>3, CommitPc DEF WorkerOK
  <1> HIDE DEF c, c2
  <1>5. WorkerOK(scan[w], c2, drain[w], watch[w], cancel[w], signal[w], submitQ[w], oq2, findings, ledger)
    BY <1>1, <1>3, <1>4, CommitReports
  <1> HIDE DEF oq2
  <1> QED  BY <1>1, <1>2, <1>5 DEF WorkerInv

-----------------------------------------------------------------------------
(* The drain thread                                                        *)

\* The drain thread goes on receiving: it keeps what it has and ignores the
\* outcome, notes a failure, or records the outcome's receipt.
LEMMA DrainedCases ==
    ASSUME NEW d, NEW o, IsDrain(d), o.ok \in BOOLEAN
    PROVE  LET d2 == Drained(d, o)
               r == Receipt(o.work)
           IN  /\ IsDrain(d2) /\ d2.pc = d.pc
               /\ \/ d.error /\ d2 = d
                  \/ ~d.error /\ d2.error
                  \/ /\ ~d.error /\ ~d2.error /\ o.ok
                     /\ RecordOutcome(d.agg, r) \in {"Buffered", "DuplicateBuffered", "AlreadyCheckpointed"}
                     /\ d2.agg = AfterRecord(d.agg, r) /\ d2.committed = Append(d.committed, o.work.seq)
  <1> DEFINE d2 == Drained(d, o)
             r == Receipt(o.work)
             good == RecordOutcome(d.agg, r) \in {"Buffered", "DuplicateBuffered", "AlreadyCheckpointed"}
             agg2 == AfterRecord(d.agg, r)
  <1>1. CASE d.error
    BY <1>1 DEF Drained
  <1>2. CASE ~d.error /\ o.ok /\ good
    <2>1. d2 = [d EXCEPT !.agg = agg2, !.committed = Append(@, o.work.seq)]
      BY <1>2 DEF Drained
    <2> HIDE DEF d2, agg2
    <2>2. IsDrain(d2) /\ d2.pc = d.pc /\ d2.error = d.error /\ d2.agg = agg2 /\ d2.committed = Append(d.committed, o.work.seq)
      BY <2>1 DEF IsDrain
    <2> HIDE DEF good
    <2>3. ~d2.error
      BY <1>2, <2>2
    <2> QED  BY <1>2, <2>2, <2>3 DEF d2, agg2, good
  <1>3. CASE ~d.error /\ ~(o.ok /\ good)
    <2>1. d2 = [d EXCEPT !.error = TRUE]
      BY <1>3 DEF Drained
    <2> HIDE DEF d2
    <2>2. IsDrain(d2) /\ d2.pc = d.pc /\ d2.error = TRUE
      BY <2>1 DEF IsDrain
    <2> QED  BY <1>3, <2>2 DEF d2
  <1> QED  BY <1>1, <1>2, <1>3

\* The receipt of the next number of the stream is buffered after the others.
LEMMA ReceiptRecorded ==
    ASSUME NEW agg, NEW m \in Nat, NEW r,
           AggOK(agg), DOMAIN agg.receipts = 0..(m - 1),
           r.seq = m, r.kind = "OrderedContent", r.valid,
           RecordOutcome(agg, r) \in {"Buffered", "DuplicateBuffered", "AlreadyCheckpointed"}
    PROVE  LET agg2 == AfterRecord(agg, r)
           IN  /\ AggOK(agg2)
               /\ DOMAIN agg2.receipts = 0..m
               /\ agg2.receipts[m] = r
               /\ \A j \in 0..(m - 1) : agg2.receipts[j] = agg.receipts[j]
  <1> DEFINE rs == [n \in Buffered(agg) \cup {r.seq} |-> IF n = r.seq THEN r ELSE agg.receipts[n]]
             agg2 == AfterRecord(agg, r)
  <1>1. agg.next = 0 /\ m \notin 0..(m - 1) /\ 0..(m - 1) \cup {m} = 0..m
    BY DEF AggOK
  <1>2. m \notin Buffered(agg) /\ Buffered(agg) \cup {r.seq} = 0..m
    BY <1>1 DEF Buffered
  <1>3. RecordOutcome(agg, r) = "Buffered"
    BY <1>1, <1>2 DEF RecordOutcome
  <1>4. agg2 = [agg EXCEPT !.kind = {r.kind}, !.receipts = rs]
    BY <1>3 DEF AfterRecord
  <1>5. DOMAIN rs = 0..m /\ rs[m] = r /\ \A j \in 0..(m - 1) : rs[j] = agg.receipts[j]
    BY <1>1, <1>2
  <1> HIDE DEF rs, agg2
  <1>6. agg2 = [next |-> 0, units |-> 0, max |-> MaxSeq, kind |-> {"OrderedContent"}, lastKey |-> NoProgress,
                receipts |-> rs, pending |-> {}]
    <2> DEFINE k0 == agg.kind
               r0 == agg.receipts
               k1 == {r.kind}
    <2>1. agg = [next |-> 0, units |-> 0, max |-> MaxSeq, kind |-> k0, lastKey |-> NoProgress,
                 receipts |-> r0, pending |-> {}]
      BY DEF AggOK
    <2>2. k1 = {"OrderedContent"} /\ agg2 = [agg EXCEPT !.kind = k1, !.receipts = rs]
      BY <1>4
    <2> HIDE DEF k0, r0, k1
    <2>3. agg2 = [next |-> 0, units |-> 0, max |-> MaxSeq, kind |-> k1, lastKey |-> NoProgress,
                  receipts |-> rs, pending |-> {}]
      BY <2>1, <2>2
    <2> QED  BY <2>2, <2>3
  <1>7. AggOK(agg2) /\ agg2.receipts = rs
    BY <1>6 DEF AggOK
  <1> QED  BY <1>5, <1>7 DEF agg2

\* The first outcome of the queue becomes the next of what the drain thread has.
LEMMA StreamDrains ==
    ASSUME NEW s, NEW c, NEW d, NEW d2, NEW sq, NEW oq, NEW le, NEW n \in Nat, NEW key \in [0..(n - 1) -> Items],
           StreamOK(key, n, s, c, d, sq, oq, le),
           sq \in Seq(Work), oq \in Seq(Outcome), oq # << >>, oq[1].ok, oq[1].work.key \in le,
           RecordOutcome(d.agg, Receipt(oq[1].work)) \in {"Buffered", "DuplicateBuffered", "AlreadyCheckpointed"},
           d2.agg = AfterRecord(d.agg, Receipt(oq[1].work)),
           d2.committed = Append(d.committed, oq[1].work.seq)
    PROVE  StreamOK(key, n, s, c, d2, sq, Tail(oq), le)
  <1> DEFINE m == Len(d.committed)
             a == Len(oq)
             e == Len(sq)
             h == Hand(c)
             oq2 == Tail(oq)
             cm == d.committed
             cm2 == d2.committed
             r == Receipt(oq[1].work)
  <1>1. h \in Nat
    BY DEF Hand
  <1>2. cm \in Seq(Nat) /\ AggOK(d.agg)
    BY DEF StreamOK
  <1>3. /\ m \in Nat /\ a \in Nat /\ e \in Nat /\ a >= 1
        /\ oq2 \in Seq(Outcome) /\ Len(oq2) = a - 1 /\ \A i \in 1..Len(oq2) : oq2[i] = oq[i + 1]
    BY <1>2
  <1>4. n = m + a + h + e /\ Total(c, d2, sq, oq2) = Len(cm2) + Len(oq2) + h + e
    BY DEF StreamOK, Total
  <1>5. /\ \A i \in 1..m : cm[i] = i - 1
        /\ DOMAIN d.agg.receipts = 0..(m - 1)
        /\ \A j \in 0..(m - 1) : d.agg.receipts[j] = Receipt([seq |-> j, key |-> key[j]])
    BY DEF StreamOK, Placed
  <1>6. \A i \in 1..a : oq[i].work = [seq |-> m + i - 1, key |-> key[m + i - 1]]
    BY DEF StreamOK, Placed
  <1>7. c.pc \in Busy => c.work = [seq |-> m + a, key |-> key[m + a]]
    BY DEF StreamOK, Placed
  <1>8. \A i \in 1..e : sq[i] = [seq |-> m + a + h + i - 1, key |-> key[m + a + h + i - 1]]
    BY DEF StreamOK, Placed
  <1>9. \A j \in 0..(m - 1) : key[j] \in le
    BY DEF StreamOK
  <1> HIDE DEF m, a, e, h, oq2
  <1>10. oq[1].work = [seq |-> m, key |-> key[m]]
    <2>1. m + 1 - 1 = m /\ 1 \in 1..a
      BY <1>3
    <2>2. oq[1].work = [seq |-> m + 1 - 1, key |-> key[m + 1 - 1]]
      BY <1>6, <2>1
    <2> QED  BY <2>1, <2>2
  <1>11. r.seq = m /\ r.kind = "OrderedContent" /\ r.valid /\ r = Receipt([seq |-> m, key |-> key[m]])
    BY <1>10 DEF Receipt
  <1>12. oq[1].work.seq = m /\ oq[1].work.key = key[m]
    BY <1>10
  <1>13. /\ cm2 \in Seq(Nat) /\ Len(cm2) = m + 1 /\ cm2[m + 1] = m
         /\ \A i \in 1..m : cm2[i] = cm[i]
    BY <1>2, <1>3, <1>12 DEF m
  <1> HIDE DEF r, cm, cm2
  <1>14. /\ AggOK(d2.agg)
         /\ DOMAIN d2.agg.receipts = 0..m
         /\ d2.agg.receipts[m] = r
         /\ \A j \in 0..(m - 1) : d2.agg.receipts[j] = d.agg.receipts[j]
    <2> DEFINE agg == d.agg
               agg2 == AfterRecord(agg, r)
    <2>1. /\ d2.agg = agg2
          /\ RecordOutcome(agg, r) \in {"Buffered", "DuplicateBuffered", "AlreadyCheckpointed"}
      BY DEF r
    <2>2. AggOK(agg) /\ DOMAIN agg.receipts = 0..(m - 1)
      BY <1>2, <1>5
    <2> HIDE DEF agg
    <2>3. /\ AggOK(agg2) /\ DOMAIN agg2.receipts = 0..m /\ agg2.receipts[m] = r
          /\ \A j \in 0..(m - 1) : agg2.receipts[j] = agg.receipts[j]
      <3>1. m \in Nat /\ r.seq = m /\ r.kind = "OrderedContent" /\ r.valid
        BY <1>3, <1>11
      <3> QED  BY <2>1, <2>2, <3>1, ReceiptRecorded
    <2> HIDE DEF agg2
    <2> QED  BY <2>1, <2>3 DEF agg
  <1>15. /\ n = Total(c, d2, sq, oq2)
         /\ Len(cm2) + Len(oq2) = m + a
    BY <1>1, <1>3, <1>4, <1>13
  <1>16. ASSUME NEW i \in 1..Len(cm2) PROVE cm2[i] = i - 1
    <2>1. i = m + 1 \/ i \in 1..m
      BY <1>3, <1>13
    <2> QED  BY <1>3, <1>5, <1>13, <2>1
  <1>17. DOMAIN d2.agg.receipts = 0..(Len(cm2) - 1)
    BY <1>3, <1>13, <1>14
  <1>18. ASSUME NEW j \in 0..(Len(cm2) - 1)
         PROVE  d2.agg.receipts[j] = Receipt([seq |-> j, key |-> key[j]]) /\ key[j] \in le
    <2>1. j = m \/ j \in 0..(m - 1)
      BY <1>3, <1>13
    <2> QED  BY <1>5, <1>9, <1>11, <1>12, <1>14, <2>1
  <1>19. ASSUME NEW i \in 1..Len(oq2)
         PROVE  oq2[i].work = [seq |-> Len(cm2) + i - 1, key |-> key[Len(cm2) + i - 1]]
    <2>1. m + (i + 1) - 1 = Len(cm2) + i - 1 /\ i + 1 \in 1..a
      BY <1>3, <1>13
    <2>2. oq[i + 1].work = [seq |-> m + (i + 1) - 1, key |-> key[m + (i + 1) - 1]]
      BY <1>6, <2>1
    <2> QED  BY <1>3, <2>1, <2>2
  <1>20. Placed(key, c, d2, sq, oq2)
    BY <1>7, <1>8, <1>15, <1>16, <1>17, <1>18, <1>19 DEF Placed, cm2, e, h
  <1>21. StreamOK(key, n, s, c, d2, sq, oq2, le)
    BY <1>13, <1>14, <1>15, <1>18, <1>20 DEF StreamOK, cm2
  <1> QED  BY <1>21 DEF oq2

\* The drain thread takes an outcome; the first failure cancels the token.
LEMMA DrainTakes ==
    ASSUME NEW s, NEW c, NEW d, NEW d2, NEW x, NEW k, NEW k2, NEW g, NEW sq, NEW oq, NEW fi, NEW le,
           WorkerOK(s, c, d, x, k, g, sq, oq, fi, le),
           d.pc = "recv", oq # << >>, d2 = Drained(d, Head(oq)), k2 => k \/ d2.error
    PROVE  WorkerOK(s, c, d2, x, k2, g, sq, Tail(oq), fi, le)
  <1> DEFINE oq2 == Tail(oq)
             r == Receipt(oq[1].work)
  <1>1. sq \in Seq(Work) /\ oq \in Seq(Outcome) /\ \A i \in 1..Len(oq) : oq[i].ok => oq[i].work.key \in le
    BY DEF WorkerOK, WorkOK
  <1>2. /\ Len(oq) \in Nat /\ Len(oq) >= 1 /\ Head(oq) = oq[1] /\ oq[1] \in Outcome
        /\ oq2 \in Seq(Outcome) /\ Len(oq2) = Len(oq) - 1 /\ \A i \in 1..Len(oq2) : oq2[i] = oq[i + 1]
    BY <1>1
  <1>3. oq[1].ok \in BOOLEAN /\ (oq[1].ok => oq[1].work.key \in le)
    BY <1>1, <1>2 DEF Outcome
  <1>4. IsDrain(d)
    BY DEF WorkerOK
  <1>5. /\ IsDrain(d2) /\ d2.pc = d.pc
        /\ \/ d.error /\ d2 = d
           \/ ~d.error /\ d2.error
           \/ /\ ~d.error /\ ~d2.error /\ oq[1].ok
              /\ RecordOutcome(d.agg, r) \in {"Buffered", "DuplicateBuffered", "AlreadyCheckpointed"}
              /\ d2.agg = AfterRecord(d.agg, r) /\ d2.committed = Append(d.committed, oq[1].work.seq)
    BY <1>2, <1>3, <1>4, DrainedCases
  <1> HIDE DEF oq2
  <1>6. (d.error => d2.error) /\ (k2 => k \/ d2.error) /\ d2.pc = "recv" /\ d2.pc \notin Joined
    BY <1>5 DEF Joined
  <1>7. ThreadsOK(s, c, d, x, k, g, sq)
    BY DEF WorkerOK
  <1>8. ThreadsOK(s, c, d2, x, k2, g, sq)
    BY <1>6, <1>7 DEF ThreadsOK, Joined
  <1>9. WorkOK(c, sq, oq2, fi, le)
    <2>1. \A i \in 1..Len(oq2) : i + 1 \in 1..Len(oq)
      BY <1>2
    <2>2. \A i \in 1..Len(oq2) : oq2[i].ok => oq2[i].work.key \in le
      BY <1>1, <1>2, <2>1
    <2> QED  BY <1>2, <2>2 DEF WorkerOK, WorkOK
  <1>10. ASSUME s.pc \in Running, ~Cause(s, d2, g)
         PROVE  \E n \in Nat : \E key \in [0..(n - 1) -> Items] : StreamOK(key, n, s, c, d2, sq, oq2, le)
    <2>1. ~Cause(s, d, g) /\ ~d2.error
      BY <1>6, <1>10 DEF Cause
    <2>2. PICK n \in Nat : \E key \in [0..(n - 1) -> Items] : StreamOK(key, n, s, c, d, sq, oq, le)
      BY <1>10, <2>1 DEF WorkerOK
    <2>3. PICK key \in [0..(n - 1) -> Items] : StreamOK(key, n, s, c, d, sq, oq, le)
      BY <2>2
    <2>4. ~d.error
      BY <2>1 DEF Cause
    <2>5. StreamOK(key, n, s, c, d2, sq, oq2, le)
      BY <1>1, <1>3, <1>5, <2>1, <2>3, <2>4, StreamDrains DEF oq2
    <2> QED  BY <2>5
  <1>11. WorkerOK(s, c, d2, x, k2, g, sq, oq2, fi, le)
    BY <1>5, <1>6, <1>8, <1>9, <1>10 DEF WorkerOK
  <1> QED  BY <1>11 DEF oq2

\* An outcome is recorded, or is the failure that cancels the execution.
LEMMA DrainReceiveKeeps ==
    ASSUME MapsOK, NEW w \in Worker, WorkerInv(w), DrainReceive(w)
    PROVE  WorkerInv(w)'
  <1> DEFINE d == drain[w]
             d2 == drain'[w]
             k2 == cancel'[w]
  <1>1. /\ d.pc = "recv" /\ outcomeQ[w] # << >> /\ d2 = Drained(d, Head(outcomeQ[w]))
        /\ outcomeQ'[w] = Tail(outcomeQ[w])
    BY DEF DrainReceive, MapsOK
  <1>2. k2 = (cancel[w] \/ d2.error)
    BY DEF DrainReceive, MapsOK
  <1>3. UNCHANGED <<findings, ledger, scan, commit, watch, signal, submitQ>>
    BY DEF DrainReceive, durableVars
  <1>4. k2 => cancel[w] \/ d2.error
    BY <1>2
  <1>5. WorkerOK(scan[w], commit[w], d, watch[w], cancel[w], signal[w], submitQ[w], outcomeQ[w], findings, ledger)
    BY DEF WorkerInv
  <1> HIDE DEF d, d2, k2
  <1>6. WorkerOK(scan[w], commit[w], d2, watch[w], k2, signal[w], submitQ[w], Tail(outcomeQ[w]), findings, ledger)
    BY <1>1, <1>4, <1>5, DrainTakes
  <1> QED  BY <1>1, <1>3, <1>6 DEF WorkerInv, d2, k2

\* The stream does not depend on what the drain thread is at.
LEMMA DrainMoves ==
    ASSUME NEW s, NEW c, NEW d, NEW d2, NEW x, NEW k, NEW k2, NEW g, NEW g2, NEW sq, NEW oq, NEW fi, NEW le,
           WorkerOK(s, c, d, x, k, g, sq, oq, fi, le),
           IsDrain(d2), d2.error = d.error, d2.agg = d.agg, d2.committed = d.committed,
           d2.pc \in Joined => oq = << >>,
           g2 = "Recorded" \/ g # "Recorded",
           ThreadsOK(s, c, d2, x, k2, g2, sq)
    PROVE  WorkerOK(s, c, d2, x, k2, g2, sq, oq, fi, le)
  <1>1. ASSUME s.pc \in Running, ~Cause(s, d2, g2)
        PROVE  \E n \in Nat : \E key \in [0..(n - 1) -> Items] : StreamOK(key, n, s, c, d2, sq, oq, le)
    <2>1. ~Cause(s, d, g)
      BY <1>1 DEF Cause
    <2>2. PICK n \in Nat : \E key \in [0..(n - 1) -> Items] : StreamOK(key, n, s, c, d, sq, oq, le)
      BY <1>1, <2>1 DEF WorkerOK
    <2>3. PICK key \in [0..(n - 1) -> Items] : StreamOK(key, n, s, c, d, sq, oq, le)
      BY <2>2
    <2>4. Total(c, d2, sq, oq) = Total(c, d, sq, oq) /\ Placed(key, c, d2, sq, oq)
      BY <2>3 DEF Total, Placed, StreamOK
    <2>5. StreamOK(key, n, s, c, d2, sq, oq, le)
      BY <2>3, <2>4 DEF StreamOK
    <2> QED  BY <2>5
  <1> QED  BY <1>1 DEF WorkerOK

\* The commit worker is joined once the outcome queue is empty.
LEMMA DrainJoinKeeps ==
    ASSUME MapsOK, NEW w \in Worker, WorkerInv(w), DrainJoin(w)
    PROVE  WorkerInv(w)'
  <1> DEFINE d == drain[w]
             p == IF d.error THEN "failed" ELSE "drained"
             d2 == [d EXCEPT !.pc = p]
  <1>1. /\ d.pc = "recv" /\ outcomeQ[w] = << >> /\ commit[w].pc = "exited"
        /\ drain'[w] = d2 /\ cancel'[w] = TRUE
    BY DEF DrainJoin, MapsOK
  <1>2. UNCHANGED <<findings, ledger, scan, commit, watch, signal, submitQ, outcomeQ>>
    BY DEF DrainJoin, durableVars
  <1>3. WorkerOK(scan[w], commit[w], d, watch[w], cancel[w], signal[w], submitQ[w], outcomeQ[w], findings, ledger)
    BY DEF WorkerInv
  <1>4. /\ IsDrain(d2) /\ d2.pc = p /\ d2.error = d.error /\ d2.agg = d.agg /\ d2.committed = d.committed
    <2>1. IsDrain(d)
      BY <1>3 DEF WorkerOK
    <2> HIDE DEF d, p
    <2> QED  BY <2>1, DrainPc
  <1>5. (p = "failed" => d.error) /\ (p # "failed" => p = "drained" /\ ~d.error)
    OBVIOUS
  <1> HIDE DEF d, d2, p
  <1>6. ThreadsOK(scan[w], commit[w], d, watch[w], cancel[w], signal[w], submitQ[w])
    BY <1>3 DEF WorkerOK
  <1>7. ThreadsOK(scan[w], commit[w], d2, watch[w], TRUE, signal[w], submitQ[w])
    BY <1>1, <1>4, <1>5, <1>6 DEF ThreadsOK, Joined
  <1>8. WorkerOK(scan[w], commit[w], d2, watch[w], TRUE, signal[w], submitQ[w], outcomeQ[w], findings, ledger)
    <2>1. /\ d2.pc \in Joined => outcomeQ[w] = << >>
          /\ signal[w] = "Recorded" \/ signal[w] # "Recorded"
      BY <1>1
    <2>2. IsDrain(d2) /\ d2.error = d.error /\ d2.agg = d.agg /\ d2.committed = d.committed
      BY <1>4
    <2> QED  BY <1>3, <1>7, <2>1, <2>2, DrainMoves
  <1> QED  BY <1>1, <1>2, <1>8 DEF WorkerInv

\* The signal is sealed after a drain without error; an uncertainty stays.
LEMMA DrainCloseKeeps ==
    ASSUME MapsOK, NEW w \in Worker, WorkerInv(w), DrainClose(w)
    PROVE  WorkerInv(w)'
  <1> DEFINE d == drain[w]
             d2 == [d EXCEPT !.pc = "ok"]
             g == signal[w]
             g2 == signal'[w]
  <1>1. /\ d.pc = "drained" /\ drain'[w] = d2 /\ g2 = (IF g = "Open" THEN "Closed" ELSE g)
    BY DEF DrainClose, MapsOK
  <1>2. UNCHANGED <<findings, ledger, scan, commit, watch, cancel, submitQ, outcomeQ>>
    BY DEF DrainClose, durableVars
  <1>3. WorkerOK(scan[w], commit[w], d, watch[w], cancel[w], g, submitQ[w], outcomeQ[w], findings, ledger)
    BY DEF WorkerInv
  <1>4. /\ IsDrain(d2) /\ d2.pc = "ok" /\ d2.error = d.error /\ d2.agg = d.agg /\ d2.committed = d.committed
    BY <1>3, DrainPc DEF WorkerOK
  <1> HIDE DEF d, d2, g, g2
  <1>5. ThreadsOK(scan[w], commit[w], d, watch[w], cancel[w], g, submitQ[w]) /\ outcomeQ[w] = << >>
    BY <1>1, <1>3 DEF WorkerOK, Joined
  <1>6. ThreadsOK(scan[w], commit[w], d2, watch[w], cancel[w], g2, submitQ[w])
    BY <1>1, <1>4, <1>5 DEF ThreadsOK, Joined
  <1>7. g2 = "Recorded" \/ g # "Recorded"
    BY <1>1
  <1>8. WorkerOK(scan[w], commit[w], d2, watch[w], cancel[w], g2, submitQ[w], outcomeQ[w], findings, ledger)
    BY <1>3, <1>4, <1>5, <1>6, <1>7, DrainMoves
  <1> QED  BY <1>1, <1>2, <1>8 DEF WorkerInv, g2

-----------------------------------------------------------------------------
(* The watchdog                                                            *)

\* The watchdog notes the uncertainty before it cancels the token.
LEMMA WatchKeeps ==
    ASSUME MapsOK, NEW w \in Worker, WorkerInv(w), WatchExpire(w) \/ WatchStep(w)
    PROVE  WorkerInv(w)'
  <1> DEFINE s == scan[w]
             c == commit[w]
             d == drain[w]
             x == watch[w]
             x2 == watch'[w]
             k == cancel[w]
             k2 == cancel'[w]
             g == signal[w]
             g2 == signal'[w]
             sq == submitQ[w]
             oq == outcomeQ[w]
  <1>1. UNCHANGED <<findings, ledger, scan, commit, drain, submitQ, outcomeQ>>
    BY DEF WatchExpire, WatchStep, WatchCancel, WatchDone, durableVars
  <1>2. WorkerOK(s, c, d, x, k, g, sq, oq, findings, ledger)
    BY DEF WorkerInv
  <1>3. \/ x = "watch" /\ g = "Open" /\ g2 = "Recorded" /\ x2 = "noted" /\ k2 = k
        \/ x = "watch" /\ g2 = g /\ x2 = "exited" /\ k2 = k
        \/ x = "noted" /\ g2 = g /\ x2 = "exited"
    BY DEF WatchExpire, WatchStep, WatchCancel, WatchDone, MapsOK
  <1> HIDE DEF s, c, d, x, x2, k, k2, g, g2, sq, oq
  <1>4. ThreadsOK(s, c, d, x, k, g, sq) /\ IsDrain(d) /\ (d.pc \in Joined => oq = << >>)
    BY <1>2 DEF WorkerOK
  <1>5. ThreadsOK(s, c, d, x2, k2, g2, sq)
    BY <1>3, <1>4 DEF ThreadsOK, Joined
  <1>6. g2 = "Recorded" \/ g # "Recorded"
    BY <1>3
  <1>7. WorkerOK(s, c, d, x2, k2, g2, sq, oq, findings, ledger)
    <2>1. ASSUME s.pc \in Running, ~Cause(s, d, g2) PROVE ~Cause(s, d, g)
      BY <1>6, <2>1 DEF Cause
    <2> QED  BY <1>2, <1>5, <2>1 DEF WorkerOK
  <1> QED  BY <1>1, <1>7 DEF WorkerInv, s, c, d, x2, k2, g2, sq, oq

-----------------------------------------------------------------------------
(* The shard's durable state                                               *)

\* The fields of the shard record.
IsShard(sh) ==
    sh = [fence |-> sh.fence, owner |-> sh.owner, live |-> sh.live, cursor |-> sh.cursor, done |-> sh.done]

\* What a claim, a lapse and an advance that is answered do to it.
LEMMA ClaimShard ==
    ASSUME ShardInv, NEW w \in Worker, Claim(w)
    PROVE  /\ IsShard(shard') /\ shard'.fence = shard.fence + 1
           /\ shard'.cursor = shard.cursor /\ shard'.done = shard.done
           /\ ~shard.done
  <1>1. IsShard(shard)
    BY DEF ShardInv, IsShard
  <1> DEFINE yes == TRUE
  <1>2. shard' = [shard EXCEPT !.fence = shard.fence + 1, !.owner = w, !.live = yes] /\ ~shard.done
    BY DEF Claim
  <1> HIDE DEF yes
  <1>3. IsShard(shard') /\ shard'.fence = shard.fence + 1 /\ shard'.cursor = shard.cursor /\ shard'.done = shard.done
    BY <1>1, <1>2 DEF IsShard
  <1> QED  BY <1>2, <1>3

\* A lease that runs out changes neither fence nor progress.
LEMMA LapseShard ==
    ASSUME ShardInv, Lapse
    PROVE  /\ IsShard(shard') /\ shard'.fence = shard.fence
           /\ shard'.cursor = shard.cursor /\ shard'.done = shard.done
  <1>1. IsShard(shard)
    BY DEF ShardInv, IsShard
  <1>2. shard' = [shard EXCEPT !.live = FALSE]
    BY DEF Lapse
  <1> QED  BY <1>1, <1>2 DEF IsShard

\* The worker that advances the shard holds the lease, and what its verdict covers is done.
LEMMA AdvanceShard ==
    ASSUME ShardInv, NEW w \in Worker, WorkerInv(w), Advance(w)
    PROVE  LET s == scan[w]
           IN  \/ /\ ~shard.done /\ shard.fence = s.fence
                  /\ s.kind \in {"Checkpoint", "Complete"} /\ s.advance \in 0..N /\ s.advance >= shard.cursor
                  /\ 1..s.advance \subseteq ledger /\ (s.kind = "Complete" => Items \subseteq ledger)
                  /\ IsShard(shard') /\ shard'.fence = shard.fence /\ shard'.cursor = s.advance
                  /\ s.kind = "Complete" => shard'.done = TRUE
                  /\ s.kind = "Checkpoint" => shard'.done = shard.done
                  /\ trail' = trail \cup {<<s.kind, s.fence>>}
               \/ UNCHANGED <<shard, trail>>
  <1> DEFINE s == scan[w]
  <1>1. IsShard(shard)
    BY DEF ShardInv, IsShard
  <1>2. s.pc = "advance"
    BY DEF Advance
  <1>3. /\ s.kind \in {"Checkpoint", "Complete"} /\ s.advance \in 0..N
        /\ 1..s.advance \subseteq ledger /\ (s.kind = "Complete" => Items \subseteq ledger)
    BY <1>2 DEF WorkerInv, WorkerOK, ScanOK
  <1>4. \/ UNCHANGED <<shard, trail>>
        \/ /\ ~shard.done /\ shard.fence = s.fence /\ s.advance >= shard.cursor
           /\ shard' = Advanced(w) /\ trail' = trail \cup {<<s.kind, s.fence>>}
    BY DEF Advance
  <1>5. CASE UNCHANGED <<shard, trail>>
    BY <1>5
  <1>6. CASE /\ ~shard.done /\ shard.fence = s.fence /\ s.advance >= shard.cursor
             /\ shard' = Advanced(w) /\ trail' = trail \cup {<<s.kind, s.fence>>}
    <2>1. CASE s.kind = "Complete"
      <3> DEFINE yes == TRUE
                 no == FALSE
      <3>1. shard' = [shard EXCEPT !.cursor = s.advance, !.done = yes, !.owner = NoWorker, !.live = no]
        BY <1>6, <2>1 DEF Advanced
      <3> HIDE DEF yes, no
      <3>2. IsShard(shard') /\ shard'.fence = shard.fence /\ shard'.cursor = s.advance /\ shard'.done = yes
        BY <1>1, <3>1 DEF IsShard
      <3> QED  BY <1>3, <1>6, <2>1, <3>2 DEF yes
    <2>2. CASE s.kind = "Checkpoint"
      <3>1. shard' = [shard EXCEPT !.cursor = s.advance]
        BY <1>6, <2>2 DEF Advanced
      <3>2. IsShard(shard') /\ shard'.fence = shard.fence /\ shard'.cursor = s.advance /\ shard'.done = shard.done
        BY <1>1, <3>1 DEF IsShard
      <3> QED  BY <1>3, <1>6, <2>2, <3>2
    <2> QED  BY <1>3, <2>1, <2>2
  <1> QED  BY <1>4, <1>5, <1>6

\* The commit worker makes an item's findings durable, and its done row once they are.
LEMMA CommitWrites ==
    ASSUME NEW w \in Worker, WorkerInv(w), CommitStep(w)
    PROVE  /\ UNCHANGED <<shard, scan, signal, trail>>
           /\ \/ \E i \in Items : findings' = findings \cup {i} /\ ledger' = ledger
              \/ \E i \in Items \cap findings : ledger' = ledger \cup {i} /\ findings' = findings
              \/ UNCHANGED <<findings, ledger>>
  <1> DEFINE c == commit[w]
  <1>1. WorkOK(c, submitQ[w], outcomeQ[w], findings, ledger)
    BY DEF WorkerInv, WorkerOK
  <1>2. c.pc \in {"findings", "ledger"} => c.work.key \in Items
    BY <1>1 DEF WorkOK, Busy, Work
  <1>3. c.pc = "ledger" => c.work.key \in findings
    BY <1>1 DEF WorkOK
  <1>4. UNCHANGED <<shard, scan, signal, trail>>
    BY DEF CommitStep, CommitReceive, CommitExit, CommitTaken, CommitFindings, CommitLedger, CommitFails,
           CommitReport, CommitSend, durableVars
  <1>5. CASE CommitFindings(w)
    BY <1>2, <1>4, <1>5 DEF CommitFindings
  <1>6. CASE CommitLedger(w)
    BY <1>2, <1>3, <1>4, <1>6 DEF CommitLedger
  <1>7. CASE \E landed \in BOOLEAN : CommitFails(w, landed)
    BY <1>2, <1>3, <1>4, <1>7 DEF CommitFails
  <1>8. CASE CommitReceive(w) \/ CommitExit(w) \/ CommitTaken(w) \/ CommitReport(w) \/ CommitSend(w)
    BY <1>4, <1>8 DEF CommitReceive, CommitExit, CommitTaken, CommitReport, CommitSend, durableVars
  <1> QED  BY <1>5, <1>6, <1>7, <1>8 DEF CommitStep

\* Nothing else touches the durable state.
LEMMA QuietSteps ==
    ASSUME NEW w \in Worker,
           \/ WatchExpire(w) \/ Crash(w) \/ DrainStep(w) \/ WatchStep(w)
           \/ ScanStep(w) /\ ~Advance(w)
    PROVE  UNCHANGED <<shard, findings, ledger>> /\ (~WatchExpire(w) => UNCHANGED trail)
  BY DEF WatchExpire, Crash, DrainStep, DrainReceive, DrainJoin, DrainClose, WatchStep, WatchCancel, WatchDone,
         ScanStep, FillPage, Exhausted, ScanCancelled, EnumerateStops, NextItem, PageDone, Offer, Send, Finish,
         JoinDrain, Resolve, durableVars

\* What is durable is in order after every step.
LEMMA ShardKept ==
    ASSUME LeaseAssumption, ShardInv, WorkersInv, LeaseNext
    PROVE  ShardInv'
  <1>1. CASE Lapse
    BY <1>1, LapseShard DEF ShardInv, IsShard, Lapse
  <1>2. ASSUME NEW w \in Worker, Claim(w) PROVE ShardInv'
    <2>1. findings' = findings /\ ledger' = ledger
      BY <1>2 DEF Claim
    <2> QED  BY <1>2, <2>1, ClaimShard DEF ShardInv, IsShard
  <1>3. ASSUME NEW w \in Worker, CommitStep(w) PROVE ShardInv'
    <2>1. WorkerInv(w)
      BY DEF WorkersInv, WorkerInv
    <2> QED  BY <1>3, <2>1, CommitWrites DEF ShardInv
  <1>4. ASSUME NEW w \in Worker, Advance(w) PROVE ShardInv'
    <2>1. WorkerInv(w)
      BY DEF WorkersInv, WorkerInv
    <2>2. findings' = findings /\ ledger' = ledger
      BY <1>4 DEF Advance
    <2> QED  BY <1>4, <2>1, <2>2, AdvanceShard DEF ShardInv, IsShard
  <1>5. ASSUME NEW w \in Worker,
               \/ WatchExpire(w) \/ Crash(w) \/ DrainStep(w) \/ WatchStep(w)
               \/ ScanStep(w) /\ ~Advance(w)
        PROVE  ShardInv'
    BY <1>5, QuietSteps DEF ShardInv
  <1> QED  BY <1>1, <1>2, <1>3, <1>4, <1>5 DEF LeaseNext

-----------------------------------------------------------------------------
(* Fences and the trail of what was done under them                        *)

\* Within a lease the scan thread keeps its fence; a worker in doubt does not
\* get to the call that advances the shard, and stays in doubt.
LEMMA FenceStays ==
    ASSUME MapsOK, NEW w \in Worker, WorkerInv(w),
           \/ WatchExpire(w) \/ Crash(w) \/ CommitStep(w) \/ DrainStep(w) \/ WatchStep(w) \/ ScanStep(w),
           scan'[w].pc \notin {"idle", "dead"}
    PROVE  /\ scan[w].pc \notin {"idle", "dead"}
           /\ scan'[w].fence = scan[w].fence
           /\ signal[w] = "Recorded" =>
                 signal'[w] = "Recorded" /\ (scan'[w].pc = "advance" => scan[w].pc = "advance")
  <1> DEFINE s == scan[w]
             t == scan'[w]
  <1>1. IsScan(s)
    BY DEF WorkerInv, WorkerOK
  <1>2. ASSUME scan' = scan PROVE s.pc \notin {"idle", "dead"} /\ t.fence = s.fence /\ t.pc = s.pc
    BY <1>2
  <1>3. CASE CommitStep(w) \/ DrainStep(w) \/ WatchStep(w) \/ WatchExpire(w)
    <2>1. scan' = scan
      BY <1>3 DEF CommitStep, CommitReceive, CommitExit, CommitTaken, CommitFindings, CommitLedger, CommitFails,
           CommitReport, CommitSend, DrainStep, DrainReceive, DrainJoin, DrainClose, WatchStep, WatchCancel,
           WatchDone, WatchExpire
    <2>2. signal[w] = "Recorded" => signal'[w] = "Recorded"
      BY <1>3 DEF CommitStep, CommitReceive, CommitExit, CommitTaken, CommitFindings, CommitLedger, CommitFails,
           CommitReport, CommitSend, DrainStep, DrainReceive, DrainJoin, DrainClose, WatchStep, WatchCancel,
           WatchDone, WatchExpire, MapsOK
    <2> QED  BY <1>2, <2>1, <2>2
  <1>4. CASE Crash(w)
    <2>1. t.pc = "dead"
      BY <1>4 DEF Crash, MapsOK, Stopped
    <2> QED  BY <2>1
  <1>5. CASE ScanStep(w)
    <2>1. signal' = signal
      BY <1>5 DEF ScanStep, FillPage, Exhausted, ScanCancelled, EnumerateStops, NextItem, PageDone, Offer, Send,
           Finish, JoinDrain, Resolve, Advance, pipeVars
    <2>2. CASE Advance(w)
      <3>1. t.pc \in {"idle", "dead"}
        BY <2>2 DEF Advance, MapsOK, Stopped
      <3> QED  BY <3>1
    <2>3. CASE Resolve(w)
      <3> DEFINE v == Verdict(scan[w], drain[w], signal[w])
                 pc == IF v.kind \in {"Complete", "Checkpoint"} THEN "advance" ELSE "dead"
      <3>1. t = [Stopped(pc) EXCEPT !.fence = s.fence, !.kind = v.kind, !.advance = v.advance]
        BY <2>3 DEF Resolve, MapsOK
      <3>2. s.pc = "unwatch"
        BY <2>3 DEF Resolve
      <3>3. signal[w] = "Recorded" => v.kind = "LeaseUncertain"
        BY DEF Verdict
      <3>4. signal[w] = "Recorded" => pc = "dead"
        BY <3>3
      <3> HIDE DEF v, pc
      <3>5. t.pc = pc /\ t.fence = s.fence
        BY <3>1 DEF Stopped
      <3> QED  BY <2>1, <3>2, <3>4, <3>5
    <2>4. CASE FillPage(w)
      <3> DEFINE misses(last) == {i \in (s.resume + 1)..last : i \notin ledger}
      <3>1. PICK last \in (s.resume + 1)..N : \E stop \in misses(last) \cup {0}, terminal \in {FALSE, last = N} :
                scan' = [scan EXCEPT ![w] = [@ EXCEPT
                        !.pc = "submit", !.todo = Submittable(misses(last), stop),
                        !.halt = (stop # 0), !.last = last, !.awaiting = terminal, !.paged = TRUE]]
        BY <2>4 DEF FillPage
      <3>2. PICK stop \in misses(last) \cup {0}, terminal \in {FALSE, last = N} :
                scan' = [scan EXCEPT ![w] = [@ EXCEPT
                        !.pc = "submit", !.todo = Submittable(misses(last), stop),
                        !.halt = (stop # 0), !.last = last, !.awaiting = terminal, !.paged = TRUE]]
        BY <3>1
      <3>3. s.pc = "page" /\ t = [s EXCEPT !.pc = "submit", !.todo = Submittable(misses(last), stop),
                                           !.halt = (stop # 0), !.last = last, !.awaiting = terminal, !.paged = TRUE]
        BY <2>4, <3>2 DEF FillPage, MapsOK
      <3> HIDE DEF misses
      <3>4. t.fence = s.fence /\ t.pc = "submit"
        BY <1>1, <3>3 DEF IsScan
      <3> QED  BY <2>1, <3>3, <3>4
    <2>5. CASE Send(w)
      <3>1. t.fence = s.fence /\ t.pc \in {"submit", "finish"} /\ s.pc = "send"
        BY <1>1, <2>5 DEF Send, MapsOK, IsScan
      <3> QED  BY <2>1, <3>1
    <2>6. CASE Exhausted(w) \/ ScanCancelled(w) \/ \E retryable \in BOOLEAN : EnumerateStops(w, retryable)
      <3>1. s.pc \in {"page", "submit"}
        BY <2>6 DEF Exhausted, ScanCancelled, EnumerateStops
      <3>2. t.fence = s.fence /\ t.pc = "finish"
        <4>1. CASE Exhausted(w)
          <5>1. t = [s EXCEPT !.pc = "finish", !.error = (~s.awaiting /\ s.paged),
                              !.confirmed = ~(~s.awaiting /\ s.paged)]
            BY <4>1 DEF Exhausted, MapsOK
          <5> QED  BY <1>1, <5>1 DEF IsScan
        <4>2. CASE ScanCancelled(w)
          <5>1. t = [s EXCEPT !.pc = "finish"]
            BY <4>2 DEF ScanCancelled, MapsOK
          <5> QED  BY <1>1, <5>1 DEF IsScan
        <4>3. ASSUME NEW retryable \in BOOLEAN, EnumerateStops(w, retryable) PROVE t.fence = s.fence /\ t.pc = "finish"
          <5>1. t = [s EXCEPT !.pc = "finish", !.error = (~retryable \/ ~s.paged)]
            BY <4>3 DEF EnumerateStops, MapsOK
          <5> QED  BY <1>1, <5>1 DEF IsScan
        <4> QED  BY <2>6, <4>1, <4>2, <4>3
      <3> QED  BY <2>1, <3>1, <3>2
    <2>7. CASE NextItem(w) \/ PageDone(w) \/ Offer(w) \/ Finish(w) \/ JoinDrain(w)
      <3>1. /\ t.fence = s.fence /\ t.pc # "advance"
            /\ s.pc \in {"submit", "offer", "finish", "join"}
        BY <1>1, <2>7 DEF NextItem, PageDone, Offer, Finish, JoinDrain, MapsOK, IsScan
      <3> QED  BY <2>1, <3>1
    <2> QED  BY <1>5, <2>2, <2>3, <2>4, <2>5, <2>6, <2>7 DEF ScanStep
  <1> QED  BY <1>3, <1>4, <1>5

\* A step of w under the fence it holds, if it still holds one.
LEMMA FencesKept ==
    ASSUME FencesInv, NEW w \in Worker, OnlyWorker(w), shard'.fence = shard.fence,
           scan'[w].pc \notin {"idle", "dead"} =>
              /\ scan[w].pc \notin {"idle", "dead"}
              /\ scan'[w].fence = scan[w].fence
              /\ signal[w] = "Recorded" =>
                    signal'[w] = "Recorded" /\ (scan'[w].pc = "advance" => scan[w].pc = "advance"),
           trail' = trail
    PROVE  FencesInv'
  <1>1. ASSUME NEW u \in Worker, scan'[u].pc \notin {"idle", "dead"}
        PROVE  /\ scan[u].pc \notin {"idle", "dead"}
               /\ scan'[u].fence = scan[u].fence
               /\ signal[u] = "Recorded" =>
                     signal'[u] = "Recorded" /\ (scan'[u].pc = "advance" => scan[u].pc = "advance")
    BY <1>1 DEF OnlyWorker
  <1> QED  BY <1>1 DEF FencesInv

\* A new lease has a fence nobody had.
LEMMA FencesClaimed ==
    ASSUME LeaseAssumption, MapsOK, ShardInv, FencesInv, TrailInv, NEW w \in Worker, OnlyWorker(w), Claim(w)
    PROVE  FencesInv'
  <1>1. shard.fence \in Nat /\ shard'.fence = shard.fence + 1 /\ trail' = trail
    BY ClaimShard DEF ShardInv, Claim
  <1>2. scan'[w].pc = "page" /\ scan'[w].fence = shard.fence + 1
    BY DEF Claim, MapsOK, Stopped
  <1>3. \A t \in trail : t[2] <= shard.fence
    BY DEF TrailInv
  <1>4. ASSUME NEW k PROVE <<k, shard.fence + 1>> \notin trail
    <2>1. <<k, shard.fence + 1>>[2] = shard.fence + 1
      OBVIOUS
    <2> QED  BY <1>1, <1>3, <2>1
  <1>5. ASSUME NEW u \in Worker \ {w}, scan'[u].pc \notin {"idle", "dead"}
        PROVE  scan'[u] = scan[u] /\ signal'[u] = signal[u] /\ scan[u].fence \in 1..shard.fence
    BY <1>5 DEF OnlyWorker, FencesInv
  <1>6. ASSUME NEW u \in Worker, scan'[u].pc \notin {"idle", "dead"}
        PROVE  /\ scan'[u].fence \in 1..shard'.fence
               /\ \A v \in Worker : scan'[v].pc \notin {"idle", "dead"} /\ scan'[v].fence = scan'[u].fence => v = u
               /\ <<"Checkpoint", scan'[u].fence>> \notin trail' /\ <<"Complete", scan'[u].fence>> \notin trail'
               /\ <<"Uncertain", scan'[u].fence>> \in trail' => scan'[u].pc # "advance" /\ signal'[u] = "Recorded"
    <2>1. CASE u = w
      BY <1>1, <1>2, <1>4, <1>5, <2>1
    <2>2. CASE u # w
      <3>1. u \in Worker \ {w}
        BY <2>2
      <3>2. /\ scan'[u] = scan[u] /\ signal'[u] = signal[u] /\ scan[u].fence \in 1..shard.fence
            /\ scan[u].pc \notin {"idle", "dead"}
        BY <1>5, <1>6, <3>1
      <3>3. ASSUME NEW v \in Worker, scan'[v].pc \notin {"idle", "dead"}, scan'[v].fence = scan'[u].fence
            PROVE  v = u
        <4>1. v # w
          BY <1>1, <1>2, <3>2, <3>3
        <4> QED  BY <1>5, <3>2, <3>3, <4>1 DEF FencesInv
      <3>4. /\ <<"Checkpoint", scan[u].fence>> \notin trail /\ <<"Complete", scan[u].fence>> \notin trail
            /\ <<"Uncertain", scan[u].fence>> \in trail => scan[u].pc # "advance" /\ signal[u] = "Recorded"
        BY <3>2 DEF FencesInv
      <3>5. scan[u].fence \in 1..(shard.fence + 1)
        BY <1>1, <3>2
      <3> QED  BY <1>1, <3>2, <3>3, <3>4, <3>5
    <2> QED  BY <2>1, <2>2
  <1> QED  BY <1>6 DEF FencesInv

\* A worker that advances the shard gives its fence up.
LEMMA FencesAdvanced ==
    ASSUME MapsOK, ShardInv, FencesInv, NEW w \in Worker, WorkerInv(w), OnlyWorker(w), Advance(w)
    PROVE  FencesInv'
  <1>1. scan'[w].pc \in {"idle", "dead"} /\ scan[w].pc = "advance"
    BY DEF Advance, MapsOK, Stopped
  <1>2. shard'.fence = shard.fence
    BY AdvanceShard
  <1>3. trail' \subseteq trail \cup {<<scan[w].kind, scan[w].fence>>}
    BY DEF Advance
  <1>4. ASSUME NEW u \in Worker, scan'[u].pc \notin {"idle", "dead"}
        PROVE  u # w /\ scan'[u] = scan[u] /\ signal'[u] = signal[u]
    BY <1>1, <1>4 DEF OnlyWorker
  <1>5. ASSUME NEW u \in Worker, scan'[u].pc \notin {"idle", "dead"}, NEW k, <<k, scan[u].fence>> \in trail'
        PROVE  <<k, scan[u].fence>> \in trail
    <2>1. scan[u].fence # scan[w].fence
      BY <1>1, <1>4, <1>5 DEF FencesInv
    <2> QED  BY <1>3, <1>5, <2>1
  <1> QED  BY <1>2, <1>4, <1>5 DEF FencesInv

\* A deadline that passes while a lease runs is noted against its fence.
LEMMA FencesNoted ==
    ASSUME MapsOK, ShardInv, FencesInv, NEW w \in Worker, WorkerInv(w), OnlyWorker(w), WatchExpire(w)
    PROVE  FencesInv'
  <1>1. UNCHANGED <<shard, scan>>
    BY DEF WatchExpire, durableVars
  <1>2. scan[w].pc \in Running
    BY DEF WatchExpire, WorkerInv, WorkerOK, ThreadsOK
  <1>3. \/ signal'[w] = "Recorded" /\ trail' = trail \cup {<<"Uncertain", scan[w].fence>>}
        \/ UNCHANGED <<signal, trail>>
    BY DEF WatchExpire, MapsOK
  <1>4. \A u \in Worker \ {w} : signal'[u] = signal[u]
    BY DEF OnlyWorker
  <1>5. scan[w].pc \notin {"idle", "dead", "advance"}
    BY <1>2 DEF Running, Open
  <1>6. CASE UNCHANGED <<signal, trail>>
    BY <1>1, <1>6 DEF FencesInv
  <1>7. CASE signal'[w] = "Recorded" /\ trail' = trail \cup {<<"Uncertain", scan[w].fence>>}
    <2>1. \A f : <<"Checkpoint", f>> \in trail' => <<"Checkpoint", f>> \in trail
      BY <1>7
    <2>2. \A f : <<"Complete", f>> \in trail' => <<"Complete", f>> \in trail
      BY <1>7
    <2>3. \A f : <<"Uncertain", f>> \in trail' => <<"Uncertain", f>> \in trail \/ f = scan[w].fence
      BY <1>7
    <2>4. ASSUME NEW u \in Worker, scan[u].pc \notin {"idle", "dead"}, <<"Uncertain", scan[u].fence>> \in trail'
          PROVE  scan[u].pc # "advance" /\ signal'[u] = "Recorded"
      <3>1. CASE u = w
        BY <1>5, <1>7, <3>1
      <3>2. CASE u # w
        <4>1. scan[u].fence # scan[w].fence
          BY <1>5, <2>4, <3>2 DEF FencesInv
        <4> QED  BY <1>4, <2>3, <2>4, <3>2, <4>1 DEF FencesInv
      <3> QED  BY <3>1, <3>2
    <2> QED  BY <1>1, <2>1, <2>2, <2>4 DEF FencesInv
  <1> QED  BY <1>3, <1>6, <1>7

\* Every step of a worker keeps the fences in order.
LEMMA FencesStepped ==
    ASSUME LeaseAssumption, MapsOK, ShardInv, FencesInv, TrailInv, NEW w \in Worker, WorkerInv(w), OnlyWorker(w),
           \/ Claim(w) \/ WatchExpire(w) \/ Crash(w)
           \/ ScanStep(w) \/ CommitStep(w) \/ DrainStep(w) \/ WatchStep(w)
    PROVE  FencesInv'
  <1>1. CASE Claim(w)  BY <1>1, FencesClaimed
  <1>2. CASE WatchExpire(w)  BY <1>2, FencesNoted
  <1>3. CASE Advance(w)  BY <1>3, FencesAdvanced
  <1>4. CASE CommitStep(w)
    <2>1. shard' = shard /\ trail' = trail
      BY <1>4, CommitWrites
    <2> QED  BY <1>4, <2>1, FenceStays, FencesKept
  <1>5. CASE Crash(w) \/ DrainStep(w) \/ WatchStep(w) \/ (ScanStep(w) /\ ~Advance(w))
    <2>1. shard' = shard /\ trail' = trail
      <3>1. CASE WatchExpire(w)
        BY <1>5, <3>1 DEF Crash, DrainStep, DrainReceive, DrainJoin, DrainClose, WatchStep, WatchCancel, WatchDone,
              ScanStep, FillPage, Exhausted, ScanCancelled, EnumerateStops, NextItem, PageDone, Offer, Send, Finish,
              JoinDrain, Resolve, durableVars
      <3> QED  BY <1>5, <3>1, QuietSteps
    <2> QED  BY <1>5, <2>1, FenceStays, FencesKept
  <1> QED  BY <1>1, <1>2, <1>3, <1>4, <1>5

\* What is in the trail stays consistent: a fence in doubt never advances the
\* shard, and none does after the one that completes it.
LEMMA TrailStepped ==
    ASSUME LeaseAssumption, MapsOK, ShardInv, FencesInv, TrailInv, NEW w \in Worker, WorkerInv(w),
           \/ Claim(w) \/ WatchExpire(w) \/ Crash(w)
           \/ ScanStep(w) \/ CommitStep(w) \/ DrainStep(w) \/ WatchStep(w)
    PROVE  TrailInv'
  <1> DEFINE f == scan[w].fence
  <1>1. shard.fence \in Nat
    BY DEF ShardInv
  <1>2. ASSUME trail' = trail, shard'.fence = shard.fence \/ shard'.fence = shard.fence + 1, shard.done => shard'.done
        PROVE  TrailInv'
    <2>1. \A t \in trail' : t[2] <= shard'.fence
      BY <1>1, <1>2 DEF TrailInv
    <2>2. \A t \in trail' : t[1] = "Complete" => shard'.done
      BY <1>2 DEF TrailInv
    <2>3. ASSUME NEW h \in 1..shard'.fence, <<"Uncertain", h>> \in trail'
          PROVE  {<<"Checkpoint", h>>, <<"Complete", h>>} \cap trail' = {}
      <3>1. <<"Uncertain", h>>[2] = h /\ h <= shard.fence
        BY <1>2, <2>3 DEF TrailInv
      <3>2. h \in 1..shard.fence
        BY <1>1, <1>2, <3>1
      <3> QED  BY <1>2, <2>3, <3>2 DEF TrailInv, UncertainNeverAdvances
    <2> QED  BY <1>2, <2>1, <2>2, <2>3 DEF TrailInv, UncertainNeverAdvances, CompletedOnce
  <1>3. CASE Claim(w)
    BY <1>2, <1>3, ClaimShard DEF Claim
  <1>4. CASE CommitStep(w)
    BY <1>2, <1>4, CommitWrites
  <1>5. CASE WatchExpire(w)
    <2>1. shard' = shard /\ (trail' = trail \/ trail' = trail \cup {<<"Uncertain", f>>})
      BY <1>5 DEF WatchExpire, durableVars
    <2>2. CASE trail' = trail
      BY <1>2, <2>1, <2>2
    <2>3. CASE trail' = trail \cup {<<"Uncertain", f>>}
      <3>1. scan[w].pc \notin {"idle", "dead"}
        BY <1>5 DEF WatchExpire, WorkerInv, WorkerOK, ThreadsOK, Running, Open
      <3>2. /\ f \in 1..shard.fence /\ <<"Checkpoint", f>> \notin trail /\ <<"Complete", f>> \notin trail
        BY <3>1 DEF FencesInv
      <3> HIDE DEF f
      <3>3. <<"Uncertain", f>>[1] = "Uncertain" /\ <<"Uncertain", f>>[2] = f /\ f \in Nat /\ f <= shard.fence
        BY <1>1, <3>2
      <3>4. trail' \subseteq {"Uncertain", "Checkpoint", "Complete"} \X Nat
        BY <2>3, <3>3 DEF TrailInv
      <3>5. \A t \in trail' : t[2] <= shard.fence
        BY <2>3, <3>3 DEF TrailInv
      <3>6. \A t \in trail' : t[1] \in {"Checkpoint", "Complete"} => t \in trail
        BY <2>3, <3>3
      <3>7. ASSUME NEW h \in 1..shard.fence, <<"Uncertain", h>> \in trail'
            PROVE  {<<"Checkpoint", h>>, <<"Complete", h>>} \cap trail' = {}
        <4>1. CASE h = f
          <5>1. <<"Checkpoint", h>> \notin trail' /\ <<"Complete", h>> \notin trail'
            BY <2>3, <3>2, <4>1
          <5> QED  BY <5>1
        <4>2. CASE h # f
          <5>1. <<"Uncertain", h>> \in trail
            BY <2>3, <3>7, <4>2
          <5>2. {<<"Checkpoint", h>>, <<"Complete", h>>} \cap trail = {}
            BY <3>7, <5>1 DEF TrailInv, UncertainNeverAdvances
          <5>3. <<"Checkpoint", h>> \notin trail' /\ <<"Complete", h>> \notin trail'
            BY <2>3, <5>2
          <5> QED  BY <5>3
        <4> QED  BY <4>1, <4>2
      <3>8. CompletedOnce'
        BY <3>6 DEF TrailInv, CompletedOnce
      <3>9. \A t \in trail' : t[1] = "Complete" => shard'.done
        BY <2>1, <3>6 DEF TrailInv
      <3>10. UncertainNeverAdvances'
        BY <2>1, <3>7 DEF UncertainNeverAdvances
      <3> QED  BY <2>1, <3>4, <3>5, <3>8, <3>9, <3>10 DEF TrailInv
    <2> QED  BY <2>1, <2>2, <2>3
  <1>6. CASE Advance(w)
    <2> DEFINE k == scan[w].kind
    <2>1. \/ /\ ~shard.done /\ shard.fence = f
             /\ k \in {"Checkpoint", "Complete"}
             /\ shard'.fence = shard.fence
             /\ k = "Complete" => shard'.done = TRUE
             /\ k = "Checkpoint" => shard'.done = shard.done
             /\ trail' = trail \cup {<<k, f>>}
          \/ UNCHANGED <<shard, trail>>
      BY <1>6, AdvanceShard
    <2>2. scan[w].pc = "advance" /\ scan[w].pc \notin {"idle", "dead"}
      BY <1>6 DEF Advance
    <2>3. /\ <<"Checkpoint", f>> \notin trail /\ <<"Complete", f>> \notin trail
          /\ <<"Uncertain", f>> \notin trail
      BY <2>2 DEF FencesInv
    <2> HIDE DEF k, f
    <2>4. CASE UNCHANGED <<shard, trail>>
      BY <1>2, <2>4
    <2>5. CASE /\ ~shard.done /\ shard.fence = f
               /\ k \in {"Checkpoint", "Complete"}
               /\ shard'.fence = shard.fence
               /\ k = "Complete" => shard'.done = TRUE
               /\ trail' = trail \cup {<<k, f>>}
      <3>1. <<k, f>>[1] = k /\ <<k, f>>[2] = f /\ <<k, f>> \in {"Uncertain", "Checkpoint", "Complete"} \X Nat
        BY <1>1, <2>5
      <3>2. trail' \subseteq {"Uncertain", "Checkpoint", "Complete"} \X Nat /\ \A t \in trail' : t[2] <= shard'.fence
        BY <1>1, <2>5, <3>1 DEF TrailInv
      <3>3. \A t \in trail : t[1] # "Complete"
        BY <2>5 DEF TrailInv
      <3>4. \A t \in trail' : t[1] = "Complete" => t = <<k, f>> /\ shard'.done
        BY <2>5, <3>1, <3>3
      <3>5. ASSUME NEW t \in trail', NEW u \in trail',
                   t[1] = "Complete", u[1] \in {"Checkpoint", "Complete"}, t # u
            PROVE  u[2] < t[2]
        <4>1. t = <<k, f>> /\ u \in trail
          BY <2>5, <3>4, <3>5
        <4>2. u[2] \in Nat /\ u[2] <= f /\ u = <<u[1], u[2]>>
          BY <2>5, <4>1 DEF TrailInv
        <4>3. u[2] # f
          BY <2>3, <3>5, <4>1, <4>2
        <4> QED  BY <1>1, <2>5, <3>1, <4>1, <4>2, <4>3
      <3>6. ASSUME NEW h \in 1..shard'.fence, <<"Uncertain", h>> \in trail'
            PROVE  {<<"Checkpoint", h>>, <<"Complete", h>>} \cap trail' = {}
        <4>1. <<"Uncertain", h>> \in trail
          BY <2>5, <3>6
        <4>2. h # f /\ h \in 1..shard.fence
          BY <2>3, <2>5, <3>6, <4>1
        <4>3. {<<"Checkpoint", h>>, <<"Complete", h>>} \cap trail = {}
          BY <4>1, <4>2 DEF TrailInv, UncertainNeverAdvances
        <4>4. <<"Checkpoint", h>> \notin trail' /\ <<"Complete", h>> \notin trail'
          BY <2>5, <4>2, <4>3
        <4> QED  BY <4>4
      <3>7. CompletedOnce'
        BY <3>5 DEF CompletedOnce
      <3>8. UncertainNeverAdvances'
        BY <3>6 DEF UncertainNeverAdvances
      <3> QED  BY <3>2, <3>4, <3>7, <3>8 DEF TrailInv
    <2> QED  BY <2>1, <2>4, <2>5
  <1>7. CASE ~WatchExpire(w) /\ (Crash(w) \/ DrainStep(w) \/ WatchStep(w) \/ (ScanStep(w) /\ ~Advance(w)))
    BY <1>2, <1>7, QuietSteps
  <1> QED  BY <1>3, <1>4, <1>5, <1>6, <1>7

-----------------------------------------------------------------------------
(* The invariant                                                           *)

\* The invariant holds at the start.
LEMMA WorkersInitially ==
    ASSUME LeaseAssumption, LeaseInit
    PROVE  LeaseInv
  <1>1. ASSUME NEW w \in Worker PROVE WorkerInv(w)
    <2>1. WorkerOK(Stopped("idle"), NoCommit, NoDrain, "exited", FALSE, "Open", << >>, << >>, findings, ledger)
      BY StoppedIsFine
    <2>2. /\ scan[w] = Stopped("idle") /\ commit[w] = NoCommit /\ drain[w] = NoDrain /\ watch[w] = "exited"
          /\ cancel[w] = FALSE /\ signal[w] = "Open" /\ submitQ[w] = << >> /\ outcomeQ[w] = << >>
      BY DEF LeaseInit
    <2> QED  BY <2>1, <2>2 DEF WorkerInv
  <1>2. MapsOK
    BY DEF LeaseInit, MapsOK
  <1>3. ShardInv
    BY DEF LeaseInit, ShardInv, LeaseAssumption
  <1>4. FencesInv
    BY DEF LeaseInit, FencesInv, Stopped
  <1>5. TrailInv
    BY DEF LeaseInit, TrailInv, UncertainNeverAdvances, CompletedOnce
  <1> QED  BY <1>1, <1>2, <1>3, <1>4, <1>5 DEF LeaseInv, WorkersInv, WorkerInv

\* One lemma per action shows its worker to be fine after it.
LEMMA WorkerStepped ==
    ASSUME LeaseAssumption, MapsOK, ShardInv, NEW w \in Worker, WorkerInv(w),
           \/ Claim(w) \/ WatchExpire(w) \/ Crash(w)
           \/ ScanStep(w) \/ CommitStep(w) \/ DrainStep(w) \/ WatchStep(w)
    PROVE  WorkerInv(w)'
  <1>1. CASE Claim(w)  BY <1>1, ClaimKeeps
  <1>2. CASE WatchExpire(w) \/ WatchStep(w)  BY <1>2, WatchKeeps
  <1>3. CASE Crash(w)  BY <1>3, CrashKeeps
  <1>4. CASE ScanStep(w)
    <2>1. CASE \E retryable \in BOOLEAN : EnumerateStops(w, retryable)  BY <2>1, EnumerateStopsKeeps
    <2> QED  BY <1>4, <2>1, FillPageKeeps, ExhaustedKeeps, ScanCancelledKeeps, NextItemKeeps, PageDoneKeeps,
                OfferKeeps, SendKeeps, FinishKeeps, ResolveKeeps, AdvanceKeeps DEF ScanStep
  <1>5. CASE CommitStep(w)
    BY <1>5, CommitReceiveKeeps, CommitExitKeeps, CommitLooksKeeps, CommitWritesKeeps, CommitSendKeeps DEF CommitStep
  <1>6. CASE DrainStep(w)
    BY <1>6, DrainReceiveKeeps, DrainJoinKeeps, DrainCloseKeeps DEF DrainStep
  <1> QED  BY <1>1, <1>2, <1>3, <1>4, <1>5, <1>6

\* Every step keeps the invariant.
LEMMA LeaseStep ==
    ASSUME LeaseAssumption, LeaseInv, [LeaseNext]_vars
    PROVE  LeaseInv'
  <1>1. CASE UNCHANGED vars
    BY <1>1 DEF vars, durableVars, pipeVars, LeaseInv, MapsOK, ShardInv, WorkersInv, FencesInv, TrailInv,
                UncertainNeverAdvances, CompletedOnce
  <1>2. CASE Lapse
    <2>1. ShardInv'
      BY <1>2, ShardKept DEF LeaseInv, LeaseNext
    <2>2. UNCHANGED <<findings, ledger, scan, commit, drain, watch, cancel, signal, submitQ, outcomeQ, trail>>
      BY <1>2 DEF Lapse, pipeVars
    <2>3. shard'.fence = shard.fence /\ shard'.done = shard.done
      BY <1>2, LapseShard DEF LeaseInv
    <2>4. MapsOK' /\ WorkersInv'
      BY <2>2 DEF LeaseInv, MapsOK, WorkersInv
    <2>5. FencesInv'
      BY <2>2, <2>3 DEF LeaseInv, FencesInv
    <2>6. TrailInv'
      BY <2>2, <2>3 DEF LeaseInv, TrailInv, UncertainNeverAdvances, CompletedOnce
    <2> QED  BY <2>1, <2>4, <2>5, <2>6 DEF LeaseInv
  <1>3. ASSUME NEW w \in Worker,
               \/ Claim(w) \/ WatchExpire(w) \/ Crash(w)
               \/ ScanStep(w) \/ CommitStep(w) \/ DrainStep(w) \/ WatchStep(w)
        PROVE  LeaseInv'
    <2>1. MapsOK /\ ShardInv /\ WorkersInv /\ FencesInv /\ TrailInv
      BY DEF LeaseInv
    <2>2. OnlyWorker(w)
      BY <1>3, <2>1, ScanStepIsLocal, OtherStepIsLocal
    <2>3. WorkerInv(w)
      BY <2>1 DEF WorkersInv, WorkerInv
    <2>4. WorkersInv'
      BY <1>3, <2>1, <2>2, <2>3, WorkerStepped, OthersKept
    <2>5. ShardInv'
      BY <1>3, <2>1, ShardKept DEF LeaseNext
    <2>6. FencesInv' /\ TrailInv'
      BY <1>3, <2>1, <2>2, <2>3, FencesStepped, TrailStepped
    <2> QED  BY <2>2, <2>4, <2>5, <2>6 DEF LeaseInv, OnlyWorker
  <1> QED  BY <1>1, <1>2, <1>3 DEF LeaseNext

\* The inductive invariant of leased execution.
LEMMA LeaseInvariance == LeaseSpec => []LeaseInv
  <1>1. LeaseInit => LeaseInv
    BY WorkersInitially, LeaseAssumption
  <1>2. LeaseInv /\ [LeaseNext]_vars => LeaseInv'
    BY LeaseStep, LeaseAssumption
  <1> QED  BY <1>1, <1>2, PTL DEF LeaseSpec

-----------------------------------------------------------------------------
(* The theorems                                                            *)

\* drain_commit_stage: whatever is cancelled, lost or refused, the cross-check of
\* submitted against committed items never fails on its own: an execution that
\* lost a report is one that failed or was in doubt.
THEOREM GapsAlwaysHaveACause == LeaseSpec => []GapsHaveACause
  <1>1. LeaseInv => GapsHaveACause
    BY DEF LeaseInv, WorkersInv, WorkerOK, ScanOK, GapsHaveACause
  <1> QED  BY <1>1, LeaseInvariance, PTL

\* watch_lease_deadline: a lease whose deadline passed before its results were
\* drained never advances the shard, not even while it is still the holder.
THEOREM UncertainLeasesNeverAdvance == LeaseSpec => []UncertainNeverAdvances
  <1>1. LeaseInv => UncertainNeverAdvances
    BY DEF LeaseInv, TrailInv
  <1> QED  BY <1>1, LeaseInvariance, PTL

\* advance_shard: a shard is completed at most once, under the last fence that
\* ever advances it.
THEOREM ShardsCompleteOnce == LeaseSpec => []CompletedOnce
  <1>1. LeaseInv => CompletedOnce
    BY DEF LeaseInv, TrailInv
  <1> QED  BY <1>1, LeaseInvariance, PTL

\* No crash, takeover, failing call or cancelled pipeline makes the cursor, or
\* the completion of the shard, pass an item that is not done.
THEOREM LeasesSkipNothing == LeaseSpec => []NoItemSkipped
  <1>1. LeaseInv => NoItemSkipped
    BY DEF LeaseInv, ShardInv, NoItemSkipped, Durable!NothingSkipped, Durable!Items, Items
  <1> QED  BY <1>1, LeaseInvariance, PTL

\* A step of any worker changes the durable state as DurableScan allows, or not at all.
LEMMA DurableStep ==
    ASSUME LeaseAssumption, LeaseInv, LeaseNext
    PROVE  [Durable!DurableNext]_(Durable!durableVars)
  <1> USE DEF Durable!DurableNext, Durable!durableVars, Durable!Items
  <1>1. ShardInv /\ WorkersInv
    BY DEF LeaseInv
  <1>2. ASSUME NEW w \in Worker PROVE WorkerInv(w)
    BY <1>1 DEF WorkersInv, WorkerInv
  <1>3. CASE Lapse
    BY <1>1, <1>3, LapseShard DEF Lapse
  <1>4. ASSUME NEW w \in Worker, Claim(w) PROVE UNCHANGED Durable!durableVars
    BY <1>1, <1>4, ClaimShard DEF Claim
  <1>5. ASSUME NEW w \in Worker, CommitStep(w) PROVE [Durable!DurableNext]_(Durable!durableVars)
    <2>1. CASE \E i \in Items : findings' = findings \cup {i} /\ ledger' = ledger
      BY <1>2, <1>5, <2>1, CommitWrites DEF Durable!PersistFindings, Items
    <2>2. CASE \E i \in Items \cap findings : ledger' = ledger \cup {i} /\ findings' = findings
      BY <1>2, <1>5, <2>2, CommitWrites DEF Durable!PersistDoneRow, Items
    <2> QED  BY <1>2, <1>5, <2>1, <2>2, CommitWrites
  <1>6. ASSUME NEW w \in Worker, Advance(w) PROVE [Durable!DurableNext]_(Durable!durableVars)
    <2> DEFINE s == scan[w]
    <2>1. UNCHANGED <<findings, ledger>>
      BY <1>6 DEF Advance
    <2>2. \/ /\ ~shard.done /\ s.kind \in {"Checkpoint", "Complete"} /\ s.advance \in 0..N /\ s.advance >= shard.cursor
             /\ 1..s.advance \subseteq ledger /\ (s.kind = "Complete" => Items \subseteq ledger)
             /\ shard'.cursor = s.advance
             /\ s.kind = "Complete" => shard'.done = TRUE
             /\ s.kind = "Checkpoint" => shard'.done = shard.done
          \/ shard' = shard
      BY <1>1, <1>2, <1>6, AdvanceShard
    <2> HIDE DEF s
    <2>3. CASE shard' = shard
      BY <2>1, <2>3
    <2>4. CASE shard' # shard /\ s.kind = "Complete"
      <3>1. Durable!PersistDone(s.advance)
        BY <2>1, <2>2, <2>4 DEF Durable!PersistDone, Items
      <3> QED  BY <2>2, <2>4, <3>1
    <2>5. CASE shard' # shard /\ s.kind = "Checkpoint"
      <3>1. Durable!PersistCursor(s.advance)
        BY <2>1, <2>2, <2>5 DEF Durable!PersistCursor
      <3> QED  BY <2>2, <2>5, <3>1
    <2> QED  BY <2>2, <2>3, <2>4, <2>5
  <1>7. ASSUME NEW w \in Worker,
               \/ WatchExpire(w) \/ Crash(w) \/ DrainStep(w) \/ WatchStep(w)
               \/ ScanStep(w) /\ ~Advance(w)
        PROVE  UNCHANGED Durable!durableVars
    BY <1>7, QuietSteps
  <1> QED  BY <1>3, <1>4, <1>5, <1>6, <1>7 DEF LeaseNext

\* Any number of workers, current and stale, with their four threads each, are
\* together one durable scan: findings first, then the done row, then the cursor.
THEOREM LeasesImplementDurableScan == LeaseSpec => ImplementsDurableScan
  <1>1. LeaseInit => Durable!DurableInit
    BY DEF LeaseInit, Durable!DurableInit
  <1>2. LeaseInv /\ [LeaseNext]_vars => [Durable!DurableNext]_(Durable!durableVars)
    <2>1. UNCHANGED vars => UNCHANGED Durable!durableVars
      BY DEF vars, durableVars, Durable!durableVars
    <2> QED  BY <2>1, DurableStep, LeaseAssumption
  <1> QED  BY <1>1, <1>2, LeaseInvariance, PTL DEF LeaseSpec, ImplementsDurableScan, Durable!DurableSpec
=============================================================================

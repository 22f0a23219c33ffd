------------------------------ MODULE Executor ------------------------------
(***************************************************************************)
(* The work-stealing executor: worker threads with a deque each, an        *)
(* injector for everybody, one atomic word that holds the in-flight count  *)
(* and the accepting bit, a done flag and a parker per worker.  One step   *)
(* per access to shared memory.  Tasks are anonymous: a running task may   *)
(* spawn others, finish or panic.  Queues are sets: which task is taken    *)
(* first is a matter of locality only.                                     *)
(***************************************************************************)
EXTENDS Naturals, FiniteSets

CONSTANTS
    WorkerCount,     \* threads
    Producers,       \* threads outside that hold an ExecutorHandle
    Tasks,           \* bound: the tasks of a behaviour
    HoardThreshold,  \* WAKE_ON_HOARD_THRESHOLD
    MayShutdown,     \* whether some handle calls shutdown()
    MayPanic         \* whether a task may panic

ASSUME ExecutorAssumption ==
    /\ WorkerCount \in Nat \ {0} /\ HoardThreshold \in Nat \ {0}
    /\ IsFiniteSet(Tasks) /\ MayShutdown \in BOOLEAN /\ MayPanic \in BOOLEAN

Workers == 0..(WorkerCount - 1)

VARIABLES
    accepting, count,   \* the state word
    done,               \* the done flag
    injector, local,    \* queued tasks
    token, nextUnpark,  \* one permit per parker; the round-robin of unpark_one
    wk,                 \* worker threads
    ext,                \* producers: tasks counted and not yet pushed, tasks to wake for
    joiner, stopper,    \* the thread in join(), the thread in shutdown()
    panicSlot,          \* a panic was recorded
    accepted, ran, crashed  \* tasks whose spawn was counted, that finished, that panicked

execVars == <<accepting, count, done, injector, local, token, nextUnpark, wk, ext, joiner, stopper,
              panicSlot, accepted, ran, crashed>>

queueVars == <<injector, local>>
wakeVars == <<token, nextUnpark>>
callerVars == <<ext, joiner, stopper>>
historyVars == <<accepted, ran, crashed>>

ExecInit ==
    /\ accepting = TRUE /\ count = 0 /\ done = FALSE
    /\ injector = {} /\ local = [w \in Workers |-> {}]
    /\ token = [w \in Workers |-> FALSE] /\ nextUnpark = 0
    /\ wk = [w \in Workers |-> [pc |-> "top", task |-> {}, child |-> {}, hoard |-> 0]]
    /\ ext = [p \in Producers |-> [todo |-> {}, wake |-> 0]]
    /\ joiner = "no" /\ stopper = "no"
    /\ panicSlot = FALSE
    /\ accepted = {} /\ ran = {} /\ crashed = {}

Fresh == Tasks \ accepted

Goto(w, pc) == wk' = [wk EXCEPT ![w].pc = pc]

UnparkAll == token' = [w \in Workers |-> TRUE] /\ UNCHANGED nextUnpark

\* The permits of k calls of unpark_one, and of unpark_n.
UnparkOnes(k) ==
    /\ token' = [w \in Workers |-> token[w] \/ \E i \in 0..(k - 1) : w = (nextUnpark + i) % WorkerCount]
    /\ nextUnpark' = (nextUnpark + k) % WorkerCount

UnparkN(n) == IF n >= WorkerCount THEN UnparkAll ELSE UnparkOnes(n)

----------------------------------------------------------------------------
(* ExecutorHandle: spawn is a batch of one; the count rises and the gate is *)
(* read in one compare-and-swap, before the tasks are queued.               *)

\* Mutation: the batch is counted without looking at the accepting bit.
ReserveUngated(p) ==
    /\ ext[p].todo = {} /\ ext[p].wake = 0
    /\ \E batch \in (SUBSET Fresh) \ {{}} :
          /\ count' = count + Cardinality(batch)
          /\ accepted' = accepted \cup batch
          /\ ext' = [ext EXCEPT ![p] = [todo |-> batch, wake |-> Cardinality(batch)]]
    /\ UNCHANGED <<accepting, done, queueVars, wakeVars, wk, joiner, stopper, panicSlot, ran, crashed>>

Reserve(p) ==
    /\ ext[p].todo = {} /\ ext[p].wake = 0
    /\ accepting
    /\ \E batch \in (SUBSET Fresh) \ {{}} :
          /\ count' = count + Cardinality(batch)
          /\ accepted' = accepted \cup batch
          /\ ext' = [ext EXCEPT ![p] = [todo |-> batch, wake |-> Cardinality(batch)]]
    /\ UNCHANGED <<accepting, done, queueVars, wakeVars, wk, joiner, stopper, panicSlot, ran, crashed>>

Inject(p) ==
    /\ \E t \in ext[p].todo :
          /\ injector' = injector \cup {t}
          /\ ext' = [ext EXCEPT ![p].todo = @ \ {t}]
    /\ UNCHANGED <<accepting, count, done, local, wakeVars, wk, joiner, stopper, panicSlot, historyVars>>

\* Mutation: nobody is woken for a queued batch.
WakeForBatchSilent(p) ==
    /\ ext[p].todo = {} /\ ext[p].wake > 0
    /\ ext' = [ext EXCEPT ![p].wake = 0]
    /\ UNCHANGED <<accepting, count, done, queueVars, wakeVars, wk, joiner, stopper, panicSlot, historyVars>>

WakeForBatch(p) ==
    /\ ext[p].todo = {} /\ ext[p].wake > 0
    /\ UnparkN(ext[p].wake)
    /\ ext' = [ext EXCEPT ![p].wake = 0]
    /\ UNCHANGED <<accepting, count, done, queueVars, wk, joiner, stopper, panicSlot, historyVars>>

\* initiate_done, in two steps: the flag, then every permit.
StopGate ==
    /\ MayShutdown /\ stopper = "no"
    /\ accepting' = FALSE
    /\ stopper' = "flag"
    /\ UNCHANGED <<count, done, queueVars, wakeVars, wk, ext, joiner, panicSlot, historyVars>>

StopFlag ==
    /\ stopper = "flag"
    /\ done' = TRUE
    /\ stopper' = "wake"
    /\ UNCHANGED <<accepting, count, queueVars, wakeVars, wk, ext, joiner, panicSlot, historyVars>>

StopWake ==
    /\ stopper = "wake"
    /\ UnparkAll
    /\ stopper' = "over"
    /\ UNCHANGED <<accepting, count, done, queueVars, wk, ext, joiner, panicSlot, historyVars>>

----------------------------------------------------------------------------
(* Executor::join *)

\* Mutation: join closes the gate and leaves the end to the last task, even if there is none.
JoinGateIgnoresCount ==
    /\ joiner = "no"
    /\ accepting' = FALSE
    /\ joiner' = "wait"
    /\ UNCHANGED <<count, done, queueVars, wakeVars, wk, ext, stopper, panicSlot, historyVars>>

JoinGate ==
    /\ joiner = "no"
    /\ accepting' = FALSE
    /\ joiner' = IF count = 0 THEN "flag" ELSE "wait"
    /\ UNCHANGED <<count, done, queueVars, wakeVars, wk, ext, stopper, panicSlot, historyVars>>

JoinFlag ==
    /\ joiner = "flag"
    /\ done' = TRUE
    /\ joiner' = "wake"
    /\ UNCHANGED <<accepting, count, queueVars, wakeVars, wk, ext, stopper, panicSlot, historyVars>>

JoinWake ==
    /\ joiner = "wake"
    /\ UnparkAll
    /\ joiner' = "wait"
    /\ UNCHANGED <<accepting, count, done, queueVars, wk, ext, stopper, panicSlot, historyVars>>

\* Every thread joined: the recorded panic, if any, is thrown again.  A thread
\* that panics outside a task (in scratch_init) is left out.
JoinReturn ==
    /\ joiner = "wait"
    /\ \A w \in Workers : wk[w].pc = "exit"
    /\ joiner' = IF panicSlot THEN "rethrown" ELSE "returned"
    /\ panicSlot' = FALSE
    /\ UNCHANGED <<accepting, count, done, queueVars, wakeVars, wk, ext, stopper, historyVars>>

----------------------------------------------------------------------------
(* worker_loop and worker_step *)

CheckDone(w) ==
    /\ wk[w].pc = "top"
    /\ Goto(w, IF done THEN "exit" ELSE "local")
    /\ UNCHANGED <<accepting, count, done, queueVars, wakeVars, callerVars, panicSlot, historyVars>>

Took(w, t) == wk' = [wk EXCEPT ![w].pc = "run", ![w].task = {t}]

PopLocal(w) ==
    /\ wk[w].pc = "local"
    /\ \/ local[w] = {} /\ Goto(w, "inject") /\ UNCHANGED local
       \/ \E t \in local[w] : Took(w, t) /\ local' = [local EXCEPT ![w] = @ \ {t}]
    /\ UNCHANGED <<accepting, count, done, injector, wakeVars, callerVars, panicSlot, historyVars>>

\* A batch goes to the local deque but for the task returned.
StealInjector(w) ==
    /\ wk[w].pc = "inject"
    /\ \E batch \in SUBSET injector : \E t \in batch :
          /\ Took(w, t)
          /\ injector' = injector \ batch
          /\ local' = [local EXCEPT ![w] = @ \cup (batch \ {t})]
    /\ UNCHANGED <<accepting, count, done, wakeVars, callerVars, panicSlot, historyVars>>

\* Steal::Empty, or a Retry: another worker took a task at the same moment.  A
\* weak compare-and-swap may also fail with no rival, on machines that have one;
\* that is left out.  A worker parked by it wakes by the park timeout.
InjectorFails(w) ==
    /\ wk[w].pc = "inject"
    /\ injector = {} \/ \E o \in Workers \ {w} : wk[o].task # {}
    /\ Goto(w, "steal")
    /\ UNCHANGED <<accepting, count, done, queueVars, wakeVars, callerVars, panicSlot, historyVars>>

\* steal_tries random victims: any number of tries may miss.
StealVictim(w) ==
    /\ wk[w].pc = "steal"
    /\ \/ Goto(w, "check") /\ UNCHANGED local
       \/ \E v \in Workers \ {w} : \E t \in local[v] :
             Took(w, t) /\ local' = [local EXCEPT ![v] = @ \ {t}]
    /\ UNCHANGED <<accepting, count, done, injector, wakeVars, callerVars, panicSlot, historyVars>>

Spinning == {"top", "park"}

\* Without work the worker spins a number of rounds, then parks.
CheckState(w) ==
    /\ wk[w].pc = "check"
    /\ \E pc \in IF count = 0 /\ ~accepting THEN {"exitFlag"} ELSE Spinning : Goto(w, pc)
    /\ UNCHANGED <<accepting, count, done, queueVars, wakeVars, callerVars, panicSlot, historyVars>>

\* park_timeout returns on a permit, which it consumes...
Unparked(w) ==
    /\ wk[w].pc = "park" /\ token[w]
    /\ token' = [token EXCEPT ![w] = FALSE]
    /\ Goto(w, "top")
    /\ UNCHANGED <<accepting, count, done, queueVars, nextUnpark, callerVars, panicSlot, historyVars>>

\* ... or when its time is over.
ParkTimeout(w) ==
    /\ wk[w].pc = "park" /\ ~token[w]
    /\ Goto(w, "top")
    /\ UNCHANGED <<accepting, count, done, queueVars, wakeVars, callerVars, panicSlot, historyVars>>

\* Mutation: a child is queued without being counted.
CountChildUncounted(w) ==
    /\ wk[w].pc = "run"
    /\ \E t \in Fresh : \E pc \in {"pushLocal", "pushGlobal"} :
          /\ wk' = [wk EXCEPT ![w].pc = pc, ![w].child = {t}]
          /\ accepted' = accepted \cup {t}
          /\ count' = IF pc = "pushLocal" THEN count ELSE count + 1
    /\ UNCHANGED <<accepting, done, queueVars, wakeVars, callerVars, panicSlot, ran, crashed>>

\* spawn_local and spawn_global count the task before they queue it.
CountChild(w) ==
    /\ wk[w].pc = "run"
    /\ \E t \in Fresh : \E pc \in {"pushLocal", "pushGlobal"} :
          /\ wk' = [wk EXCEPT ![w].pc = pc, ![w].child = {t}]
          /\ accepted' = accepted \cup {t}
    /\ count' = count + 1
    /\ UNCHANGED <<accepting, done, queueVars, wakeVars, callerVars, panicSlot, ran, crashed>>

\* Mutation: the count of local spawns is not reset when it reaches the threshold.
PushLocalNoReset(w) ==
    LET full == wk[w].hoard + 1 >= HoardThreshold IN
    /\ wk[w].pc = "pushLocal"
    /\ local' = [local EXCEPT ![w] = @ \cup wk[w].child]
    /\ wk' = [wk EXCEPT ![w].pc = IF full THEN "wakeOne" ELSE "run", ![w].child = {}, ![w].hoard = @ + 1]
    /\ UNCHANGED <<accepting, count, done, injector, wakeVars, callerVars, panicSlot, historyVars>>

PushLocal(w) ==
    LET full == wk[w].hoard + 1 >= HoardThreshold IN
    /\ wk[w].pc = "pushLocal"
    /\ local' = [local EXCEPT ![w] = @ \cup wk[w].child]
    /\ wk' = [wk EXCEPT ![w].pc = IF full THEN "wakeOne" ELSE "run", ![w].child = {},
                        ![w].hoard = IF full THEN 0 ELSE @ + 1]
    /\ UNCHANGED <<accepting, count, done, injector, wakeVars, callerVars, panicSlot, historyVars>>

PushGlobal(w) ==
    /\ wk[w].pc = "pushGlobal"
    /\ injector' = injector \cup wk[w].child
    /\ wk' = [wk EXCEPT ![w].pc = "wakeOne", ![w].child = {}]
    /\ UNCHANGED <<accepting, count, done, local, wakeVars, callerVars, panicSlot, historyVars>>

WakeOne(w) ==
    /\ wk[w].pc = "wakeOne"
    /\ UnparkOnes(1)
    /\ Goto(w, "run")
    /\ UNCHANGED <<accepting, count, done, queueVars, callerVars, panicSlot, historyVars>>

\* The task is over: fetch_sub, and the last one of a closed executor signals.
FinishTask(w) ==
    /\ wk[w].pc = "run"
    /\ wk' = [wk EXCEPT ![w].pc = IF count = 1 /\ ~accepting THEN "topFlag" ELSE "top", ![w].task = {}]
    /\ ran' = ran \cup wk[w].task
    /\ count' = count - 1
    /\ UNCHANGED <<accepting, done, queueVars, wakeVars, callerVars, panicSlot, accepted, crashed>>

PanicTask(w) ==
    /\ MayPanic /\ wk[w].pc = "run"
    /\ wk' = [wk EXCEPT ![w].pc = "panic", ![w].task = {}]
    /\ crashed' = crashed \cup wk[w].task
    /\ count' = count - 1
    /\ UNCHANGED <<accepting, done, queueVars, wakeVars, callerVars, panicSlot, accepted, ran>>

\* Mutation: the panic's payload is dropped.
RecordPanicForgets(w) ==
    /\ wk[w].pc = "panic"
    /\ Goto(w, "exitFlag")
    /\ UNCHANGED <<accepting, count, done, queueVars, wakeVars, callerVars, panicSlot, historyVars>>

RecordPanic(w) ==
    /\ wk[w].pc = "panic"
    /\ panicSlot' = TRUE
    /\ Goto(w, "exitFlag")
    /\ UNCHANGED <<accepting, count, done, queueVars, wakeVars, callerVars, historyVars>>

\* initiate_done by a worker, which then goes on or exits.
SignalDone(w) ==
    /\ wk[w].pc \in {"topFlag", "exitFlag"}
    /\ done' = TRUE
    /\ Goto(w, IF wk[w].pc = "topFlag" THEN "topWake" ELSE "exitWake")
    /\ UNCHANGED <<accepting, count, queueVars, wakeVars, callerVars, panicSlot, historyVars>>

WakeAllAfterDone(w) ==
    /\ wk[w].pc \in {"topWake", "exitWake"}
    /\ UnparkAll
    /\ Goto(w, IF wk[w].pc = "topWake" THEN "top" ELSE "exit")
    /\ UNCHANGED <<accepting, count, done, queueVars, callerVars, panicSlot, historyVars>>

----------------------------------------------------------------------------

\* What a running thread does next; a parked one waits for a permit.
WorkerStep(w) ==
    \/ CheckDone(w) \/ PopLocal(w) \/ StealInjector(w) \/ InjectorFails(w) \/ StealVictim(w)
    \/ CheckState(w) \/ Unparked(w)
    \/ CountChild(w) \/ PushLocal(w) \/ PushGlobal(w) \/ WakeOne(w)
    \/ FinishTask(w) \/ PanicTask(w) \/ RecordPanic(w) \/ SignalDone(w) \/ WakeAllAfterDone(w)

ProducerStep(p) == Inject(p) \/ WakeForBatch(p)

JoinStep == JoinFlag \/ JoinWake \/ JoinReturn

StopStep == StopFlag \/ StopWake

ExecNext ==
    \/ \E w \in Workers : WorkerStep(w) \/ ParkTimeout(w)
    \/ \E p \in Producers : Reserve(p) \/ ProducerStep(p)
    \/ StopGate \/ StopStep
    \/ JoinGate \/ JoinStep

ExecSpec == ExecInit /\ [][ExecNext]_execVars

(***************************************************************************)
(* Threads are scheduled and tasks end.  Nothing is assumed of the park    *)
(* timeout: the permits alone must wake whoever is needed.                 *)
(***************************************************************************)
ExecFairSpec ==
    /\ ExecSpec
    /\ \A w \in Workers : WF_execVars(WorkerStep(w))
    /\ \A p \in Producers : WF_execVars(ProducerStep(p))
    /\ WF_execVars(JoinStep)
    /\ WF_execVars(StopStep)

----------------------------------------------------------------------------

Queued == injector \cup UNION {local[w] : w \in Workers}

Held == (UNION {wk[w].task \cup wk[w].child : w \in Workers}) \cup (UNION {ext[p].todo : p \in Producers})

\* Types of the threads and the state word.
ExecTypeOK ==
    /\ accepting \in BOOLEAN /\ done \in BOOLEAN /\ count \in 0..Cardinality(Tasks)
    /\ injector \subseteq Tasks /\ local \in [Workers -> SUBSET Tasks]
    /\ nextUnpark \in Workers
    /\ \A w \in Workers : wk[w].hoard < HoardThreshold

(***************************************************************************)
(* The count is exactly the number of tasks that are queued, held by a     *)
(* worker or about to be queued, whatever pops, steals and spawns race:    *)
(* no task is in two places, none is missed and the fetch_sub of           *)
(* worker_step never underflows ("in_flight underflow").                   *)
(***************************************************************************)
CountExact == count = Cardinality(Queued \cup Held)

(***************************************************************************)
(* "Work-conserving: once spawned, a task will execute": unless a task     *)
(* panicked or shutdown() was called, the done flag is up only when every  *)
(* task whose spawn was accepted has finished.                             *)
(***************************************************************************)
DoneMeansDrained == done /\ crashed = {} /\ stopper = "no" => accepted = ran

(***************************************************************************)
(* "panics caught and propagated on join": join returns normally only if   *)
(* no task has panicked, also when another worker ended the run between    *)
(* the panicking worker's fetch_sub and its record_panic.                  *)
(***************************************************************************)
PanicsPropagate == joiner = "returned" => crashed = {}

\* No task is lost, counted twice or run after the end, and no panic is swallowed,
\* whatever spawn_batch, shutdown, join and the workers interleave.
ExecSafe == ExecTypeOK /\ CountExact /\ DoneMeansDrained /\ PanicsPropagate

(***************************************************************************)
(* "No lost wakeups": once join() has closed the gate every thread exits   *)
(* and it returns, without help from the park timeout.                     *)
(***************************************************************************)
JoinReturns == joiner # "no" ~> joiner \in {"returned", "rethrown"}

(***************************************************************************)
(* Before any join too: a task whose spawn was accepted is executed, unless*)
(* the executor is stopped, however the permits of unpark_one were spent.  *)
(***************************************************************************)
SpawnedRuns == \A t \in Tasks : t \in accepted ~> (t \in ran \/ done)
=============================================================================

-------------------------- MODULE ConcurrencyProofs -------------------------
(***************************************************************************)
(* The parts that several threads share, for every number of threads,      *)
(* tasks and values, every capacity and every interleaving.                *)
(*                                                                         *)
(* Executor.  A task in flight is in one of a fixed set of places: the     *)
(* injector, a worker's deque, the task it runs, the child it is about to  *)
(* queue, the rest of a producer's batch.  No two of them ever hold the    *)
(* same task (Apart), so that moving a task keeps the number of tasks in   *)
(* flight and taking one out lowers it by one: that is the count.          *)
(*                                                                         *)
(* CountBudget and GlobalResourcePool.  A sum over the permits is the      *)
(* number of units they own (Units), so that one permit's change changes   *)
(* the sum by as much (SumChanges) and no permit owns more than the sum    *)
(* (SumAtLeast).                                                           *)
(*                                                                         *)
(* SpscQueue.  Indexes wrap, counts do not: the distance between the two   *)
(* indexes is what is pushed and not yet taken (IndexesCount), within N,   *)
(* so that the slots from head on are different ones and hold the values   *)
(* in the order of their pushes (ValuesIn).                                *)
(***************************************************************************)
EXTENDS Executor, CountBudget, GlobalResourcePool, SpscQueue, Integers, TLAPS, FiniteSetTheorems

-----------------------------------------------------------------------------
(* Where tasks are                                                         *)

\* The places a task can be in: the injector, a worker's deque, the task it runs
\* or the child it is about to queue, and the rest of a producer's batch.
Spots == ({"injector"} \X {0}) \cup ({"local", "task", "child"} \X Workers) \cup ({"todo"} \X Producers)

\* What each of them holds.
Contents(inj, loc, ws, es) ==
    [s \in Spots |->
        IF s[1] = "injector" THEN inj
        ELSE IF s[1] = "local" THEN loc[s[2]]
        ELSE IF s[1] = "task" THEN ws[s[2]].task
        ELSE IF s[1] = "child" THEN ws[s[2]].child
        ELSE es[s[2]].todo]

\* No two places hold the same task.
Apart(c) == \A s, r \in Spots : s # r => c[s] \cap c[r] = {}

\* The tasks in all places.
All(c) == UNION {c[s] : s \in Spots}

\* Where the tasks are now.
Now == Contents(injector, local, wk, ext)

-----------------------------------------------------------------------------
(* The invariant of the executor                                           *)

\* A worker runs a task; it has a child to queue; it is about to raise the done
\* flag; it does anything else.
Running == {"run", "pushLocal", "pushGlobal", "wakeOne"}
Spawning == {"pushLocal", "pushGlobal"}
Signalling == {"topFlag", "exitFlag"}
Elsewhere == {"top", "local", "inject", "steal", "check", "park", "panic", "topWake", "exitWake", "exit"}
Pcs == Running \cup Signalling \cup Elsewhere

\* A worker holds a task exactly while it runs one, and a child exactly until it is queued.
WorkerOK(x) ==
    /\ x \in [pc : Pcs, task : SUBSET Tasks, child : SUBSET Tasks, hoard : Nat]
    /\ x.hoard < HoardThreshold
    /\ x.task = {} <=> x.pc \notin Running
    /\ \A t \in x.task : x.task = {t}
    /\ x.child # {} => x.pc \in Spawning

\* Every thread by itself.
ThreadsOK ==
    /\ DOMAIN wk = Workers /\ \A w \in Workers : WorkerOK(wk[w])
    /\ ext \in [Producers -> [todo : SUBSET Tasks, wake : Nat]]
    /\ accepting \in BOOLEAN /\ done \in BOOLEAN /\ panicSlot \in BOOLEAN
    /\ injector \subseteq Tasks /\ local \in [Workers -> SUBSET Tasks]
    /\ nextUnpark \in Workers

\* The count is the number of tasks in the places, each in one of them; the other
\* accepted ones have run or panicked.
TasksOK ==
    /\ Apart(Now)
    /\ count = Cardinality(All(Now))
    /\ accepted = All(Now) \cup ran \cup crashed
    /\ accepted \subseteq Tasks

\* Whoever has decided to raise the done flag saw a closed gate and no task left.
EndOK ==
    (done \/ joiner = "flag" \/ \E w \in Workers : wk[w].pc \in Signalling) /\ crashed = {} /\ stopper = "no"
        => count = 0 /\ ~accepting

\* A panic is with the worker that met it, recorded, or thrown again; join returns
\* when every worker has gone.
PanicOK ==
    /\ crashed # {} => panicSlot = TRUE \/ joiner = "rethrown" \/ \E w \in Workers : wk[w].pc = "panic"
    /\ \A w \in Workers : wk[w].pc = "panic" => crashed # {}
    /\ joiner \in {"returned", "rethrown"} => \A w \in Workers : wk[w].pc = "exit"
    /\ joiner = "returned" => crashed = {}

\* The inductive invariant.
ExecInv == ThreadsOK /\ TasksOK /\ EndOK /\ PanicOK

-----------------------------------------------------------------------------
(* Moving tasks between places                                             *)

\* Tasks move from one place to another.
LEMMA Moved ==
    ASSUME NEW c, NEW d, NEW from \in Spots, NEW to \in Spots, from # to, NEW X, X \subseteq c[from], Apart(c),
           d[from] = c[from] \ X, d[to] = c[to] \cup X, \A s \in Spots \ {from, to} : d[s] = c[s]
    PROVE  Apart(d) /\ All(d) = All(c)
  <1>1. ASSUME NEW s \in Spots, NEW r \in Spots, s # r, NEW t, t \in d[s], t \in d[r] PROVE FALSE
    <2>1. \A s1, r1 \in Spots : s1 # r1 => ~(t \in c[s1] /\ t \in c[r1])
      BY DEF Apart
    <2>2. \A s1 \in Spots \ {from, to} : t \in d[s1] <=> t \in c[s1]
      OBVIOUS
    <2>3. (t \in d[from] <=> t \in c[from] /\ t \notin X) /\ (t \in d[to] <=> t \in c[to] \/ t \in X)
          /\ (t \in X => t \in c[from])
      OBVIOUS
    <2> QED  BY <1>1, <2>1, <2>2, <2>3
  <1>2. Apart(d)
    BY <1>1 DEF Apart
  <1>3. ASSUME NEW s \in Spots, NEW t \in d[s] PROVE \E r \in Spots : t \in c[r]
    BY <1>3
  <1>4. ASSUME NEW s \in Spots, NEW t \in c[s] PROVE \E r \in Spots : t \in d[r]
    BY <1>4
  <1>5. All(d) = All(c)
    BY <1>3, <1>4 DEF All
  <1> QED  BY <1>2, <1>5

\* New tasks come into a place.
LEMMA Added ==
    ASSUME NEW c, NEW d, NEW to \in Spots, NEW X, \A t \in X : t \notin All(c), Apart(c),
           \A t : t \in d[to] <=> t \in c[to] \/ t \in X, \A s \in Spots : s # to => d[s] = c[s]
    PROVE  Apart(d) /\ \A t : t \in All(d) <=> t \in All(c) \/ t \in X
  <1>0. \A s \in Spots : c[s] \subseteq All(c)
    BY DEF All
  <1>1. ASSUME NEW s \in Spots, NEW r \in Spots, s # r, NEW t, t \in d[s], t \in d[r] PROVE FALSE
    <2>1. \A s1, r1 \in Spots : s1 # r1 => ~(t \in c[s1] /\ t \in c[r1])
      BY DEF Apart
    <2>2. \A s1 \in Spots \ {to} : t \in d[s1] <=> t \in c[s1]
      OBVIOUS
    <2>3. (t \in d[to] <=> t \in c[to] \/ t \in X) /\ \A s1 \in Spots : t \in X => t \notin c[s1]
      BY <1>0
    <2> QED  BY <1>1, <2>1, <2>2, <2>3
  <1>2. Apart(d)
    BY <1>1 DEF Apart
  <1>3. ASSUME NEW s \in Spots, NEW t \in d[s] PROVE t \in X \/ \E r \in Spots : t \in c[r]
    BY <1>3
  <1>4. ASSUME NEW s \in Spots, NEW t \in c[s] PROVE \E r \in Spots : t \in d[r]
    BY <1>4
  <1>5. ASSUME NEW t \in X PROVE t \in d[to]
    OBVIOUS
  <1>6. \A t : t \in All(d) <=> t \in All(c) \/ t \in X
    BY <1>3, <1>4, <1>5 DEF All
  <1> QED  BY <1>2, <1>6

\* The tasks of a place leave it for good.
LEMMA Removed ==
    ASSUME NEW c, NEW d, NEW from \in Spots, Apart(c), d[from] = {}, \A s \in Spots : s # from => d[s] = c[s]
    PROVE  Apart(d) /\ \A t : t \in All(d) <=> t \in All(c) /\ t \notin c[from]
  <1>1. \A s \in Spots : d[s] \subseteq c[s]
    OBVIOUS
  <1>2. Apart(d)
    BY <1>1 DEF Apart
  <1>3. ASSUME NEW s \in Spots, NEW t \in d[s] PROVE t \notin c[from] /\ \E r \in Spots : t \in c[r]
    <2>1. s # from /\ t \in c[s]
      BY <1>1
    <2>2. t \notin c[from]
      BY <2>1 DEF Apart
    <2> QED  BY <2>1, <2>2
  <1>4. ASSUME NEW s \in Spots, NEW t \in c[s], t \notin c[from] PROVE \E r \in Spots : t \in d[r]
    <2>1. t \in d[s]
      BY <1>4
    <2> QED  BY <2>1
  <1>5. \A t : t \in All(d) <=> t \in All(c) /\ t \notin c[from]
    BY <1>3, <1>4 DEF All
  <1> QED  BY <1>2, <1>5

-----------------------------------------------------------------------------
(* The places                                                              *)

\* The places by name.
InjectorSlot == <<"injector", 0>>
LocalSlot(w) == <<"local", w>>
TaskSlot(w) == <<"task", w>>
ChildSlot(w) == <<"child", w>>
TodoSlot(p) == <<"todo", p>>

\* Every place is one of these, and no two of them are the same.
LEMMA SlotKinds ==
    /\ InjectorSlot \in Spots
    /\ \A w \in Workers : LocalSlot(w) \in Spots /\ TaskSlot(w) \in Spots /\ ChildSlot(w) \in Spots
    /\ \A p \in Producers : TodoSlot(p) \in Spots
    /\ \A s \in Spots : \/ s = InjectorSlot
                        \/ \E w \in Workers : s = LocalSlot(w) \/ s = TaskSlot(w) \/ s = ChildSlot(w)
                        \/ \E p \in Producers : s = TodoSlot(p)
  <1>1. InjectorSlot \in Spots
    BY DEF Spots, InjectorSlot
  <1>2. \A w \in Workers : LocalSlot(w) \in Spots /\ TaskSlot(w) \in Spots /\ ChildSlot(w) \in Spots
    BY DEF Spots, LocalSlot, TaskSlot, ChildSlot
  <1>3. \A p \in Producers : TodoSlot(p) \in Spots
    BY DEF Spots, TodoSlot
  <1>4. ASSUME NEW s \in Spots
        PROVE  \/ s = InjectorSlot
               \/ \E w \in Workers : s = LocalSlot(w) \/ s = TaskSlot(w) \/ s = ChildSlot(w)
               \/ \E p \in Producers : s = TodoSlot(p)
    BY DEF Spots, InjectorSlot, LocalSlot, TaskSlot, ChildSlot, TodoSlot
  <1> QED  BY <1>1, <1>2, <1>3, <1>4

\* Different names are different places.
LEMMA SlotsDiffer ==
    /\ \A w \in Workers : InjectorSlot # LocalSlot(w) /\ InjectorSlot # TaskSlot(w) /\ InjectorSlot # ChildSlot(w)
    /\ \A p \in Producers : InjectorSlot # TodoSlot(p)
    /\ \A v, w \in Workers : LocalSlot(v) # TaskSlot(w) /\ LocalSlot(v) # ChildSlot(w) /\ TaskSlot(v) # ChildSlot(w)
    /\ \A v, w \in Workers : v # w => LocalSlot(v) # LocalSlot(w) /\ TaskSlot(v) # TaskSlot(w) /\ ChildSlot(v) # ChildSlot(w)
    /\ \A w \in Workers, p \in Producers : LocalSlot(w) # TodoSlot(p) /\ TaskSlot(w) # TodoSlot(p) /\ ChildSlot(w) # TodoSlot(p)
    /\ \A p, q \in Producers : p # q => TodoSlot(p) # TodoSlot(q)
  BY DEF InjectorSlot, LocalSlot, TaskSlot, ChildSlot, TodoSlot

\* What they hold.
LEMMA SlotContents ==
    ASSUME NEW inj, NEW loc, NEW ws, NEW es
    PROVE  LET c == Contents(inj, loc, ws, es)
           IN  /\ c[InjectorSlot] = inj
               /\ \A w \in Workers : /\ c[LocalSlot(w)] = loc[w]
                                     /\ c[TaskSlot(w)] = ws[w].task
                                     /\ c[ChildSlot(w)] = ws[w].child
               /\ \A p \in Producers : c[TodoSlot(p)] = es[p].todo
  <1> DEFINE c == Contents(inj, loc, ws, es)
  <1>1. c[InjectorSlot] = inj
    BY SlotKinds DEF Contents, InjectorSlot
  <1>2. ASSUME NEW w \in Workers PROVE c[LocalSlot(w)] = loc[w] /\ c[TaskSlot(w)] = ws[w].task /\ c[ChildSlot(w)] = ws[w].child
    BY SlotKinds DEF Contents, LocalSlot, TaskSlot, ChildSlot
  <1>3. ASSUME NEW p \in Producers PROVE c[TodoSlot(p)] = es[p].todo
    BY SlotKinds DEF Contents, TodoSlot
  <1> QED  BY <1>1, <1>2, <1>3

\* Threads that hold the same tasks.
LEMMA SameContents ==
    ASSUME NEW inj, NEW loc, NEW ws, NEW es, NEW ws2, NEW es2,
           \A w \in Workers : ws2[w].task = ws[w].task /\ ws2[w].child = ws[w].child,
           \A p \in Producers : es2[p].todo = es[p].todo
    PROVE  Contents(inj, loc, ws2, es2) = Contents(inj, loc, ws, es)
  <1>1. \A s \in Spots : \/ s[1] = "injector"
                         \/ s[1] \in {"local", "task", "child"} /\ s[2] \in Workers
                         \/ s[1] = "todo" /\ s[2] \in Producers
    BY DEF Spots
  <1> QED  BY <1>1 DEF Contents

\* The places hold what is queued and what threads hold.
LEMMA AllIsInFlight == All(Now) = Queued \cup Held
  <1> DEFINE A == {wk[w].task \cup wk[w].child : w \in Workers}
             B == {ext[p].todo : p \in Producers}
  <1>0. Held = (UNION A) \cup (UNION B)
    BY DEF Held
  <1> HIDE DEF A, B
  <1>1. /\ Now[InjectorSlot] = injector
        /\ \A w \in Workers : /\ Now[LocalSlot(w)] = local[w]
                              /\ Now[TaskSlot(w)] = wk[w].task
                              /\ Now[ChildSlot(w)] = wk[w].child
        /\ \A p \in Producers : Now[TodoSlot(p)] = ext[p].todo
    BY SlotContents DEF Now
  <1>2. ASSUME NEW s \in Spots, NEW t \in Now[s] PROVE t \in Queued \cup Held
    <2>1. CASE s = InjectorSlot
      BY <1>1, <1>2, <2>1 DEF Queued
    <2>2. ASSUME NEW w \in Workers, s = LocalSlot(w) PROVE t \in Queued
      <3>1. t \in local[w]
        BY <1>1, <1>2, <2>2
      <3> QED  BY <3>1 DEF Queued
    <2>3. ASSUME NEW w \in Workers, s = TaskSlot(w) \/ s = ChildSlot(w) PROVE t \in Held
      <3>1. t \in wk[w].task \cup wk[w].child
        BY <1>1, <1>2, <2>3
      <3>2. wk[w].task \cup wk[w].child \in A
        BY DEF A
      <3> QED  BY <1>0, <3>1, <3>2
    <2>4. ASSUME NEW p \in Producers, s = TodoSlot(p) PROVE t \in Held
      <3>1. t \in ext[p].todo
        BY <1>1, <1>2, <2>4
      <3>2. ext[p].todo \in B
        BY DEF B
      <3> QED  BY <1>0, <3>1, <3>2
    <2> QED  BY <2>1, <2>2, <2>3, <2>4, SlotKinds
  <1>3. ASSUME NEW t \in Queued \cup Held PROVE \E s \in Spots : t \in Now[s]
    <2>1. CASE t \in injector
      BY <1>1, <2>1, SlotKinds
    <2>2. ASSUME NEW w \in Workers, t \in local[w] PROVE \E s \in Spots : t \in Now[s]
      BY <1>1, <2>2, SlotKinds
    <2>3. ASSUME NEW w \in Workers, t \in wk[w].task PROVE \E s \in Spots : t \in Now[s]
      BY <1>1, <2>3, SlotKinds
    <2>4. ASSUME NEW w \in Workers, t \in wk[w].child PROVE \E s \in Spots : t \in Now[s]
      BY <1>1, <2>4, SlotKinds
    <2>5. ASSUME NEW p \in Producers, t \in ext[p].todo PROVE \E s \in Spots : t \in Now[s]
      BY <1>1, <2>5, SlotKinds
    <2>6. \/ t \in injector
          \/ \E w \in Workers : t \in local[w] \/ t \in wk[w].task \/ t \in wk[w].child
          \/ \E p \in Producers : t \in ext[p].todo
      <3>1. CASE t \in Queued
        BY <3>1 DEF Queued
      <3>2. CASE t \in Held
        <4>1. (\E w \in Workers : t \in wk[w].task \cup wk[w].child) \/ \E p \in Producers : t \in ext[p].todo
          <5>1. CASE t \in UNION A
            <6>1. PICK X \in A : t \in X
              BY <5>1
            <6> QED  BY <6>1 DEF A
          <5>2. CASE t \in UNION B
            <6>1. PICK X \in B : t \in X
              BY <5>2
            <6> QED  BY <6>1 DEF B
          <5> QED  BY <1>0, <3>2, <5>1, <5>2
        <4> QED  BY <4>1
      <3> QED  BY <1>3, <3>1, <3>2
    <2> QED  BY <2>1, <2>2, <2>3, <2>4, <2>5, <2>6
  <1> QED  BY <1>2, <1>3 DEF All

\* One worker changes.
WorkersAfter(w, x) == DOMAIN wk' = Workers /\ wk'[w] = x /\ \A v \in Workers \ {w} : wk'[v] = wk[v]

\* A worker goes on with what it holds.
LEMMA Goes ==
    ASSUME ExecInv, NEW w \in Workers, NEW pc \in Pcs, Goto(w, pc), pc \in Running <=> wk[w].pc \in Running,
           wk[w].pc \notin Spawning
    PROVE  /\ WorkersAfter(w, [wk[w] EXCEPT !.pc = pc])
           /\ \A v \in Workers : WorkerOK(wk'[v])
           /\ wk'[w].pc = pc
           /\ \A v \in Workers : wk'[v].task = wk[v].task /\ wk'[v].child = wk[v].child
  <1>1. DOMAIN wk = Workers /\ \A v \in Workers : WorkerOK(wk[v])
    BY DEF ExecInv, ThreadsOK
  <1>2. wk' = [wk EXCEPT ![w].pc = pc]
    BY DEF Goto
  <1> DEFINE x == [wk[w] EXCEPT !.pc = pc]
  <1>3. wk' = [wk EXCEPT ![w] = x]
    BY <1>2
  <1>4. WorkerOK(wk[w])
    BY <1>1
  <1>5. x.pc = pc /\ x.task = wk[w].task /\ x.child = wk[w].child /\ WorkerOK(x)
    BY <1>4 DEF WorkerOK, Pcs
  <1> HIDE DEF x
  <1>6. DOMAIN wk' = Workers /\ wk'[w] = x /\ \A v \in Workers \ {w} : wk'[v] = wk[v]
    BY <1>1, <1>3
  <1>7. \A v \in Workers : v = w \/ v \in Workers \ {w}
    OBVIOUS
  <1>8. WorkersAfter(w, x)
    BY <1>6 DEF WorkersAfter
  <1>9. \A v \in Workers : WorkerOK(wk'[v])
    BY <1>1, <1>5, <1>6, <1>7
  <1>10. \A v \in Workers : wk'[v].task = wk[v].task /\ wk'[v].child = wk[v].child
    BY <1>5, <1>6, <1>7
  <1> QED  BY <1>5, <1>6, <1>8, <1>9, <1>10 DEF x

\* Nothing about the tasks changes.
LEMMA TasksStay ==
    ASSUME ExecInv, UNCHANGED <<count, queueVars, historyVars>>,
           \A v \in Workers : wk'[v].task = wk[v].task /\ wk'[v].child = wk[v].child,
           \A p \in Producers : ext'[p].todo = ext[p].todo
    PROVE  TasksOK'
  <1>1. injector' = injector /\ local' = local /\ count' = count /\ accepted' = accepted /\ ran' = ran /\ crashed' = crashed
    BY DEF queueVars, historyVars
  <1>2. Contents(injector', local', wk', ext') = Contents(injector, local, wk, ext)
    BY <1>1, SameContents
  <1>3. Now' = Now
    BY <1>2 DEF Now
  <1>4. Apart(Now) /\ count = Cardinality(All(Now)) /\ accepted = All(Now) \cup ran \cup crashed /\ accepted \subseteq Tasks
    BY DEF ExecInv, TasksOK
  <1>5. Apart(Now') /\ All(Now') = All(Now)
    BY <1>3, <1>4
  <1> QED  BY <1>1, <1>4, <1>5 DEF TasksOK

-----------------------------------------------------------------------------
(* Steps that move no task                                                 *)

\* A worker that neither takes, spawns nor ends a task.
LEMMA IdleStep ==
    ASSUME ExecInv, NEW w \in Workers,
           \/ CheckDone(w) \/ InjectorFails(w) \/ CheckState(w) \/ Unparked(w) \/ ParkTimeout(w)
           \/ RecordPanic(w) \/ SignalDone(w) \/ WakeAllAfterDone(w) \/ WakeOne(w)
           \/ (PopLocal(w) /\ local[w] = {} /\ Goto(w, "inject") /\ UNCHANGED local)
           \/ (StealVictim(w) /\ Goto(w, "check") /\ UNCHANGED local)
    PROVE  ExecInv'
  <1> DEFINE old == wk[w].pc
  <1>1. PICK pc \in Pcs :
            /\ Goto(w, pc)
            /\ pc \in Running <=> old \in Running
            /\ old \notin Spawning
            /\ pc \in Signalling => old = "panic" \/ (count = 0 /\ ~accepting)
            /\ pc # "panic"
            /\ old # "exit"
            /\ old = "panic" => panicSlot' = TRUE
    BY DEF CheckDone, InjectorFails, CheckState, Unparked, ParkTimeout, RecordPanic, SignalDone, WakeAllAfterDone,
           WakeOne, PopLocal, StealVictim, Pcs, Running, Signalling, Elsewhere, Spawning, Spinning
  <1>2. /\ WorkersAfter(w, [wk[w] EXCEPT !.pc = pc])
        /\ \A v \in Workers : WorkerOK(wk'[v])
        /\ wk'[w].pc = pc
        /\ \A v \in Workers : wk'[v].task = wk[v].task /\ wk'[v].child = wk[v].child
    BY <1>1, Goes
  <1>3. UNCHANGED <<count, queueVars, historyVars, ext, joiner, stopper, accepting>>
    BY DEF CheckDone, InjectorFails, CheckState, Unparked, ParkTimeout, RecordPanic, SignalDone, WakeAllAfterDone,
           WakeOne, PopLocal, StealVictim, queueVars, callerVars
  <1>4. /\ panicSlot' \in BOOLEAN /\ (panicSlot = TRUE => panicSlot' = TRUE)
        /\ done' \in BOOLEAN /\ (done' => done \/ old \in Signalling)
    <2>1. panicSlot' = panicSlot \/ panicSlot' = TRUE
      BY DEF CheckDone, InjectorFails, CheckState, Unparked, ParkTimeout, RecordPanic, SignalDone,
             WakeAllAfterDone, WakeOne, PopLocal, StealVictim
    <2>2. done' = done \/ (done' = TRUE /\ old \in Signalling)
      BY DEF CheckDone, InjectorFails, CheckState, Unparked, ParkTimeout, RecordPanic, SignalDone,
             WakeAllAfterDone, WakeOne, PopLocal, StealVictim, Signalling
    <2>3. panicSlot \in BOOLEAN /\ done \in BOOLEAN
      BY DEF ExecInv, ThreadsOK
    <2>4. panicSlot' \in BOOLEAN
      BY <2>1, <2>3, Zenon
    <2>5. done' \in BOOLEAN
      BY <2>2, <2>3, Zenon
    <2>6. panicSlot = TRUE => panicSlot' = TRUE
      BY <2>1
    <2>7. done' => done \/ old \in Signalling
      BY <2>2
    <2> QED  BY <2>4, <2>5, <2>6, <2>7
  <1>5. nextUnpark' \in Workers
    <2>1. nextUnpark' = nextUnpark \/ nextUnpark' = (nextUnpark + 1) % WorkerCount
      BY DEF CheckDone, InjectorFails, CheckState, Unparked, ParkTimeout, RecordPanic, SignalDone,
             WakeAllAfterDone, WakeOne, PopLocal, StealVictim, wakeVars, UnparkOnes, UnparkAll
    <2>2. nextUnpark \in 0..(WorkerCount - 1) /\ WorkerCount \in Nat \ {0}
      BY ExecutorAssumption DEF ExecInv, ThreadsOK, Workers
    <2>3. (nextUnpark + 1) % WorkerCount \in 0..(WorkerCount - 1)
      BY <2>2
    <2> QED  BY <2>1, <2>2, <2>3 DEF Workers
  <1>6. ThreadsOK'
    BY <1>2, <1>3, <1>4, <1>5 DEF ExecInv, ThreadsOK, WorkersAfter, queueVars
  <1>7. TasksOK'
    BY <1>2, <1>3, TasksStay
  <1>8. \A v \in Workers \ {w} : wk'[v] = wk[v]
    BY <1>2 DEF WorkersAfter
  <1>9. EndOK'
    <2>1. old = "panic" => crashed # {}
      BY DEF ExecInv, PanicOK
    <2> QED  BY <1>1, <1>2, <1>3, <1>4, <1>8, <2>1 DEF ExecInv, EndOK, historyVars
  <1>10. PanicOK'
    <2>1. crashed' = crashed /\ joiner' = joiner
      BY <1>3 DEF historyVars
    <2>2. joiner \notin {"returned", "rethrown"}
      BY <1>1 DEF ExecInv, PanicOK
    <2>3. \A v \in Workers : wk'[v].pc = "panic" => crashed # {}
      BY <1>1, <1>2, <1>8 DEF ExecInv, PanicOK
    <2>4. ASSUME crashed # {} PROVE panicSlot' = TRUE \/ \E v \in Workers : wk'[v].pc = "panic"
      <3>1. panicSlot = TRUE \/ \E v \in Workers : wk[v].pc = "panic"
        BY <2>2, <2>4 DEF ExecInv, PanicOK
      <3>2. CASE panicSlot = TRUE
        BY <1>4, <3>2
      <3>3. ASSUME NEW v \in Workers, wk[v].pc = "panic" PROVE panicSlot' = TRUE \/ \E x \in Workers : wk'[x].pc = "panic"
        BY <1>1, <1>8, <3>3
      <3> QED  BY <3>1, <3>2, <3>3
    <2> QED  BY <2>1, <2>2, <2>3, <2>4 DEF PanicOK
  <1> QED  BY <1>6, <1>7, <1>9, <1>10 DEF ExecInv

-----------------------------------------------------------------------------
(* Steps that move tasks                                                   *)

\* The rest of the invariant for a step of one worker that neither opens, closes nor ends anything.
LEMMA WorkerStepKeeps ==
    ASSUME ExecInv, NEW w \in Workers, NEW x, WorkersAfter(w, x), WorkerOK(x), TasksOK',
           wk[w].pc # "exit", wk[w].pc # "panic", x.pc # "panic",
           injector' \subseteq Tasks, local' \in [Workers -> SUBSET Tasks],
           UNCHANGED <<accepting, done, nextUnpark, callerVars, panicSlot, crashed>>,
           x.pc \in Signalling => count' = 0 /\ ~accepting,
           count' # 0 => count # 0 \/ accepting
    PROVE  ExecInv'
  <1>1. \A v \in Workers \ {w} : wk'[v] = wk[v]
    BY DEF WorkersAfter
  <1>2. wk'[w] = x /\ DOMAIN wk' = Workers
    BY DEF WorkersAfter
  <1>3. \A v \in Workers : v = w \/ v \in Workers \ {w}
    OBVIOUS
  <1>4. \A v \in Workers : WorkerOK(wk'[v])
    BY <1>1, <1>2, <1>3 DEF ExecInv, ThreadsOK
  <1>5. ThreadsOK'
    BY <1>2, <1>4 DEF ExecInv, ThreadsOK, callerVars
  <1>6. EndOK'
    BY <1>1, <1>2, <1>3 DEF ExecInv, EndOK, callerVars
  <1>7. PanicOK'
    <2>1. crashed' = crashed /\ joiner' = joiner /\ panicSlot' = panicSlot
      BY DEF callerVars
    <2>2. joiner \notin {"returned", "rethrown"}
      BY DEF ExecInv, PanicOK
    <2>3. \A v \in Workers : wk'[v].pc = "panic" <=> wk[v].pc = "panic"
      BY <1>1, <1>2, <1>3
    <2> QED  BY <2>1, <2>2, <2>3 DEF ExecInv, PanicOK
  <1> QED  BY <1>5, <1>6, <1>7 DEF ExecInv

\* The tasks after a step, told by the places.
LEMMA TasksAfter ==
    ASSUME ExecInv, Apart(Now'), All(Now') = All(Now), UNCHANGED <<count, accepted, ran, crashed>>
    PROVE  TasksOK'
  BY DEF ExecInv, TasksOK

\* What the places hold before a step ...
LEMMA SlotsNow ==
    /\ Now[InjectorSlot] = injector
    /\ \A w \in Workers : Now[LocalSlot(w)] = local[w] /\ Now[TaskSlot(w)] = wk[w].task /\ Now[ChildSlot(w)] = wk[w].child
    /\ \A p \in Producers : Now[TodoSlot(p)] = ext[p].todo
  BY SlotContents DEF Now

\* ... and after it.
LEMMA SlotsNext ==
    /\ Now'[InjectorSlot] = injector'
    /\ \A w \in Workers : Now'[LocalSlot(w)] = local'[w] /\ Now'[TaskSlot(w)] = wk'[w].task /\ Now'[ChildSlot(w)] = wk'[w].child
    /\ \A p \in Producers : Now'[TodoSlot(p)] = ext'[p].todo
  <1> DEFINE inj == injector'
             loc == local'
             ws == wk'
             es == ext'
             c == Contents(inj, loc, ws, es)
  <1> HIDE DEF inj, loc, ws, es
  <1>1. /\ c[InjectorSlot] = inj
        /\ \A w \in Workers : c[LocalSlot(w)] = loc[w] /\ c[TaskSlot(w)] = ws[w].task /\ c[ChildSlot(w)] = ws[w].child
        /\ \A p \in Producers : c[TodoSlot(p)] = es[p].todo
    BY SlotContents
  <1> QED  BY <1>1 DEF Now, inj, loc, ws, es

\* The places a step leaves alone.
LEMMA OtherSlots ==
    ASSUME NEW S,
           InjectorSlot \in S \/ injector' = injector,
           \A w \in Workers : LocalSlot(w) \in S \/ local'[w] = local[w],
           \A w \in Workers : TaskSlot(w) \in S \/ wk'[w].task = wk[w].task,
           \A w \in Workers : ChildSlot(w) \in S \/ wk'[w].child = wk[w].child,
           \A p \in Producers : TodoSlot(p) \in S \/ ext'[p].todo = ext[p].todo
    PROVE  \A s \in Spots \ S : Now'[s] = Now[s]
  <1> SUFFICES ASSUME NEW s \in Spots \ S PROVE Now'[s] = Now[s]
    OBVIOUS
  <1>1. CASE s = InjectorSlot
    BY <1>1, SlotsNow, SlotsNext
  <1>2. ASSUME NEW w \in Workers, s = LocalSlot(w) PROVE Now'[s] = Now[s]
    <2>1. Now[LocalSlot(w)] = local[w] /\ Now'[LocalSlot(w)] = local'[w]
      BY SlotsNow, SlotsNext
    <2>2. local'[w] = local[w]
      BY <1>2
    <2> QED  BY <1>2, <2>1, <2>2
  <1>3. ASSUME NEW w \in Workers, s = TaskSlot(w) PROVE Now'[s] = Now[s]
    <2>1. Now[TaskSlot(w)] = wk[w].task /\ Now'[TaskSlot(w)] = wk'[w].task
      BY SlotsNow, SlotsNext
    <2>2. wk'[w].task = wk[w].task
      BY <1>3
    <2> QED  BY <1>3, <2>1, <2>2
  <1>4. ASSUME NEW w \in Workers, s = ChildSlot(w) PROVE Now'[s] = Now[s]
    <2>1. Now[ChildSlot(w)] = wk[w].child /\ Now'[ChildSlot(w)] = wk'[w].child
      BY SlotsNow, SlotsNext
    <2>2. wk'[w].child = wk[w].child
      BY <1>4
    <2> QED  BY <1>4, <2>1, <2>2
  <1>5. ASSUME NEW p \in Producers, s = TodoSlot(p) PROVE Now'[s] = Now[s]
    BY <1>5, SlotsNow, SlotsNext
  <1> QED  BY <1>1, <1>2, <1>3, <1>4, <1>5, SlotKinds

\* A worker takes a task from a deque.
LEMMA TakeStep ==
    ASSUME ExecInv, NEW w \in Workers, wk[w].pc \in {"local", "steal"},
           NEW v \in Workers, NEW t \in local[v], Took(w, t), local' = [local EXCEPT ![v] = @ \ {t}],
           UNCHANGED <<accepting, count, done, injector, wakeVars, callerVars, panicSlot, historyVars>>
    PROVE  ExecInv'
  <1>1. DOMAIN wk = Workers /\ WorkerOK(wk[w]) /\ local \in [Workers -> SUBSET Tasks] /\ injector \subseteq Tasks
    BY DEF ExecInv, ThreadsOK
  <1> DEFINE x == [wk[w] EXCEPT !.pc = "run", !.task = {t}]
             from == LocalSlot(v)
             to == TaskSlot(w)
  <1>2. wk' = [wk EXCEPT ![w] = x]
    BY DEF Took
  <1>3. wk[w].task = {} /\ wk[w].child = {}
    BY <1>1 DEF WorkerOK, Running, Spawning
  <1>4. /\ x.pc = "run" /\ x.task = {t} /\ x.child = wk[w].child /\ x.hoard = wk[w].hoard
        /\ x \in [pc : Pcs, task : SUBSET Tasks, child : SUBSET Tasks, hoard : Nat]
    BY <1>1 DEF WorkerOK, Pcs, Running
  <1> HIDE DEF x
  <1>5. WorkerOK(x)
    BY <1>1, <1>3, <1>4 DEF WorkerOK, Pcs, Running
  <1>6. WorkersAfter(w, x)
    BY <1>1, <1>2 DEF WorkersAfter
  <1>7. local' \in [Workers -> SUBSET Tasks] /\ local'[v] = local[v] \ {t} /\ \A u \in Workers \ {v} : local'[u] = local[u]
    BY <1>1
  <1>8. injector' = injector /\ ext' = ext
    BY DEF callerVars
  <1>9. Apart(Now)
    BY DEF ExecInv, TasksOK
  <1>10. wk'[w].task = {t} /\ \A u \in Workers : wk'[u].child = wk[u].child /\ (u # w => wk'[u].task = wk[u].task)
    BY <1>4, <1>6 DEF WorkersAfter
  <1>11. from \in Spots /\ to \in Spots /\ from # to
    BY SlotKinds, SlotsDiffer
  <1>12. {t} \subseteq Now[from] /\ Now'[from] = Now[from] \ {t} /\ Now'[to] = Now[to] \cup {t}
    BY <1>3, <1>7, <1>10, SlotsNow, SlotsNext
  <1>13. \A s \in Spots \ {from, to} : Now'[s] = Now[s]
    BY <1>7, <1>8, <1>10, OtherSlots
  <1> HIDE DEF from, to
  <1>14. Apart(Now') /\ All(Now') = All(Now)
    BY <1>9, <1>11, <1>12, <1>13, Moved
  <1>15. TasksOK'
    BY <1>14, TasksAfter DEF historyVars
  <1>16. x.pc \notin Signalling /\ x.pc # "panic"
    BY <1>4 DEF Signalling
  <1>17. UNCHANGED <<nextUnpark, crashed>>
    BY DEF wakeVars, historyVars
  <1> QED  BY <1>1, <1>5, <1>6, <1>7, <1>8, <1>15, <1>16, <1>17, WorkerStepKeeps

\* A worker takes a batch from the injector: one task to run, the others for its deque.
LEMMA StealStep ==
    ASSUME ExecInv, NEW w \in Workers, StealInjector(w)
    PROVE  ExecInv'
  <1>1. DOMAIN wk = Workers /\ WorkerOK(wk[w]) /\ local \in [Workers -> SUBSET Tasks] /\ injector \subseteq Tasks
    BY DEF ExecInv, ThreadsOK
  <1>2. PICK batch \in SUBSET injector : \E t \in batch :
            Took(w, t) /\ injector' = injector \ batch /\ local' = [local EXCEPT ![w] = @ \cup (batch \ {t})]
    BY DEF StealInjector
  <1>3. PICK t \in batch : Took(w, t) /\ injector' = injector \ batch /\ local' = [local EXCEPT ![w] = @ \cup (batch \ {t})]
    BY <1>2
  <1>4. wk[w].pc = "inject" /\ UNCHANGED <<accepting, count, done, wakeVars, callerVars, panicSlot, historyVars>>
    BY DEF StealInjector
  <1> DEFINE x == [wk[w] EXCEPT !.pc = "run", !.task = {t}]
             rest == batch \ {t}
             one == InjectorSlot
             two == LocalSlot(w)
             three == TaskSlot(w)
             m == [s \in Spots |-> IF s = one THEN Now[s] \ rest ELSE IF s = two THEN Now[s] \cup rest ELSE Now[s]]
  <1>5. wk' = [wk EXCEPT ![w] = x]
    BY <1>3 DEF Took
  <1>6. wk[w].task = {} /\ wk[w].child = {}
    BY <1>1, <1>4 DEF WorkerOK, Running, Spawning
  <1>7. /\ x.pc = "run" /\ x.task = {t} /\ x.child = wk[w].child /\ x.hoard = wk[w].hoard
        /\ x \in [pc : Pcs, task : SUBSET Tasks, child : SUBSET Tasks, hoard : Nat]
    BY <1>1, <1>2 DEF WorkerOK, Pcs, Running
  <1> HIDE DEF x
  <1>8. WorkerOK(x)
    BY <1>1, <1>6, <1>7 DEF WorkerOK, Pcs, Running
  <1>9. WorkersAfter(w, x)
    BY <1>1, <1>5 DEF WorkersAfter
  <1>10. /\ local'[w] = local[w] \cup rest /\ \A u \in Workers \ {w} : local'[u] = local[u]
         /\ local' \in [Workers -> SUBSET Tasks] /\ injector' \subseteq Tasks
    BY <1>1, <1>2, <1>3
  <1>11. wk'[w].task = {t} /\ \A u \in Workers : wk'[u].child = wk[u].child /\ (u # w => wk'[u].task = wk[u].task)
    BY <1>7, <1>9 DEF WorkersAfter
  <1>12. one \in Spots /\ two \in Spots /\ three \in Spots /\ one # two /\ one # three /\ two # three
    BY SlotKinds, SlotsDiffer
  <1>13. Now[one] = injector /\ Now[two] = local[w] /\ Now[three] = {}
    BY <1>6, SlotsNow
  <1>14. Now'[one] = injector \ batch /\ Now'[two] = local[w] \cup rest /\ Now'[three] = {t}
    BY <1>3, <1>10, <1>11, SlotsNext
  <1>15. \A s \in Spots \ {one, two, three} : Now'[s] = Now[s]
    <2>1. ext' = ext
      BY <1>4 DEF callerVars
    <2> QED  BY <1>10, <1>11, <2>1, OtherSlots
  <1> HIDE DEF one, two, three
  <1>16. Apart(m) /\ All(m) = All(Now)
    <2>1. Apart(Now) /\ rest \subseteq Now[one]
      BY <1>2, <1>13 DEF ExecInv, TasksOK
    <2>2. m[one] = Now[one] \ rest /\ m[two] = Now[two] \cup rest /\ \A s \in Spots \ {one, two} : m[s] = Now[s]
      BY <1>12
    <2> HIDE DEF m, rest
    <2> QED  BY <1>12, <2>1, <2>2, Moved
  <1>17. Apart(Now') /\ All(Now') = All(m)
    <2>1. m[one] = injector \ rest /\ m[two] = local[w] \cup rest /\ m[three] = {}
          /\ \A s \in Spots \ {one, two, three} : m[s] = Now[s]
      BY <1>12, <1>13
    <2>2. {t} \subseteq m[one] /\ Now'[one] = m[one] \ {t} /\ Now'[three] = m[three] \cup {t}
      BY <1>2, <1>14, <2>1
    <2>3. \A s \in Spots \ {one, three} : Now'[s] = m[s]
      BY <1>14, <1>15, <2>1
    <2> HIDE DEF m
    <2> QED  BY <1>12, <1>16, <2>2, <2>3, Moved
  <1>18. TasksOK'
    BY <1>4, <1>16, <1>17, TasksAfter DEF historyVars
  <1>19. x.pc \notin Signalling /\ x.pc # "panic"
    BY <1>7 DEF Signalling
  <1>20. UNCHANGED <<nextUnpark, crashed>>
    BY <1>4 DEF wakeVars, historyVars
  <1> QED  BY <1>4, <1>8, <1>9, <1>10, <1>18, <1>19, <1>20, WorkerStepKeeps

\* A child is queued.
LEMMA QueueStep ==
    ASSUME ExecInv, NEW w \in Workers, PushLocal(w) \/ PushGlobal(w)
    PROVE  ExecInv'
  <1>1. DOMAIN wk = Workers /\ WorkerOK(wk[w]) /\ local \in [Workers -> SUBSET Tasks] /\ injector \subseteq Tasks
    BY DEF ExecInv, ThreadsOK
  <1> DEFINE child == wk[w].child
  <1>2. PICK pc \in {"run", "wakeOne"}, hoard \in Nat :
            /\ hoard < HoardThreshold
            /\ wk' = [wk EXCEPT ![w] = [wk[w] EXCEPT !.pc = pc, !.child = {}, !.hoard = hoard]]
    <2>1. wk[w].hoard \in Nat /\ wk[w].hoard < HoardThreshold /\ HoardThreshold \in Nat \ {0}
      BY <1>1, ExecutorAssumption DEF WorkerOK
    <2>2. CASE PushLocal(w)
      <3> DEFINE full == wk[w].hoard + 1 >= HoardThreshold
                 pc == IF full THEN "wakeOne" ELSE "run"
                 hoard == IF full THEN 0 ELSE wk[w].hoard + 1
      <3>1. wk' = [wk EXCEPT ![w] = [wk[w] EXCEPT !.pc = pc, !.child = {}, !.hoard = hoard]]
        BY <2>2 DEF PushLocal
      <3>2. pc \in {"run", "wakeOne"} /\ hoard \in Nat /\ hoard < HoardThreshold
        BY <2>1
      <3> HIDE DEF pc, hoard
      <3> QED  BY <3>1, <3>2
    <2>3. CASE PushGlobal(w)
      <3> DEFINE y == [wk[w] EXCEPT !.pc = "wakeOne", !.child = {}]
                 hoard == wk[w].hoard
      <3>1. wk' = [wk EXCEPT ![w] = y]
        BY <2>3 DEF PushGlobal
      <3>2. y = [wk[w] EXCEPT !.pc = "wakeOne", !.child = {}, !.hoard = hoard]
        BY <1>1 DEF WorkerOK
      <3> HIDE DEF y
      <3> QED  BY <2>1, <3>1, <3>2
    <2> QED  BY <2>2, <2>3
  <1> DEFINE x == [wk[w] EXCEPT !.pc = pc, !.child = {}, !.hoard = hoard]
  <1>3. /\ wk[w].pc \in Spawning /\ UNCHANGED <<accepting, count, done, wakeVars, callerVars, panicSlot, historyVars>>
        /\ \/ injector' = injector /\ local' = [local EXCEPT ![w] = @ \cup child]
           \/ local' = local /\ injector' = injector \cup child
    BY DEF PushLocal, PushGlobal, Spawning
  <1>4. /\ x.pc = pc /\ x.task = wk[w].task /\ x.child = {} /\ x.hoard = hoard
        /\ x \in [pc : Pcs, task : SUBSET Tasks, child : SUBSET Tasks, hoard : Nat]
    BY <1>1, <1>2 DEF WorkerOK, Pcs, Running
  <1>5. wk' = [wk EXCEPT ![w] = x]
    BY <1>2
  <1> HIDE DEF x
  <1>6. WorkerOK(x)
    <2>1. wk[w].task # {} /\ pc \in Running
      BY <1>1, <1>3 DEF WorkerOK, Running, Spawning
    <2> QED  BY <1>1, <1>2, <1>4, <2>1 DEF WorkerOK, Pcs
  <1>7. WorkersAfter(w, x)
    BY <1>1, <1>5 DEF WorkersAfter
  <1>8. child \subseteq Tasks
    BY <1>1 DEF WorkerOK
  <1>9. wk'[w].child = {} /\ \A u \in Workers : wk'[u].task = wk[u].task /\ (u # w => wk'[u].child = wk[u].child)
    BY <1>4, <1>7 DEF WorkersAfter
  <1>10. ext' = ext
    BY <1>3 DEF callerVars
  <1> DEFINE from == ChildSlot(w)
  <1>11. Apart(Now) /\ from \in Spots /\ Now[from] = child /\ Now'[from] = {}
    BY <1>9, SlotKinds, SlotsNow, SlotsNext DEF ExecInv, TasksOK
  <1>12. Now'[from] = Now[from] \ child /\ child \subseteq Now[from]
    BY <1>11
  <1>13. Apart(Now') /\ All(Now') = All(Now) /\ injector' \subseteq Tasks /\ local' \in [Workers -> SUBSET Tasks]
    <2>1. CASE injector' = injector /\ local' = [local EXCEPT ![w] = @ \cup child]
      <3> DEFINE to == LocalSlot(w)
      <3>1. local' \in [Workers -> SUBSET Tasks] /\ local'[w] = local[w] \cup child /\ \A u \in Workers \ {w} : local'[u] = local[u]
        BY <1>1, <1>8, <2>1
      <3>2. to \in Spots /\ from # to /\ Now'[to] = Now[to] \cup child
        BY <3>1, SlotKinds, SlotsDiffer, SlotsNow, SlotsNext
      <3>3. \A s \in Spots \ {from, to} : Now'[s] = Now[s]
        BY <1>9, <1>10, <2>1, <3>1, OtherSlots
      <3> HIDE DEF from, to, child
      <3>4. Apart(Now') /\ All(Now') = All(Now)
        BY <1>11, <1>12, <3>2, <3>3, Moved
      <3> QED  BY <1>1, <2>1, <3>1, <3>4
    <2>2. CASE local' = local /\ injector' = injector \cup child
      <3> DEFINE to == InjectorSlot
      <3>1. to \in Spots /\ from # to /\ Now'[to] = Now[to] \cup child
        BY <2>2, SlotKinds, SlotsDiffer, SlotsNow, SlotsNext
      <3>2. \A s \in Spots \ {from, to} : Now'[s] = Now[s]
        BY <1>9, <1>10, <2>2, OtherSlots
      <3>3. injector' \subseteq Tasks /\ local' \in [Workers -> SUBSET Tasks]
        BY <1>1, <1>8, <2>2
      <3> HIDE DEF from, to, child
      <3>4. Apart(Now') /\ All(Now') = All(Now)
        BY <1>11, <1>12, <3>1, <3>2, Moved
      <3> QED  BY <3>3, <3>4
    <2> QED  BY <1>3, <2>1, <2>2
  <1>14. TasksOK'
    BY <1>3, <1>13, TasksAfter DEF historyVars
  <1>15. x.pc \notin Signalling /\ x.pc # "panic" /\ wk[w].pc # "exit" /\ wk[w].pc # "panic"
    BY <1>2, <1>3, <1>4 DEF Signalling, Spawning
  <1>16. UNCHANGED <<nextUnpark, crashed>>
    BY <1>3 DEF wakeVars, historyVars
  <1> QED  BY <1>3, <1>6, <1>7, <1>13, <1>14, <1>15, <1>16, WorkerStepKeeps

-----------------------------------------------------------------------------
(* Steps that count tasks in and out                                       *)

\* The count is a number, and tasks in the places are counted.
LEMMA InFlightFinite ==
    ASSUME ExecInv
    PROVE  IsFiniteSet(All(Now)) /\ count \in Nat /\ (count = 0 => All(Now) = {})
  <1>1. All(Now) \subseteq Tasks /\ count = Cardinality(All(Now))
    BY DEF ExecInv, TasksOK
  <1>2. IsFiniteSet(All(Now))
    BY <1>1, ExecutorAssumption, FS_Subset
  <1> QED  BY <1>1, <1>2, FS_CardinalityType, FS_EmptySet

\* While a worker runs a task the count is not zero.
LEMMA RunningCounted ==
    ASSUME ExecInv, NEW w \in Workers, wk[w].pc \in Running
    PROVE  count # 0 /\ \E t : wk[w].task = {t} /\ t \in All(Now)
  <1>1. WorkerOK(wk[w])
    BY DEF ExecInv, ThreadsOK
  <1>2. PICK t \in wk[w].task : wk[w].task = {t}
    BY <1>1 DEF WorkerOK
  <1>3. Now[TaskSlot(w)] = wk[w].task /\ TaskSlot(w) \in Spots
    BY SlotsNow, SlotKinds
  <1>4. t \in All(Now)
    BY <1>2, <1>3 DEF All
  <1> QED  BY <1>2, <1>4, InFlightFinite

\* New tasks are counted as they come into a place.
LEMMA CountedIn ==
    ASSUME ExecInv, NEW to \in Spots, NEW X, X \subseteq Fresh,
           Now'[to] = Now[to] \cup X, \A s \in Spots \ {to} : Now'[s] = Now[s],
           count' = count + Cardinality(X), accepted' = accepted \cup X, UNCHANGED <<ran, crashed>>
    PROVE  TasksOK' /\ Cardinality(X) \in Nat
  <1>1. Apart(Now) /\ count = Cardinality(All(Now)) /\ accepted = All(Now) \cup ran \cup crashed /\ accepted \subseteq Tasks
    BY DEF ExecInv, TasksOK
  <1>2. X \subseteq Tasks /\ X \cap All(Now) = {}
    BY <1>1 DEF Fresh
  <1>3. Apart(Now') /\ All(Now') = All(Now) \cup X
    <2> DEFINE c == Now
               d == Now'
    <2>1. Apart(c) /\ (\A t \in X : t \notin All(c)) /\ \A t : t \in d[to] <=> t \in c[to] \/ t \in X
      BY <1>1, <1>2
    <2>2. \A s \in Spots : s # to => d[s] = c[s]
      OBVIOUS
    <2> HIDE DEF c, d
    <2>3. Apart(d) /\ \A t : t \in All(d) <=> t \in All(c) \/ t \in X
      BY <2>1, <2>2, Added
    <2>4. All(d) = All(c) \cup X
      BY <2>3
    <2> QED  BY <2>3, <2>4 DEF c, d
  <1>4. IsFiniteSet(All(Now)) /\ IsFiniteSet(X)
    BY <1>2, InFlightFinite, ExecutorAssumption, FS_Subset
  <1>5. Cardinality(All(Now) \cup X) = Cardinality(All(Now)) + Cardinality(X)
    <2>1. All(Now) \cap X = {}
      BY <1>2
    <2>2. Cardinality(All(Now) \cup X) = Cardinality(All(Now)) + Cardinality(X) - Cardinality(All(Now) \cap X)
      BY <1>4, FS_Union
    <2>3. Cardinality({}) = 0
      BY FS_EmptySet
    <2>4. Cardinality(All(Now) \cap X) = 0
      BY <2>1, <2>3
    <2>5. Cardinality(All(Now)) \in Nat /\ Cardinality(X) \in Nat
      BY <1>4, FS_CardinalityType
    <2> DEFINE a == Cardinality(All(Now))
               b == Cardinality(X)
               e == Cardinality(All(Now) \cap X)
               u == Cardinality(All(Now) \cup X)
    <2> HIDE DEF a, b, e, u
    <2>6. u = a + b - e /\ e = 0 /\ a \in Nat /\ b \in Nat
      BY <2>2, <2>4, <2>5 DEF a, b, e, u
    <2>7. u = a + b
      BY <2>6
    <2> QED  BY <2>7 DEF u, a, b
  <1>6. count' = Cardinality(All(Now'))
    BY <1>1, <1>3, <1>5
  <1>7. accepted' = All(Now') \cup ran' \cup crashed' /\ accepted' \subseteq Tasks
    BY <1>1, <1>2, <1>3
  <1> QED  BY <1>3, <1>4, <1>6, <1>7, FS_CardinalityType DEF TasksOK

\* spawn_local and spawn_global.
LEMMA SpawnStep ==
    ASSUME ExecInv, NEW w \in Workers, CountChild(w)
    PROVE  ExecInv'
  <1>1. DOMAIN wk = Workers /\ WorkerOK(wk[w]) /\ local \in [Workers -> SUBSET Tasks] /\ injector \subseteq Tasks
    BY DEF ExecInv, ThreadsOK
  <1>2. PICK t \in Fresh, pc \in {"pushLocal", "pushGlobal"} :
            wk' = [wk EXCEPT ![w].pc = pc, ![w].child = {t}] /\ accepted' = accepted \cup {t}
    BY DEF CountChild
  <1>3. wk[w].pc = "run" /\ count' = count + 1
        /\ UNCHANGED <<accepting, done, queueVars, wakeVars, callerVars, panicSlot, ran, crashed>>
    BY DEF CountChild
  <1> DEFINE x == [wk[w] EXCEPT !.pc = pc, !.child = {t}]
             to == ChildSlot(w)
  <1>4. wk' = [wk EXCEPT ![w] = x]
    BY <1>2
  <1>5. wk[w].task # {} /\ wk[w].child = {} /\ t \in Tasks
    BY <1>1, <1>3 DEF WorkerOK, Running, Spawning, Fresh
  <1>6. /\ x.pc = pc /\ x.task = wk[w].task /\ x.child = {t} /\ x.hoard = wk[w].hoard
        /\ x \in [pc : Pcs, task : SUBSET Tasks, child : SUBSET Tasks, hoard : Nat]
    BY <1>1, <1>2, <1>5 DEF WorkerOK, Pcs, Running
  <1> HIDE DEF x
  <1>7. WorkerOK(x)
    BY <1>1, <1>2, <1>5, <1>6 DEF WorkerOK, Pcs, Running, Spawning
  <1>8. WorkersAfter(w, x)
    BY <1>1, <1>4 DEF WorkersAfter
  <1>9. wk'[w].child = {t} /\ \A u \in Workers : wk'[u].task = wk[u].task /\ (u # w => wk'[u].child = wk[u].child)
    BY <1>6, <1>8 DEF WorkersAfter
  <1>10. injector' = injector /\ local' = local /\ ext' = ext
    BY <1>3 DEF queueVars, callerVars
  <1>11. to \in Spots /\ Now'[to] = Now[to] \cup {t}
    BY <1>5, <1>9, SlotKinds, SlotsNow, SlotsNext
  <1>12. \A s \in Spots \ {to} : Now'[s] = Now[s]
    BY <1>9, <1>10, OtherSlots
  <1>13. Cardinality({t}) = 1
    BY FS_Singleton
  <1> DEFINE X == {t}
  <1>14. X \subseteq Fresh /\ Now'[to] = Now[to] \cup X /\ count' = count + Cardinality(X) /\ accepted' = accepted \cup X
    BY <1>2, <1>3, <1>11, <1>13
  <1> HIDE DEF X, to
  <1>15. TasksOK'
    BY <1>3, <1>11, <1>12, <1>14, CountedIn
  <1>16. count # 0
    BY <1>3, RunningCounted DEF Running
  <1>17. x.pc \notin Signalling /\ x.pc # "panic"
    BY <1>2, <1>6 DEF Signalling
  <1>18. nextUnpark' = nextUnpark
    BY <1>3 DEF wakeVars
  <1> QED  BY <1>1, <1>3, <1>7, <1>8, <1>10, <1>15, <1>16, <1>17, <1>18, WorkerStepKeeps

\* A task leaves its worker.
LEMMA CountedOut ==
    ASSUME ExecInv, NEW w \in Workers, wk[w].pc = "run", NEW pc \in Pcs, pc \notin Running,
           wk' = [wk EXCEPT ![w].pc = pc, ![w].task = {}], count' = count - 1,
           UNCHANGED <<queueVars, callerVars, accepted>>,
           ran' \cup crashed' = ran \cup crashed \cup wk[w].task
    PROVE  /\ WorkersAfter(w, [wk[w] EXCEPT !.pc = pc, !.task = {}])
           /\ WorkerOK([wk[w] EXCEPT !.pc = pc, !.task = {}])
           /\ [wk[w] EXCEPT !.pc = pc, !.task = {}].pc = pc
           /\ TasksOK'
  <1>1. DOMAIN wk = Workers /\ WorkerOK(wk[w])
    BY DEF ExecInv, ThreadsOK
  <1> DEFINE x == [wk[w] EXCEPT !.pc = pc, !.task = {}]
             from == TaskSlot(w)
  <1>2. wk' = [wk EXCEPT ![w] = x]
    OBVIOUS
  <1>3. /\ x.pc = pc /\ x.task = {} /\ x.child = wk[w].child /\ x.hoard = wk[w].hoard
        /\ x \in [pc : Pcs, task : SUBSET Tasks, child : SUBSET Tasks, hoard : Nat]
    BY <1>1 DEF WorkerOK, Pcs
  <1>4. wk[w].child = {}
    BY <1>1 DEF WorkerOK, Spawning
  <1> HIDE DEF x
  <1>5. WorkerOK(x)
    BY <1>1, <1>3, <1>4 DEF WorkerOK, Pcs
  <1>6. WorkersAfter(w, x)
    BY <1>1, <1>2 DEF WorkersAfter
  <1>7. wk'[w].task = {} /\ \A u \in Workers : wk'[u].child = wk[u].child /\ (u # w => wk'[u].task = wk[u].task)
    BY <1>3, <1>6 DEF WorkersAfter
  <1>8. PICK t : wk[w].task = {t} /\ t \in All(Now)
    BY RunningCounted DEF Running
  <1>9. from \in Spots /\ Now[from] = {t} /\ Now'[from] = {}
    BY <1>7, <1>8, SlotKinds, SlotsNow, SlotsNext
  <1>10. injector' = injector /\ local' = local /\ ext' = ext
    BY DEF queueVars, callerVars
  <1>11. \A s \in Spots \ {from} : Now'[s] = Now[s]
    BY <1>7, <1>10, OtherSlots
  <1>12. Apart(Now) /\ count = Cardinality(All(Now)) /\ accepted = All(Now) \cup ran \cup crashed /\ accepted \subseteq Tasks
    BY DEF ExecInv, TasksOK
  <1> HIDE DEF from
  <1>14. Apart(Now') /\ All(Now') = All(Now) \ {t}
    <2> DEFINE c == Now
               d == Now'
    <2>1. Apart(c) /\ from \in Spots /\ d[from] = {} /\ c[from] = {t}
      BY <1>9, <1>12
    <2>2. \A s \in Spots : s # from => d[s] = c[s]
      BY <1>11
    <2> HIDE DEF c, d
    <2>3. Apart(d) /\ \A y : y \in All(d) <=> y \in All(c) /\ y \notin c[from]
      BY <2>1, <2>2, Removed
    <2>4. All(d) = All(c) \ {t}
      BY <2>1, <2>3
    <2> QED  BY <2>3, <2>4 DEF c, d
  <1>15. count' = Cardinality(All(Now'))
    <2>1. Cardinality(All(Now) \ {t}) = Cardinality(All(Now)) - 1
      BY <1>8, InFlightFinite, FS_RemoveElement
    <2> QED  BY <1>12, <1>14, <2>1
  <1>16. accepted' = All(Now') \cup ran' \cup crashed' /\ accepted' \subseteq Tasks
    BY <1>8, <1>12, <1>14
  <1>17. TasksOK'
    BY <1>14, <1>15, <1>16 DEF TasksOK
  <1> QED  BY <1>3, <1>5, <1>6, <1>17 DEF x

\* A task ends.
LEMMA FinishStep ==
    ASSUME ExecInv, NEW w \in Workers, FinishTask(w)
    PROVE  ExecInv'
  <1> DEFINE pc == IF count = 1 /\ ~accepting THEN "topFlag" ELSE "top"
             x == [wk[w] EXCEPT !.pc = pc, !.task = {}]
  <1>1. /\ wk[w].pc = "run" /\ wk' = [wk EXCEPT ![w].pc = pc, ![w].task = {}] /\ count' = count - 1
        /\ ran' = ran \cup wk[w].task
        /\ UNCHANGED <<accepting, done, queueVars, wakeVars, callerVars, panicSlot, accepted, crashed>>
    BY DEF FinishTask
  <1>2. /\ pc \in Pcs /\ pc \notin Running /\ pc # "panic"
        /\ pc \in Signalling => count = 1 /\ ~accepting
    BY DEF Pcs, Running, Signalling, Elsewhere
  <1>3. count # 0 /\ count \in Nat
    BY <1>1, RunningCounted, InFlightFinite DEF Running
  <1> HIDE DEF pc
  <1>4. WorkersAfter(w, x) /\ WorkerOK(x) /\ x.pc = pc /\ TasksOK'
    <2>1. ran' \cup crashed' = ran \cup crashed \cup wk[w].task
      BY <1>1
    <2> QED  BY <1>1, <1>2, <2>1, CountedOut
  <1> HIDE DEF x
  <1>5. injector' \subseteq Tasks /\ local' \in [Workers -> SUBSET Tasks] /\ nextUnpark' = nextUnpark
    BY <1>1 DEF ExecInv, ThreadsOK, queueVars, wakeVars
  <1>6. x.pc \in Signalling => count' = 0 /\ ~accepting
    BY <1>1, <1>2, <1>4
  <1> QED  BY <1>1, <1>2, <1>3, <1>4, <1>5, <1>6, WorkerStepKeeps

\* A task panics.
LEMMA PanicStep ==
    ASSUME ExecInv, NEW w \in Workers, PanicTask(w)
    PROVE  ExecInv'
  <1> DEFINE pc == "panic"
             x == [wk[w] EXCEPT !.pc = pc, !.task = {}]
  <1>1. /\ wk[w].pc = "run" /\ wk' = [wk EXCEPT ![w].pc = pc, ![w].task = {}] /\ count' = count - 1
        /\ crashed' = crashed \cup wk[w].task
        /\ UNCHANGED <<accepting, done, queueVars, wakeVars, callerVars, panicSlot, accepted, ran>>
    BY DEF PanicTask
  <1>2. pc \in Pcs /\ pc \notin Running /\ pc = "panic"
    BY DEF Pcs, Running, Elsewhere
  <1> HIDE DEF pc
  <1>3. WorkersAfter(w, x) /\ WorkerOK(x) /\ x.pc = pc /\ TasksOK'
    <2>1. ran' \cup crashed' = ran \cup crashed \cup wk[w].task
      BY <1>1
    <2> QED  BY <1>1, <1>2, <2>1, CountedOut
  <1> HIDE DEF x
  <1>4. \A v \in Workers : v = w \/ wk'[v] = wk[v]
    BY <1>3 DEF WorkersAfter
  <1>5. ThreadsOK'
    BY <1>1, <1>3, <1>4 DEF ExecInv, ThreadsOK, WorkersAfter, queueVars, wakeVars, callerVars
  <1>6. crashed' # {}
    BY <1>1, RunningCounted DEF Running
  <1>7. EndOK'
    BY <1>6 DEF EndOK
  <1>8. wk'[w].pc = "panic"
    BY <1>2, <1>3 DEF WorkersAfter
  <1>9. joiner' = joiner /\ joiner \notin {"returned", "rethrown"}
    BY <1>1 DEF ExecInv, PanicOK, callerVars
  <1>10. PanicOK'
    BY <1>6, <1>8, <1>9 DEF PanicOK
  <1> QED  BY <1>3, <1>5, <1>7, <1>10 DEF ExecInv

-----------------------------------------------------------------------------
(* Handles, shutdown and join                                              *)

\* spawn_batch counts its tasks.
LEMMA ReserveStep ==
    ASSUME ExecInv, NEW p \in Producers, Reserve(p)
    PROVE  ExecInv'
  <1>1. /\ ext[p].todo = {} /\ accepting
        /\ UNCHANGED <<accepting, done, queueVars, wakeVars, wk, joiner, stopper, panicSlot, ran, crashed>>
    BY DEF Reserve
  <1>2. PICK batch \in (SUBSET Fresh) \ {{}} :
            /\ count' = count + Cardinality(batch)
            /\ accepted' = accepted \cup batch
            /\ ext' = [ext EXCEPT ![p] = [todo |-> batch, wake |-> Cardinality(batch)]]
    BY DEF Reserve
  <1> DEFINE to == TodoSlot(p)
  <1>3. ext \in [Producers -> [todo : SUBSET Tasks, wake : Nat]] /\ batch \subseteq Fresh /\ batch \subseteq Tasks
    BY DEF ExecInv, ThreadsOK, Fresh
  <1>4. ext'[p].todo = batch /\ \A q \in Producers \ {p} : ext'[q] = ext[q]
    BY <1>2, <1>3
  <1>5. injector' = injector /\ local' = local /\ wk' = wk
    BY <1>1 DEF queueVars
  <1>6. to \in Spots /\ Now'[to] = Now[to] \cup batch
    BY <1>1, <1>4, SlotKinds, SlotsNow, SlotsNext
  <1>7. \A s \in Spots \ {to} : Now'[s] = Now[s]
    BY <1>4, <1>5, OtherSlots
  <1> HIDE DEF to
  <1>8. TasksOK' /\ Cardinality(batch) \in Nat
    BY <1>1, <1>2, <1>3, <1>6, <1>7, CountedIn
  <1>9. ext' \in [Producers -> [todo : SUBSET Tasks, wake : Nat]]
    BY <1>2, <1>3, <1>8
  <1>10. ThreadsOK'
    BY <1>1, <1>5, <1>9 DEF ExecInv, ThreadsOK, wakeVars
  <1>11. EndOK'
    BY <1>1 DEF ExecInv, EndOK
  <1>12. PanicOK'
    BY <1>1 DEF ExecInv, PanicOK
  <1> QED  BY <1>8, <1>10, <1>11, <1>12 DEF ExecInv

\* A counted task is pushed to the injector.
LEMMA InjectStep ==
    ASSUME ExecInv, NEW p \in Producers, Inject(p)
    PROVE  ExecInv'
  <1>1. PICK t \in ext[p].todo : injector' = injector \cup {t} /\ ext' = [ext EXCEPT ![p].todo = @ \ {t}]
    BY DEF Inject
  <1>2. UNCHANGED <<accepting, count, done, local, wakeVars, wk, joiner, stopper, panicSlot, historyVars>>
    BY DEF Inject
  <1>3. ext \in [Producers -> [todo : SUBSET Tasks, wake : Nat]]
    BY DEF ExecInv, ThreadsOK
  <1>4. /\ ext' \in [Producers -> [todo : SUBSET Tasks, wake : Nat]]
        /\ ext'[p].todo = ext[p].todo \ {t} /\ \A q \in Producers \ {p} : ext'[q] = ext[q]
    BY <1>1, <1>3
  <1>5. t \in Tasks /\ local' = local /\ wk' = wk
    BY <1>1, <1>2, <1>3
  <1> DEFINE from == TodoSlot(p)
             to == InjectorSlot
             X == {t}
  <1>6. from \in Spots /\ to \in Spots /\ from # to
    BY SlotKinds, SlotsDiffer
  <1>7. X \subseteq Now[from] /\ Now'[from] = Now[from] \ X /\ Now'[to] = Now[to] \cup X
    BY <1>1, <1>4, SlotsNow, SlotsNext
  <1>8. \A s \in Spots \ {from, to} : Now'[s] = Now[s]
    BY <1>4, <1>5, OtherSlots
  <1>9. Apart(Now)
    BY DEF ExecInv, TasksOK
  <1> HIDE DEF from, to, X
  <1>10. Apart(Now') /\ All(Now') = All(Now)
    BY <1>6, <1>7, <1>8, <1>9, Moved
  <1>11. TasksOK'
    BY <1>2, <1>10, TasksAfter DEF historyVars
  <1>12. injector' \subseteq Tasks
    BY <1>1, <1>5 DEF ExecInv, ThreadsOK
  <1>13. ThreadsOK'
    BY <1>2, <1>4, <1>12 DEF ExecInv, ThreadsOK, wakeVars
  <1>14. EndOK'
    BY <1>2 DEF ExecInv, EndOK, historyVars
  <1>15. PanicOK'
    BY <1>2 DEF ExecInv, PanicOK, historyVars
  <1> QED  BY <1>11, <1>13, <1>14, <1>15 DEF ExecInv

\* The permits for a batch.
LEMMA WakeBatchStep ==
    ASSUME ExecInv, NEW p \in Producers, WakeForBatch(p)
    PROVE  ExecInv'
  <1>1. ext' = [ext EXCEPT ![p].wake = 0] /\ UnparkN(ext[p].wake)
        /\ UNCHANGED <<accepting, count, done, queueVars, wk, joiner, stopper, panicSlot, historyVars>>
    BY DEF WakeForBatch
  <1>2. ext \in [Producers -> [todo : SUBSET Tasks, wake : Nat]] /\ ext[p].wake \in Nat
    BY DEF ExecInv, ThreadsOK
  <1>3. /\ ext' \in [Producers -> [todo : SUBSET Tasks, wake : Nat]]
        /\ \A q \in Producers : ext'[q].todo = ext[q].todo
    BY <1>1, <1>2
  <1>4. nextUnpark' \in Workers
    <2>1. nextUnpark' = nextUnpark \/ nextUnpark' = (nextUnpark + ext[p].wake) % WorkerCount
      BY <1>1 DEF UnparkN, UnparkAll, UnparkOnes
    <2>2. nextUnpark \in 0..(WorkerCount - 1) /\ WorkerCount \in Nat \ {0}
      BY ExecutorAssumption DEF ExecInv, ThreadsOK, Workers
    <2>3. (nextUnpark + ext[p].wake) % WorkerCount \in 0..(WorkerCount - 1)
      BY <1>2, <2>2
    <2> QED  BY <2>1, <2>2, <2>3 DEF Workers
  <1>5. TasksOK'
    BY <1>1, <1>3, TasksStay
  <1>6. ThreadsOK'
    BY <1>1, <1>3, <1>4 DEF ExecInv, ThreadsOK, queueVars
  <1>7. EndOK'
    BY <1>1 DEF ExecInv, EndOK, historyVars
  <1>8. PanicOK'
    BY <1>1 DEF ExecInv, PanicOK, historyVars
  <1> QED  BY <1>5, <1>6, <1>7, <1>8 DEF ExecInv

\* shutdown() and join().
LEMMA CallerStep ==
    ASSUME ExecInv, StopGate \/ StopStep \/ JoinGate \/ JoinStep
    PROVE  ExecInv'
  <1>1. UNCHANGED <<count, queueVars, wk, ext, historyVars, nextUnpark>>
    BY DEF StopGate, StopStep, StopFlag, StopWake, JoinGate, JoinStep, JoinFlag, JoinWake, JoinReturn, wakeVars, UnparkAll
  <1>2. TasksOK'
    BY <1>1, TasksStay
  <1>3. accepting \in BOOLEAN /\ done \in BOOLEAN /\ panicSlot \in BOOLEAN
    BY DEF ExecInv, ThreadsOK
  <1>4. accepting' = accepting \/ accepting' = FALSE
    BY DEF StopGate, StopStep, StopFlag, StopWake, JoinGate, JoinStep, JoinFlag, JoinWake, JoinReturn
  <1>5. done' = done \/ done' = TRUE
    BY DEF StopGate, StopStep, StopFlag, StopWake, JoinGate, JoinStep, JoinFlag, JoinWake, JoinReturn
  <1>6. panicSlot' = panicSlot \/ panicSlot' = FALSE
    BY DEF StopGate, StopStep, StopFlag, StopWake, JoinGate, JoinStep, JoinFlag, JoinWake, JoinReturn
  <1>7. accepting' \in BOOLEAN
    BY <1>3, <1>4, Zenon
  <1>8. done' \in BOOLEAN
    BY <1>3, <1>5, Zenon
  <1>9. panicSlot' \in BOOLEAN
    BY <1>3, <1>6, Zenon
  <1>10. ThreadsOK'
    BY <1>1, <1>7, <1>8, <1>9 DEF ExecInv, ThreadsOK, queueVars
  <1>11. EndOK'
    BY <1>1 DEF ExecInv, EndOK, historyVars, StopGate, StopStep, StopFlag, StopWake, JoinGate, JoinStep, JoinFlag,
                JoinWake, JoinReturn
  <1>12. PanicOK'
    <2>1. crashed' = crashed /\ wk' = wk
      BY <1>1 DEF historyVars
    <2>2. CASE JoinReturn
      <3>1. CASE panicSlot = TRUE
        <4>1. joiner' = "rethrown" /\ \A w \in Workers : wk[w].pc = "exit"
          BY <2>2, <3>1 DEF JoinReturn
        <4> QED  BY <2>1, <4>1 DEF PanicOK
      <3>2. CASE panicSlot # TRUE
        <4>1. joiner' = "returned" /\ joiner = "wait" /\ \A w \in Workers : wk[w].pc = "exit"
          BY <1>3, <2>2, <3>2 DEF JoinReturn
        <4>2. crashed = {}
          BY <3>2, <4>1 DEF ExecInv, PanicOK
        <4> QED  BY <2>1, <4>1, <4>2 DEF PanicOK
      <3> QED  BY <3>1, <3>2
    <2>3. CASE ~JoinReturn
      <3>1. panicSlot' = panicSlot /\ (joiner' = joiner \/ (joiner \notin {"returned", "rethrown"} /\ joiner' \notin {"returned", "rethrown"}))
        BY <2>3 DEF StopGate, StopStep, StopFlag, StopWake, JoinGate, JoinStep, JoinFlag, JoinWake
      <3> QED  BY <2>1, <3>1 DEF ExecInv, PanicOK
    <2> QED  BY <2>2, <2>3
  <1> QED  BY <1>2, <1>10, <1>11, <1>12 DEF ExecInv

-----------------------------------------------------------------------------
(* The executor is safe                                                    *)

\* A fresh executor.
LEMMA ExecInitially == ExecInit => ExecInv
  <1> SUFFICES ASSUME ExecInit PROVE ExecInv
    OBVIOUS
  <1>1. /\ DOMAIN wk = Workers /\ \A w \in Workers : wk[w] = [pc |-> "top", task |-> {}, child |-> {}, hoard |-> 0]
        /\ ext = [p \in Producers |-> [todo |-> {}, wake |-> 0]]
        /\ injector = {} /\ local = [w \in Workers |-> {}] /\ count = 0 /\ accepted = {} /\ ran = {} /\ crashed = {}
        /\ done = FALSE /\ accepting = TRUE /\ panicSlot = FALSE /\ joiner = "no" /\ stopper = "no" /\ nextUnpark = 0
    BY DEF ExecInit
  <1>2. \A w \in Workers : WorkerOK(wk[w]) /\ wk[w].task = {} /\ wk[w].child = {} /\ wk[w].pc = "top"
    BY <1>1, ExecutorAssumption DEF WorkerOK, Pcs, Running, Signalling, Elsewhere, Spawning
  <1>3. ext \in [Producers -> [todo : SUBSET Tasks, wake : Nat]] /\ \A p \in Producers : ext[p].todo = {}
    BY <1>1
  <1>4. 0 \in Workers
    BY ExecutorAssumption DEF Workers
  <1>5. ThreadsOK
    BY <1>1, <1>2, <1>3, <1>4 DEF ThreadsOK
  <1>6. All(Now) = {}
    <2>1. Queued = {}
      BY <1>1 DEF Queued
    <2>2. Held = {}
      BY <1>2, <1>3 DEF Held
    <2> QED  BY <2>1, <2>2, AllIsInFlight
  <1>7. Apart(Now)
    <2>1. \A s \in Spots : Now[s] = {}
      BY <1>6 DEF All
    <2> QED  BY <2>1 DEF Apart
  <1>8. TasksOK
    <2>1. Cardinality(All(Now)) = 0
      BY <1>6, FS_EmptySet
    <2> QED  BY <1>1, <1>6, <1>7, <2>1 DEF TasksOK
  <1>9. EndOK
    BY <1>1, <1>2 DEF EndOK, Signalling
  <1>10. PanicOK
    BY <1>1, <1>2 DEF PanicOK
  <1> QED  BY <1>5, <1>8, <1>9, <1>10 DEF ExecInv

\* Every step keeps the invariant.
LEMMA ExecStep == ASSUME ExecInv, [ExecNext]_execVars PROVE ExecInv'
  <1>1. ASSUME NEW w \in Workers, WorkerStep(w) \/ ParkTimeout(w) PROVE ExecInv'
    <2>1. CASE PopLocal(w)
      <3>1. CASE local[w] = {} /\ Goto(w, "inject") /\ UNCHANGED local
        BY <2>1, <3>1, IdleStep
      <3>2. ASSUME NEW t \in local[w], Took(w, t), local' = [local EXCEPT ![w] = @ \ {t}] PROVE ExecInv'
        BY <2>1, <3>2, TakeStep DEF PopLocal
      <3> QED  BY <2>1, <3>1, <3>2 DEF PopLocal
    <2>2. CASE StealVictim(w)
      <3>1. CASE Goto(w, "check") /\ UNCHANGED local
        BY <2>2, <3>1, IdleStep
      <3>2. ASSUME NEW v \in Workers \ {w}, NEW t \in local[v], Took(w, t), local' = [local EXCEPT ![v] = @ \ {t}] PROVE ExecInv'
        BY <2>2, <3>2, TakeStep DEF StealVictim
      <3> QED  BY <2>2, <3>1, <3>2 DEF StealVictim
    <2>3. CASE StealInjector(w)
      BY <2>3, StealStep
    <2>4. CASE PushLocal(w) \/ PushGlobal(w)
      BY <2>4, QueueStep
    <2>5. CASE CountChild(w)
      BY <2>5, SpawnStep
    <2>6. CASE FinishTask(w)
      BY <2>6, FinishStep
    <2>7. CASE PanicTask(w)
      BY <2>7, PanicStep
    <2>8. CASE \/ CheckDone(w) \/ InjectorFails(w) \/ CheckState(w) \/ Unparked(w) \/ ParkTimeout(w)
               \/ RecordPanic(w) \/ SignalDone(w) \/ WakeAllAfterDone(w) \/ WakeOne(w)
      BY <2>8, IdleStep
    <2> QED  BY <1>1, <2>1, <2>2, <2>3, <2>4, <2>5, <2>6, <2>7, <2>8 DEF WorkerStep
  <1>2. ASSUME NEW p \in Producers, Reserve(p) \/ ProducerStep(p) PROVE ExecInv'
    BY <1>2, ReserveStep, InjectStep, WakeBatchStep DEF ProducerStep
  <1>3. CASE StopGate \/ StopStep \/ JoinGate \/ JoinStep
    BY <1>3, CallerStep
  <1>4. CASE UNCHANGED execVars
    <2>1. UNCHANGED <<accepting, count, done, injector, local, nextUnpark, wk, ext, joiner, stopper, panicSlot, accepted, ran, crashed>>
      BY <1>4 DEF execVars
    <2>2. TasksOK'
      BY <2>1, TasksStay DEF queueVars, historyVars
    <2> QED  BY <2>1, <2>2 DEF ExecInv, ThreadsOK, EndOK, PanicOK
  <1> QED  BY <1>1, <1>2, <1>3, <1>4 DEF ExecNext

\* The invariant holds throughout.
LEMMA ExecInvariance == ExecSpec => []ExecInv
  BY ExecInitially, ExecStep, PTL DEF ExecSpec

\* What the invariant says of the executor.
LEMMA InvIsSafe == ASSUME ExecInv PROVE ExecSafe
  <1>1. IsFiniteSet(All(Now)) /\ count \in Nat /\ (count = 0 => All(Now) = {})
    BY InFlightFinite
  <1>2. All(Now) \subseteq Tasks /\ count = Cardinality(All(Now)) /\ accepted = All(Now) \cup ran \cup crashed
    BY DEF ExecInv, TasksOK
  <1>3. count <= Cardinality(Tasks) /\ Cardinality(Tasks) \in Nat
    BY <1>2, ExecutorAssumption, FS_Subset, FS_CardinalityType
  <1>4. ExecTypeOK
    <2>1. count \in 0..Cardinality(Tasks)
      BY <1>1, <1>3
    <2> QED  BY <2>1 DEF ExecInv, ThreadsOK, ExecTypeOK, WorkerOK
  <1>5. CountExact
    BY <1>2, AllIsInFlight DEF CountExact
  <1>6. DoneMeansDrained
    BY <1>1, <1>2 DEF ExecInv, EndOK, DoneMeansDrained
  <1>7. PanicsPropagate
    BY DEF ExecInv, PanicOK, PanicsPropagate
  <1> QED  BY <1>4, <1>5, <1>6, <1>7 DEF ExecSafe

\* Whatever spawns, steals, panics, shutdown() and join() interleave, the in-flight
\* count is the number of tasks under way, the done flag means that all accepted
\* tasks have run, and no panic is swallowed (executor.rs worker_step, join).
THEOREM ExecutorIsSafe == ExecSpec => []ExecSafe
  BY ExecInvariance, InvIsSafe, PTL

-----------------------------------------------------------------------------
(* Sums                                                                    *)

\* What the recursive function behind SumFunction(f) satisfies.
SumsUp(g, f) ==
    g = [s \in SUBSET DOMAIN f |-> IF s = {} THEN 0
                                   ELSE LET x == CHOOSE x \in s : TRUE IN f[x] + g[s \ {x}]]

\* The definition of the community module, unfolded.
LEMMA SumIs == ASSUME NEW f PROVE SumFunction(f) = (CHOOSE g : SumsUp(g, f))[DOMAIN f]
  BY DEF SumFunction, SumFunctionOnSet, FoldFunctionOnSet, MapThenFoldSet, SumsUp

\* A sum without recursion: the units themselves, each with its owner.
Units(f, s) == UNION {{x} \X (1..f[x]) : x \in s}

\* Every set of natural numbers has a least one.
LEMMA LeastNumber ==
    ASSUME NEW S, S \subseteq Nat, S # {}
    PROVE  \E n \in S : \A m \in S : n <= m
  <1> DEFINE R == OpToRel(<, Nat)
  <1>1. IsWellFoundedOn(R, Nat)
    BY NatLessThanWellFounded
  <1>2. \A a, b \in Nat : a < b => <<a, b>> \in R
    BY DEF OpToRel
  <1> HIDE DEF R
  <1>3. PICK n \in S : \A m \in S : ~ (<<m, n>> \in R)
    BY <1>1, WFMin
  <1>4. \A m \in S : ~(m < n)
    BY <1>2, <1>3, Zenon
  <1>5. \A m \in S : n <= m
    BY <1>4
  <1> QED  BY <1>5

\* One owner more.
LEMMA UnitsAdd ==
    ASSUME NEW f, NEW s, NEW x \in s, f[x] \in Nat, IsFiniteSet(Units(f, s \ {x}))
    PROVE  /\ IsFiniteSet(Units(f, s))
           /\ Cardinality(Units(f, s)) = f[x] + Cardinality(Units(f, s \ {x}))
           /\ Cardinality(Units(f, s)) \in Nat /\ Cardinality(Units(f, s \ {x})) \in Nat
  <1> DEFINE A == Units(f, s \ {x})
             B == {x} \X (1..f[x])
  <1>1. Units(f, s) = A \cup B /\ A \cap B = {}
    BY DEF Units
  <1>2. IsFiniteSet(B) /\ Cardinality(B) = f[x]
    <2> DEFINE n == f[x]
               I == 1..n
               X == {x}
    <2>1. n \in Nat
      OBVIOUS
    <2>2. IsFiniteSet(X) /\ Cardinality(X) = 1
      BY FS_Singleton
    <2> HIDE DEF n
    <2>3. IsFiniteSet(I) /\ Cardinality(I) = n
      BY <2>1, FS_Interval
    <2> HIDE DEF I, X
    <2>4. IsFiniteSet(X \X I) /\ Cardinality(X \X I) = n
      BY <2>1, <2>2, <2>3, FS_Product
    <2> QED  BY <2>4 DEF n, I, X
  <1>3. f[x] \in Nat
    OBVIOUS
  <1> HIDE DEF A, B
  <1>4. IsFiniteSet(A) /\ Cardinality(A) \in Nat
    BY FS_CardinalityType DEF A
  <1>5. IsFiniteSet(A \cup B) /\ Cardinality(A \cup B) = Cardinality(A) + Cardinality(B) - Cardinality(A \cap B)
    BY <1>2, <1>4, FS_Union
  <1>6. Cardinality(A \cap B) = 0
    BY <1>1, FS_EmptySet
  <1>7. Cardinality(A \cup B) = f[x] + Cardinality(A) /\ Cardinality(A \cup B) \in Nat
    BY <1>2, <1>3, <1>4, <1>5, <1>6
  <1> QED  BY <1>1, <1>4, <1>5, <1>7 DEF A

\* Nobody owns nothing.
LEMMA UnitsNone == ASSUME NEW f PROVE Units(f, {}) = {}
  BY DEF Units

\* The units of finitely many owners are finitely many.
LEMMA UnitsFinite ==
    ASSUME NEW s, IsFiniteSet(s), NEW f, \A x \in s : f[x] \in Nat
    PROVE  IsFiniteSet(Units(f, s))
  <1> DEFINE Bad == {n \in Nat : \E t \in SUBSET s : Cardinality(t) = n /\ ~IsFiniteSet(Units(f, t))}
  <1> SUFFICES ASSUME ~IsFiniteSet(Units(f, s)) PROVE FALSE
    OBVIOUS
  <1>1. Cardinality(s) \in Bad
    BY FS_CardinalityType
  <1>2. PICK n \in Bad : \A m \in Bad : n <= m
    <2> HIDE DEF Bad
    <2>1. Bad \subseteq Nat
      BY DEF Bad
    <2> QED  BY <1>1, <2>1, LeastNumber
  <1>3. PICK t \in SUBSET s : Cardinality(t) = n /\ ~IsFiniteSet(Units(f, t))
    BY <1>2
  <1>4. IsFiniteSet(t)
    BY FS_Subset
  <1>5. t # {}
    BY <1>3, UnitsNone, FS_EmptySet
  <1>6. PICK x \in t : TRUE
    BY <1>5
  <1>7. Cardinality(t \ {x}) = n - 1 /\ n \in Nat /\ n - 1 \in Nat
    <2>1. Cardinality(t \ {x}) = n - 1 /\ IsFiniteSet(t \ {x})
      BY <1>3, <1>4, <1>6, FS_RemoveElement
    <2>2. Cardinality(t \ {x}) \in Nat
      BY <2>1, FS_CardinalityType
    <2> QED  BY <1>2, <2>1, <2>2
  <1>8. n - 1 \notin Bad
    BY <1>2, <1>7
  <1>9. IsFiniteSet(Units(f, t \ {x}))
    BY <1>7, <1>8
  <1> QED  BY <1>3, <1>6, <1>9, UnitsAdd

\* The fold is the number of units.
LEMMA SumCounts ==
    ASSUME NEW f, IsFiniteSet(DOMAIN f), \A x \in DOMAIN f : f[x] \in Nat
    PROVE  SumFunction(f) = Cardinality(Units(f, DOMAIN f))
  <1> DEFINE D == DOMAIN f
             h == [s \in SUBSET D |-> Cardinality(Units(f, s))]
             g == CHOOSE g : SumsUp(g, f)
             Bad == {n \in Nat : \E t \in SUBSET D : Cardinality(t) = n /\ g[t] # h[t]}
  <1>1. ASSUME NEW s \in SUBSET D, s # {}
        PROVE  LET x == CHOOSE x \in s : TRUE IN x \in s /\ h[s] = f[x] + h[s \ {x}]
    <2> DEFINE x == CHOOSE x \in s : TRUE
    <2>1. x \in s
      BY <1>1
    <2> HIDE DEF x
    <2>2. IsFiniteSet(Units(f, s \ {x})) /\ f[x] \in Nat
      <3>1. IsFiniteSet(s \ {x})
        BY FS_Subset
      <3> QED  BY <2>1, <3>1, UnitsFinite
    <2>3. Cardinality(Units(f, s)) = f[x] + Cardinality(Units(f, s \ {x}))
      BY <2>1, <2>2, UnitsAdd
    <2> QED  BY <2>1, <2>3 DEF x
  <1>2. h[{}] = 0
    BY UnitsNone, FS_EmptySet
  <1>3. SumsUp(h, f)
    <2>1. ASSUME NEW s \in SUBSET D
          PROVE  h[s] = IF s = {} THEN 0 ELSE LET x == CHOOSE x \in s : TRUE IN f[x] + h[s \ {x}]
      <3> HIDE DEF h
      <3> QED  BY <1>1, <1>2
    <2>2. h = [s \in SUBSET D |-> h[s]]
      OBVIOUS
    <2> HIDE DEF h
    <2> QED  BY <2>1, <2>2 DEF SumsUp
  <1>4. SumsUp(g, f)
    <2> HIDE DEF h
    <2> QED  BY <1>3
  <1> HIDE DEF g, h
  <1>5. ASSUME NEW s \in SUBSET D
        PROVE  g[s] = IF s = {} THEN 0 ELSE LET x == CHOOSE x \in s : TRUE IN f[x] + g[s \ {x}]
    BY <1>4 DEF SumsUp
  <1>6. Bad = {}
    <2> SUFFICES ASSUME Bad # {} PROVE FALSE
      OBVIOUS
    <2>1. PICK n \in Bad : \A m \in Bad : n <= m
      <3>1. Bad \subseteq Nat
        OBVIOUS
      <3> HIDE DEF Bad
      <3> QED  BY <3>1, LeastNumber
    <2>2. PICK t \in SUBSET D : Cardinality(t) = n /\ g[t] # h[t]
      BY <2>1
    <2>3. t # {}
      BY <1>2, <1>5, <2>2
    <2> DEFINE x == CHOOSE x \in t : TRUE
    <2>4. x \in t /\ h[t] = f[x] + h[t \ {x}] /\ g[t] = f[x] + g[t \ {x}]
      BY <1>1, <1>5, <2>3
    <2> HIDE DEF x
    <2>5. Cardinality(t \ {x}) = n - 1 /\ n \in Nat /\ n - 1 \in Nat
      <3>1. IsFiniteSet(t)
        BY FS_Subset
      <3>2. Cardinality(t \ {x}) = n - 1 /\ IsFiniteSet(t \ {x})
        BY <2>2, <2>4, <3>1, FS_RemoveElement
      <3>3. Cardinality(t \ {x}) \in Nat
        BY <3>2, FS_CardinalityType
      <3> QED  BY <2>1, <3>2, <3>3
    <2>6. n - 1 \notin Bad
      BY <2>1, <2>5
    <2>7. g[t \ {x}] = h[t \ {x}]
      BY <2>5, <2>6
    <2> QED  BY <2>2, <2>4, <2>7
  <1>7. g[D] = h[D]
    BY <1>6, FS_CardinalityType
  <1>8. SumFunction(f) = g[D]
    BY SumIs DEF g
  <1> QED  BY <1>7, <1>8 DEF h

\* A function that a sum is taken of.
Summable(f) == IsFiniteSet(DOMAIN f) /\ \A x \in DOMAIN f : f[x] \in Nat

\* A sum is a number, no smaller than any of its terms.
LEMMA SumAtLeast ==
    ASSUME NEW f, Summable(f)
    PROVE  SumFunction(f) \in Nat /\ \A x \in DOMAIN f : f[x] <= SumFunction(f)
  <1> DEFINE D == DOMAIN f
  <1>1. SumFunction(f) = Cardinality(Units(f, D))
    BY SumCounts DEF Summable
  <1>2. IsFiniteSet(Units(f, D))
    BY UnitsFinite DEF Summable
  <1>3. SumFunction(f) \in Nat
    BY <1>1, <1>2, FS_CardinalityType
  <1>4. ASSUME NEW x \in D PROVE f[x] <= SumFunction(f)
    <2>1. IsFiniteSet(D \ {x}) /\ f[x] \in Nat
      BY FS_Subset DEF Summable
    <2>2. IsFiniteSet(Units(f, D \ {x}))
      BY <2>1, UnitsFinite DEF Summable
    <2>3. /\ Cardinality(Units(f, D)) = f[x] + Cardinality(Units(f, D \ {x}))
          /\ Cardinality(Units(f, D \ {x})) \in Nat
      BY <2>1, <2>2, UnitsAdd
    <2> DEFINE c == Cardinality(Units(f, D \ {x}))
    <2> HIDE DEF c
    <2>4. SumFunction(f) = f[x] + c /\ c \in Nat
      BY <1>1, <2>3 DEF c
    <2> QED  BY <2>1, <2>4
  <1> QED  BY <1>3, <1>4

\* One term changes.
LEMMA SumChanges ==
    ASSUME NEW f, Summable(f), NEW x \in DOMAIN f, NEW h, DOMAIN h = DOMAIN f, h[x] \in Nat,
           \A y \in DOMAIN f : y # x => h[y] = f[y]
    PROVE  Summable(h) /\ SumFunction(h) + f[x] = SumFunction(f) + h[x]
  <1> DEFINE D == DOMAIN f
             c == Cardinality(Units(f, D \ {x}))
  <1>1. Summable(h) /\ f[x] \in Nat /\ IsFiniteSet(D \ {x})
    BY FS_Subset DEF Summable
  <1>2. Units(h, D \ {x}) = Units(f, D \ {x})
    BY DEF Units
  <1>3. IsFiniteSet(Units(f, D \ {x})) /\ IsFiniteSet(Units(h, D \ {x}))
    BY <1>1, <1>2, UnitsFinite DEF Summable
  <1>4. Cardinality(Units(f, D)) = f[x] + c /\ c \in Nat
    BY <1>1, <1>3, UnitsAdd
  <1>5. Cardinality(Units(h, D)) = h[x] + c
    BY <1>2, <1>3, UnitsAdd
  <1>6. SumFunction(f) = Cardinality(Units(f, D)) /\ SumFunction(h) = Cardinality(Units(h, D))
    BY <1>1, SumCounts DEF Summable
  <1> HIDE DEF c
  <1>7. SumFunction(h) + f[x] = SumFunction(f) + h[x]
    BY <1>1, <1>4, <1>5, <1>6
  <1> QED  BY <1>1, <1>7

\* The sum of nothing.
LEMMA SumZero ==
    ASSUME NEW f, IsFiniteSet(DOMAIN f), \A x \in DOMAIN f : f[x] = 0
    PROVE  Summable(f) /\ SumFunction(f) = 0
  <1>1. Summable(f)
    BY DEF Summable
  <1>2. Units(f, DOMAIN f) = {}
    BY DEF Units
  <1>3. SumFunction(f) = Cardinality(Units(f, DOMAIN f))
    BY <1>1, SumCounts DEF Summable
  <1> QED  BY <1>1, <1>2, <1>3, FS_EmptySet

-----------------------------------------------------------------------------
(* The permit budget                                                       *)

\* Conservation, in terms of sums.
LEMMA Conserved ==
    /\ PermitsConserved <=> avail + SumFunction(permits) + forgotten = Total
    /\ PermitsConserved' <=> avail' + SumFunction(permits') + forgotten' = Total
  BY DEF PermitsConserved

\* The permits are summable, and the budget is conserved in those terms.
LEMMA BudgetSum ==
    ASSUME BudgetTypeOK
    PROVE  /\ Summable(permits) /\ SumFunction(permits) \in Nat /\ DOMAIN permits = Permits
           /\ \A p \in Permits : permits[p] \in 0..Total /\ permits[p] <= SumFunction(permits)
           /\ PermitsConserved <=> avail + SumFunction(permits) + forgotten = Total
  <1>1. Summable(permits) /\ DOMAIN permits = Permits /\ \A p \in Permits : permits[p] \in 0..Total
    BY BudgetAssumption DEF BudgetTypeOK, Summable
  <1>2. SumFunction(permits) \in Nat /\ \A p \in Permits : permits[p] <= SumFunction(permits)
    BY <1>1, SumAtLeast
  <1>3. PermitsConserved <=> avail + SumFunction(permits) + forgotten = Total
    BY Conserved
  <1> QED  BY <1>1, <1>2, <1>3

\* Permits are granted.
LEMMA Granted ==
    ASSUME BudgetSafe, NEW n \in 0..Total, avail >= n, Grant(n)
    PROVE  /\ avail' \in 0..Total /\ permits' \in [Permits -> 0..Total] /\ PermitsConserved'
           /\ avail' <= avail /\ UNCHANGED <<forgotten, notifies>>
  <1>1. PICK p \in Permits : permits[p] = 0 /\ permits' = [permits EXCEPT ![p] = n]
    BY DEF Grant
  <1>2. avail' = avail - n /\ UNCHANGED <<forgotten, notifies>>
    BY DEF Grant
  <1>3. avail \in 0..Total /\ permits \in [Permits -> 0..Total] /\ forgotten \in Nat /\ Total \in Nat
    BY BudgetAssumption DEF BudgetSafe, BudgetTypeOK
  <1>4. /\ Summable(permits) /\ SumFunction(permits) \in Nat /\ DOMAIN permits = Permits
        /\ avail + SumFunction(permits) + forgotten = Total
    BY BudgetSum DEF BudgetSafe
  <1>5. /\ permits' \in [Permits -> 0..Total] /\ DOMAIN permits' = Permits /\ permits'[p] = n
        /\ \A y \in Permits : y # p => permits'[y] = permits[y]
    BY <1>1, <1>3
  <1>6. SumFunction(permits') + permits[p] = SumFunction(permits) + permits'[p]
    BY <1>4, <1>5, SumChanges
  <1>7. SumFunction(permits') = SumFunction(permits) + n
    <2>1. Summable(permits')
      BY <1>4, <1>5, SumChanges
    <2>2. SumFunction(permits') \in Nat
      BY <2>1, SumAtLeast
    <2> QED  BY <1>1, <1>4, <1>5, <1>6, <2>2
  <1>8. avail' + SumFunction(permits') + forgotten' = Total
    BY <1>2, <1>3, <1>4, <1>7
  <1> QED  BY <1>2, <1>3, <1>5, <1>8, Conserved

\* One permit changes by what the other counters change by.
LEMMA Accounted ==
    ASSUME BudgetSafe, NEW p \in Permits, NEW n \in 0..Total, permits' = [permits EXCEPT ![p] = n]
    PROVE  /\ permits' \in [Permits -> 0..Total] /\ Summable(permits') /\ SumFunction(permits') \in Nat
           /\ SumFunction(permits') = SumFunction(permits) - permits[p] + n
  <1>1. /\ Summable(permits) /\ SumFunction(permits) \in Nat /\ DOMAIN permits = Permits
        /\ permits[p] \in Nat /\ permits \in [Permits -> 0..Total]
    BY BudgetSum DEF BudgetSafe, BudgetTypeOK
  <1>2. /\ permits' \in [Permits -> 0..Total] /\ DOMAIN permits' = Permits /\ permits'[p] = n
        /\ \A y \in Permits : y # p => permits'[y] = permits[y]
    BY <1>1
  <1>3. Summable(permits') /\ SumFunction(permits') + permits[p] = SumFunction(permits) + permits'[p]
    <2>1. n \in Nat /\ p \in DOMAIN permits /\ DOMAIN permits' = DOMAIN permits /\ permits'[p] \in Nat
      BY <1>1, <1>2, BudgetAssumption
    <2> QED  BY <1>1, <1>2, <2>1, SumChanges
  <1>4. SumFunction(permits') \in Nat
    BY <1>3, SumAtLeast
  <1> QED  BY <1>1, <1>2, <1>3, <1>4

\* A thread goes where it goes.
LEMMA ThreadMoves ==
    ASSUME BudgetSafe, NEW t \in Threads, NEW pc \in {"idle", "waiting", "woken"}, NEW n \in 0..Total,
           NEW timed \in BOOLEAN, Became(t, pc, n, timed)
    PROVE  /\ thread' \in [Threads -> [pc : {"idle", "waiting", "woken"}, need : 0..Total, timed : BOOLEAN]]
           /\ thread'[t].pc = pc /\ thread'[t].need = n
           /\ \A u \in Threads : u # t => thread'[u] = thread[u]
  BY DEF BudgetSafe, BudgetTypeOK, Became

\* Who sleeps with no more available than before is not stranded by it.
LEMMA StillAwake ==
    ASSUME BudgetSafe, avail' \in Nat, avail' <= avail, notifies' = notifies,
           \A u \in Threads : \/ thread'[u] = thread[u]
                              \/ thread'[u].pc # "waiting"
                              \/ thread'[u].need > avail' /\ thread'[u].need \in Nat
    PROVE  NoStrandedWaiter'
  <1>1. avail \in Nat /\ thread \in [Threads -> [pc : {"idle", "waiting", "woken"}, need : 0..Total, timed : BOOLEAN]]
    BY DEF BudgetSafe, BudgetTypeOK
  <1> SUFFICES ASSUME NEW u \in Threads, thread'[u].pc = "waiting", thread'[u].need <= avail' PROVE notifies' > 0
    BY DEF NoStrandedWaiter
  <1>2. thread'[u] = thread[u] /\ thread[u].need \in Nat
    BY <1>1, BudgetAssumption
  <1> QED  BY <1>1, <1>2 DEF BudgetSafe, NoStrandedWaiter

\* The budget is safe at the start, and stays so.
LEMMA BudgetInitially == BudgetInit => BudgetSafe
  <1> SUFFICES ASSUME BudgetInit PROVE BudgetSafe
    OBVIOUS
  <1>1. Total \in Nat /\ IsFiniteSet(Permits)
    BY BudgetAssumption
  <1>2. BudgetTypeOK
    BY <1>1 DEF BudgetInit, BudgetTypeOK
  <1>3. SumFunction(permits) = 0
    BY <1>1, SumZero DEF BudgetInit
  <1>4. PermitsConserved
    BY <1>1, <1>3, Conserved DEF BudgetInit
  <1>5. NoStrandedWaiter
    BY DEF BudgetInit, NoStrandedWaiter
  <1> QED  BY <1>2, <1>4, <1>5 DEF BudgetSafe

\* Acquiring, waiting and waking.
LEMMA ThreadStepKeeps ==
    ASSUME BudgetSafe, NEW t \in Threads,
           \/ \E n \in 1..Total : TryAcquire(t, n) \/ \E timed \in BOOLEAN : Acquire(t, n, timed)
           \/ Recheck(t) \/ Spurious(t) \/ TimedOut(t)
    PROVE  BudgetSafe'
  <1>1. /\ Total \in Nat /\ avail \in 0..Total /\ avail \in Nat
        /\ thread \in [Threads -> [pc : {"idle", "waiting", "woken"}, need : 0..Total, timed : BOOLEAN]]
        /\ thread[t].need \in 0..Total /\ thread[t].timed \in BOOLEAN /\ thread[t].need \in Nat
    BY BudgetAssumption DEF BudgetSafe, BudgetTypeOK
  <1>2. ASSUME NEW n \in 0..Total, avail >= n, Grant(n), Idle(t) \/ UNCHANGED thread
        PROVE  BudgetSafe'
    <2>1. /\ avail' \in 0..Total /\ permits' \in [Permits -> 0..Total] /\ PermitsConserved'
          /\ avail' <= avail /\ UNCHANGED <<forgotten, notifies>>
      BY <1>2, Granted
    <2>2. /\ thread' \in [Threads -> [pc : {"idle", "waiting", "woken"}, need : 0..Total, timed : BOOLEAN]]
          /\ \A u \in Threads : thread'[u] = thread[u] \/ thread'[u].pc # "waiting"
      <3>1. CASE Idle(t)
        <4>1. Became(t, "idle", 0, FALSE)
          BY <3>1, Zenon DEF Idle
        <4>3. 0 \in 0..Total
          BY <1>1
        <4>2. /\ thread' \in [Threads -> [pc : {"idle", "waiting", "woken"}, need : 0..Total, timed : BOOLEAN]]
              /\ thread'[t].pc = "idle"
              /\ \A u \in Threads : u # t => thread'[u] = thread[u]
          BY <4>1, <4>3, ThreadMoves
        <4> QED  BY <4>2
      <3>2. CASE UNCHANGED thread
        BY <1>1, <3>2
      <3> QED  BY <1>2, <3>1, <3>2
    <2>3. NoStrandedWaiter'
      BY <2>1, <2>2, StillAwake
    <2>4. BudgetTypeOK'
      BY <2>1, <2>2 DEF BudgetSafe, BudgetTypeOK
    <2> QED  BY <2>1, <2>3, <2>4 DEF BudgetSafe
  <1>3. ASSUME NEW n \in 0..Total, NEW timed \in BOOLEAN, NEW pc \in {"idle", "waiting", "woken"}, Became(t, pc, n, timed),
               pc = "waiting" => avail < n, UNCHANGED <<avail, permits, forgotten, notifies>>
        PROVE  BudgetSafe'
    <2>1. /\ thread' \in [Threads -> [pc : {"idle", "waiting", "woken"}, need : 0..Total, timed : BOOLEAN]]
          /\ thread'[t].pc = pc /\ thread'[t].need = n
          /\ \A u \in Threads : u # t => thread'[u] = thread[u]
      BY <1>3, ThreadMoves
    <2>2. n \in Nat /\ (thread'[t].pc # "waiting" \/ n > avail')
      BY <1>1, <1>3, <2>1
    <2>3. NoStrandedWaiter'
      <3>1. avail' \in Nat /\ avail' <= avail /\ notifies' = notifies
        BY <1>1, <1>3
      <3> QED  BY <2>1, <2>2, <3>1, StillAwake
    <2>4. BudgetTypeOK' /\ PermitsConserved'
      BY <1>3, <2>1, Conserved DEF BudgetSafe, BudgetTypeOK
    <2> QED  BY <2>3, <2>4 DEF BudgetSafe
  <1>4. ASSUME NEW n \in 1..Total, TryAcquire(t, n) PROVE BudgetSafe'
    BY <1>1, <1>2, <1>4 DEF TryAcquire
  <1>5. ASSUME NEW n \in 1..Total, NEW timed \in BOOLEAN, Acquire(t, n, timed) PROVE BudgetSafe'
    BY <1>1, <1>3, <1>5 DEF Acquire
  <1>6. CASE Recheck(t)
    BY <1>1, <1>2, <1>3, <1>6 DEF Recheck
  <1>7. CASE Spurious(t)
    BY <1>1, <1>3, <1>7 DEF Spurious
  <1>8. CASE TimedOut(t)
    <2>1. CASE avail >= thread[t].need /\ Grant(thread[t].need)
      BY <1>1, <1>2, <1>8, <2>1 DEF TimedOut
    <2>2. CASE avail < thread[t].need /\ UNCHANGED <<avail, permits, forgotten, notifies>>
      <3>1. Became(t, "idle", 0, FALSE)
        BY <1>8, Zenon DEF TimedOut, Idle
      <3>2. 0 \in 0..Total
        BY <1>1
      <3> QED  BY <1>3, <2>2, <3>1, <3>2
    <2> QED  BY <1>8, <2>1, <2>2 DEF TimedOut
  <1> QED  BY <1>4, <1>5, <1>6, <1>7, <1>8

\* Releases: what becomes available is announced.
LEMMA FreedKeeps ==
    ASSUME BudgetSafe, NEW n \in Nat, Freed(n), avail + n <= Total, UNCHANGED thread,
           permits' \in [Permits -> 0..Total], forgotten' \in 0..Total, PermitsConserved'
    PROVE  BudgetSafe'
  <1>1. avail \in Nat /\ notifies \in Nat /\ Total \in Nat
    BY BudgetAssumption DEF BudgetSafe, BudgetTypeOK
  <1>2. avail' \in 0..Total /\ notifies' \in Nat /\ notifies' > 0
    BY <1>1 DEF Freed
  <1>3. BudgetTypeOK'
    BY <1>2 DEF BudgetSafe, BudgetTypeOK
  <1>4. NoStrandedWaiter'
    BY <1>2 DEF NoStrandedWaiter
  <1> QED  BY <1>3, <1>4 DEF BudgetSafe

\* Nobody gets more: permits change hands, or are given up.
LEMMA QuietKeeps ==
    ASSUME BudgetSafe, UNCHANGED <<avail, thread, notifies>>,
           permits' \in [Permits -> 0..Total], forgotten' \in 0..Total, PermitsConserved'
    PROVE  BudgetSafe'
  BY DEF BudgetSafe, BudgetTypeOK, NoStrandedWaiter

\* Permits dropped, forgotten and split.
LEMMA PermitStepKeeps ==
    ASSUME BudgetSafe, NEW p \in Permits,
           Drop(p) \/ Forget(p) \/ \E q \in Permits : \E n \in 1..Total : Split(p, q, n)
    PROVE  BudgetSafe'
  <1>1. /\ Total \in Nat /\ avail \in Nat /\ forgotten \in Nat
        /\ permits \in [Permits -> 0..Total] /\ permits[p] \in Nat /\ DOMAIN permits = Permits
    BY BudgetAssumption DEF BudgetSafe, BudgetTypeOK
  <1>2. /\ Summable(permits) /\ SumFunction(permits) \in Nat /\ permits[p] <= SumFunction(permits)
        /\ avail + SumFunction(permits) + forgotten = Total
    BY BudgetSum DEF BudgetSafe
  <1>3. CASE Drop(p)
    <2>1. /\ permits' = [permits EXCEPT ![p] = 0] /\ Freed(permits[p]) /\ UNCHANGED <<forgotten, thread>>
      BY <1>3 DEF Drop
    <2>2. permits' \in [Permits -> 0..Total] /\ SumFunction(permits') = SumFunction(permits) - permits[p] + 0
      <3>1. 0 \in 0..Total
        BY <1>1
      <3> QED  BY <2>1, <3>1, Accounted
    <2>3. avail' = avail + permits[p] /\ avail + permits[p] <= Total
      BY <1>1, <1>2, <2>1 DEF Freed
    <2>4. avail' + SumFunction(permits') + forgotten' = Total
      BY <1>1, <1>2, <2>1, <2>2, <2>3
    <2> QED  BY <1>1, <2>1, <2>2, <2>3, <2>4, FreedKeeps, Conserved DEF BudgetSafe, BudgetTypeOK
  <1>4. CASE Forget(p)
    <2>1. permits' = [permits EXCEPT ![p] = 0] /\ forgotten' = forgotten + permits[p] /\ UNCHANGED <<avail, thread, notifies>>
      BY <1>4 DEF Forget
    <2>2. permits' \in [Permits -> 0..Total] /\ SumFunction(permits') = SumFunction(permits) - permits[p] + 0
      <3>1. 0 \in 0..Total
        BY <1>1
      <3> QED  BY <2>1, <3>1, Accounted
    <2>3. avail' + SumFunction(permits') + forgotten' = Total /\ forgotten' \in 0..Total
      BY <1>1, <1>2, <2>1, <2>2
    <2> QED  BY <2>1, <2>2, <2>3, QuietKeeps, Conserved
  <1>5. ASSUME NEW q \in Permits, NEW n \in 1..Total, Split(p, q, n) PROVE BudgetSafe'
    <2>1. /\ permits[p] >= n /\ p # q /\ permits[q] = 0 /\ n \in Nat
          /\ permits' = [permits EXCEPT ![p] = @ - n, ![q] = n] /\ UNCHANGED <<avail, forgotten, thread, notifies>>
      BY <1>5 DEF Split
    <2> DEFINE h == [permits EXCEPT ![p] = permits[p] - n]
    <2>2. /\ DOMAIN h = Permits /\ h[p] = permits[p] - n /\ h[p] \in Nat /\ h[q] = 0
          /\ \A y \in Permits : y # p => h[y] = permits[y]
      BY <1>1, <2>1
    <2>3. /\ permits' \in [Permits -> 0..Total] /\ DOMAIN permits' = Permits /\ permits'[q] = n
          /\ \A y \in Permits : y # q => permits'[y] = h[y]
      BY <1>1, <2>1
    <2> HIDE DEF h
    <2>4. Summable(h) /\ SumFunction(h) + permits[p] = SumFunction(permits) + h[p]
      BY <1>1, <1>2, <2>2, SumChanges
    <2>5. Summable(permits') /\ SumFunction(permits') + h[q] = SumFunction(h) + permits'[q]
      <3>1. q \in DOMAIN h /\ DOMAIN permits' = DOMAIN h /\ permits'[q] \in Nat
        BY <2>1, <2>2, <2>3
      <3> QED  BY <2>2, <2>3, <2>4, <3>1, SumChanges
    <2>6. SumFunction(h) \in Nat /\ SumFunction(permits') \in Nat
      BY <2>4, <2>5, SumAtLeast
    <2>7. SumFunction(permits') = SumFunction(permits)
      BY <1>1, <1>2, <2>1, <2>2, <2>3, <2>4, <2>5, <2>6
    <2>8. PermitsConserved' /\ forgotten' \in 0..Total
      BY <1>2, <2>1, <2>7, Conserved DEF BudgetSafe, BudgetTypeOK
    <2> QED  BY <2>1, <2>3, <2>8, QuietKeeps
  <1> QED  BY <1>3, <1>4, <1>5

\* A notification wakes every sleeper.
LEMMA NotifyAllKeeps ==
    ASSUME BudgetSafe, NotifyAll
    PROVE  BudgetSafe'
  <1>1. /\ notifies \in Nat /\ notifies > 0 /\ notifies' = notifies - 1 /\ UNCHANGED <<avail, permits, forgotten>>
        /\ thread \in [Threads -> [pc : {"idle", "waiting", "woken"}, need : 0..Total, timed : BOOLEAN]]
        /\ thread' = [t \in Threads |-> IF thread[t].pc = "waiting" THEN [thread[t] EXCEPT !.pc = "woken"] ELSE thread[t]]
    BY DEF NotifyAll, BudgetSafe, BudgetTypeOK
  <1>2. /\ thread' \in [Threads -> [pc : {"idle", "waiting", "woken"}, need : 0..Total, timed : BOOLEAN]]
        /\ \A t \in Threads : thread'[t].pc # "waiting"
    BY <1>1
  <1>3. BudgetTypeOK' /\ PermitsConserved'
    BY <1>1, <1>2, Conserved DEF BudgetSafe, BudgetTypeOK
  <1>4. NoStrandedWaiter'
    BY <1>2 DEF NoStrandedWaiter
  <1> QED  BY <1>3, <1>4 DEF BudgetSafe

\* The release at shutdown makes the budget whole, what was forgotten included.
LEMMA ReleaseAllKeeps ==
    ASSUME BudgetSafe, ReleaseAllAndWake
    PROVE  BudgetSafe'
  <1>1. /\ Total \in Nat /\ avail \in 0..Total /\ permits \in [Permits -> 0..Total]
        /\ \A p \in Permits : permits[p] = 0
        /\ Freed(Total - avail) /\ forgotten' = 0 /\ UNCHANGED <<permits, thread>>
    BY BudgetAssumption DEF BudgetSafe, BudgetTypeOK, ReleaseAllAndWake
  <1>2. SumFunction(permits) = 0 /\ SumFunction(permits') = 0
    <2>1. IsFiniteSet(DOMAIN permits) /\ \A p \in DOMAIN permits : permits[p] = 0
      BY <1>1, BudgetAssumption
    <2>2. SumFunction(permits) = 0
      BY <2>1, SumZero
    <2> QED  BY <1>1, <2>2
  <1>3. avail' = Total /\ Total - avail \in Nat /\ avail + (Total - avail) <= Total
    BY <1>1 DEF Freed
  <1>4. PermitsConserved'
    BY <1>1, <1>2, <1>3, Conserved
  <1>5. permits' \in [Permits -> 0..Total] /\ forgotten' \in 0..Total
    BY <1>1
  <1> QED  BY <1>1, <1>3, <1>4, <1>5, FreedKeeps

\* The budget keeps every unit and strands no waiter, for any capacity and any number
\* of threads and permits (CountBudget::acquire, acquire_timeout, release).
THEOREM BudgetStaysSafe == BudgetSpec => []BudgetSafe
  <1>1. BudgetSafe /\ [BudgetNext]_budgetVars => BudgetSafe'
    <2> SUFFICES ASSUME BudgetSafe, [BudgetNext]_budgetVars PROVE BudgetSafe'
      OBVIOUS
    <2>1. CASE UNCHANGED budgetVars
      BY <2>1, Conserved DEF budgetVars, BudgetSafe, BudgetTypeOK, NoStrandedWaiter
    <2>2. CASE NotifyAll
      BY <2>2, NotifyAllKeeps
    <2>3. CASE ReleaseAllAndWake
      BY <2>3, ReleaseAllKeeps
    <2> QED  BY <2>1, <2>2, <2>3, ThreadStepKeeps, PermitStepKeeps DEF BudgetNext
  <1> QED  BY <1>1, BudgetInitially, PTL DEF BudgetSpec

-----------------------------------------------------------------------------
(* The resource pool                                                       *)

PoolPcs == {"idle", "ring", "cache", "spill", "undoCache", "undoRing", "granted", "dropCache", "dropSpill"}

Amounts == [ring : Nat, cache : Nat, spill : Nat]

\* What a thread holds at each point of try_acquire and of the permit's drop.
Holds(r) ==
    /\ r.has.ring = IF r.pc \in {"idle", "ring", "dropCache", "dropSpill"} THEN 0 ELSE r.req.ring
    /\ r.has.cache = IF r.pc \in {"spill", "undoCache", "granted", "dropCache"} THEN r.req.cache ELSE 0
    /\ r.has.spill = IF r.pc \in {"granted", "dropCache", "dropSpill"} THEN SpillShare(r.req) ELSE 0

PoolJob(r) == r \in [pc : PoolPcs, req : Amounts, has : Amounts] /\ Holds(r)

PoolInv ==
    /\ ring \in Nat /\ cache \in Nat /\ spill \in Nat
    /\ job = [j \in Jobs |-> job[j]] /\ \A j \in Jobs : PoolJob(job[j])
    /\ PoolConserved

\* A share of a request is an amount.
LEMMA ShareType == \A req \in Amounts : SpillShare(req) \in Nat
  BY DEF SpillShare, Amounts

\* The invariant says what the property does.
LEMMA PoolInvSafe == PoolInv => PoolSafe
  <1> SUFFICES ASSUME PoolInv, NEW j \in Jobs
               PROVE  /\ job[j].pc = "idle" => job[j].has = Nothing
                      /\ job[j].pc = "granted" => job[j].has = [job[j].req EXCEPT !.spill = SpillShare(job[j].req)]
    BY DEF PoolInv, PoolSafe, AllOrNothing
  <1>1. PoolJob(job[j])
    BY DEF PoolInv
  <1>2. /\ job[j].has = [ring |-> job[j].has.ring, cache |-> job[j].has.cache, spill |-> job[j].has.spill]
        /\ job[j].req = [ring |-> job[j].req.ring, cache |-> job[j].req.cache, spill |-> job[j].req.spill]
    BY <1>1 DEF PoolJob, Amounts
  <1>3. CASE job[j].pc = "idle"
    BY <1>1, <1>2, <1>3 DEF PoolJob, Holds, Nothing
  <1>4. CASE job[j].pc = "granted"
    <2>1. job[j].has.ring = job[j].req.ring /\ job[j].has.cache = job[j].req.cache
          /\ job[j].has.spill = SpillShare(job[j].req)
      BY <1>1, <1>4 DEF PoolJob, Holds
    <2> QED  BY <1>2, <1>4, <2>1
  <1> QED  BY <1>3, <1>4

\* The three sums, before and after.
LEMMA PoolSums ==
    /\ PoolConserved <=> /\ ring >= 0 /\ ring + SumFunction([j \in Jobs |-> job[j].has.ring]) = RingTotal
                         /\ cache >= 0 /\ cache + SumFunction([j \in Jobs |-> job[j].has.cache]) = CacheTotal
                         /\ spill >= 0 /\ spill + SumFunction([j \in Jobs |-> job[j].has.spill]) = SpillTotal
    /\ PoolConserved' <=> /\ ring' >= 0 /\ ring' + SumFunction([j \in Jobs |-> job'[j].has.ring]) = RingTotal
                          /\ cache' >= 0 /\ cache' + SumFunction([j \in Jobs |-> job'[j].has.cache]) = CacheTotal
                          /\ spill' >= 0 /\ spill' + SumFunction([j \in Jobs |-> job'[j].has.spill]) = SpillTotal
  BY DEF PoolConserved, HeldOf

\* What one thread takes of a budget, the budget has less.
LEMMA AmountsMoved ==
    ASSUME NEW f, Summable(f), NEW j \in DOMAIN f, NEW h, DOMAIN h = DOMAIN f, h[j] \in Nat,
           \A k \in DOMAIN f : k # j => h[k] = f[k],
           NEW a \in Nat, NEW b \in Nat, NEW c \in Nat, a + SumFunction(f) = c, b + h[j] = a + f[j]
    PROVE  b + SumFunction(h) = c
  <1>1. Summable(h) /\ SumFunction(h) + f[j] = SumFunction(f) + h[j]
    BY SumChanges
  <1>2. SumFunction(h) \in Nat /\ SumFunction(f) \in Nat
    BY <1>1, SumAtLeast
  <1>3. f[j] \in Nat
    BY DEF Summable
  <1> QED  BY <1>1, <1>2, <1>3

\* A step of one thread.
LEMMA PoolStep ==
    ASSUME PoolInv, NEW j \in Jobs, job' = [k \in Jobs |-> job'[k]],
           \A k \in Jobs : k # j => job'[k] = job[k], PoolJob(job'[j]),
           ring' \in Nat, ring' + job'[j].has.ring = ring + job[j].has.ring,
           cache' \in Nat, cache' + job'[j].has.cache = cache + job[j].has.cache,
           spill' \in Nat, spill' + job'[j].has.spill = spill + job[j].has.spill
    PROVE  PoolInv'
  <1>1. /\ ring \in Nat /\ cache \in Nat /\ spill \in Nat /\ RingTotal \in Nat /\ CacheTotal \in Nat /\ SpillTotal \in Nat
        /\ IsFiniteSet(Jobs) /\ \A k \in Jobs : PoolJob(job[k])
    BY PoolAssumption DEF PoolInv
  <1>2. job' = [k \in Jobs |-> job'[k]] /\ \A k \in Jobs : k # j => job'[k] = job[k]
    OBVIOUS
  <1>3. \A k \in Jobs : PoolJob(job[k]) /\ PoolJob(job'[k])
    BY <1>1, <1>2
  <1>4. \A k \in Jobs : /\ job[k].has.ring \in Nat /\ job[k].has.cache \in Nat /\ job[k].has.spill \in Nat
                        /\ job'[k].has.ring \in Nat /\ job'[k].has.cache \in Nat /\ job'[k].has.spill \in Nat
    BY <1>3 DEF PoolJob, Amounts
  <1>5. /\ ring + SumFunction([k \in Jobs |-> job[k].has.ring]) = RingTotal
        /\ cache + SumFunction([k \in Jobs |-> job[k].has.cache]) = CacheTotal
        /\ spill + SumFunction([k \in Jobs |-> job[k].has.spill]) = SpillTotal
    BY PoolSums DEF PoolInv
  <1>6. ring' + SumFunction([k \in Jobs |-> job'[k].has.ring]) = RingTotal
    <2> DEFINE f == [k \in Jobs |-> job[k].has.ring]
               h == [k \in Jobs |-> job'[k].has.ring]
    <2>1. /\ Summable(f) /\ j \in DOMAIN f /\ DOMAIN h = DOMAIN f /\ h[j] \in Nat /\ \A k \in DOMAIN f : k # j => h[k] = f[k]
          /\ ring' + h[j] = ring + f[j]
      BY <1>1, <1>2, <1>4 DEF Summable
    <2>2. ring + SumFunction(f) = RingTotal
      BY <1>5
    <2> HIDE DEF f, h
    <2>3. ring' + SumFunction(h) = RingTotal
      BY <1>1, <2>1, <2>2, AmountsMoved
    <2> QED  BY <2>3 DEF h
  <1>7. cache' + SumFunction([k \in Jobs |-> job'[k].has.cache]) = CacheTotal
    <2> DEFINE f == [k \in Jobs |-> job[k].has.cache]
               h == [k \in Jobs |-> job'[k].has.cache]
    <2>1. /\ Summable(f) /\ j \in DOMAIN f /\ DOMAIN h = DOMAIN f /\ h[j] \in Nat /\ \A k \in DOMAIN f : k # j => h[k] = f[k]
          /\ cache' + h[j] = cache + f[j]
      BY <1>1, <1>2, <1>4 DEF Summable
    <2>2. cache + SumFunction(f) = CacheTotal
      BY <1>5
    <2> HIDE DEF f, h
    <2>3. cache' + SumFunction(h) = CacheTotal
      BY <1>1, <2>1, <2>2, AmountsMoved
    <2> QED  BY <2>3 DEF h
  <1>8. spill' + SumFunction([k \in Jobs |-> job'[k].has.spill]) = SpillTotal
    <2> DEFINE f == [k \in Jobs |-> job[k].has.spill]
               h == [k \in Jobs |-> job'[k].has.spill]
    <2>1. /\ Summable(f) /\ j \in DOMAIN f /\ DOMAIN h = DOMAIN f /\ h[j] \in Nat /\ \A k \in DOMAIN f : k # j => h[k] = f[k]
          /\ spill' + h[j] = spill + f[j]
      BY <1>1, <1>2, <1>4 DEF Summable
    <2>2. spill + SumFunction(f) = SpillTotal
      BY <1>5
    <2> HIDE DEF f, h
    <2>3. spill' + SumFunction(h) = SpillTotal
      BY <1>1, <2>1, <2>2, AmountsMoved
    <2> QED  BY <2>3 DEF h
  <1>9. PoolConserved'
    <2>1. ring' >= 0 /\ cache' >= 0 /\ spill' >= 0
      OBVIOUS
    <2> QED  BY <1>6, <1>7, <1>8, <2>1, PoolSums
  <1> QED  BY <1>2, <1>3, <1>9 DEF PoolInv

\* Each step of try_acquire and of the permit's drop.
LEMMA PoolStepKeeps ==
    ASSUME PoolInv, NEW j \in Jobs, Step(j)
    PROVE  PoolInv'
  <1> DEFINE To(pc, req, has) == [pc |-> pc, req |-> req, has |-> has]
             Has(a, b, c) == [ring |-> a, cache |-> b, spill |-> c]
             req == job[j].req
             has == job[j].has
             share == SpillShare(req)
  <1>1. /\ ring \in Nat /\ cache \in Nat /\ spill \in Nat /\ job = [k \in Jobs |-> job[k]]
        /\ job[j].pc \in PoolPcs /\ req \in Amounts /\ has \in Amounts /\ Holds(job[j])
        /\ job[j] = To(job[j].pc, req, has)
    BY DEF PoolInv, PoolJob
  <1>2. /\ has.ring \in Nat /\ has.cache \in Nat /\ has.spill \in Nat /\ has = Has(has.ring, has.cache, has.spill)
        /\ req.ring \in Nat /\ req.cache \in Nat /\ share \in Nat
    BY <1>1, ShareType DEF Amounts
  <1>3. CASE TakeRing(j)
    <2>1. CASE ring >= req.ring /\ ring' = ring - req.ring /\ job' = [job EXCEPT ![j].pc = "cache", ![j].has.ring = req.ring]
      <3>1. /\ job' = [k \in Jobs |-> job'[k]] /\ \A k \in Jobs : k # j => job'[k] = job[k]
           /\ job'[j] = To("cache", req, job'[j].has)
           /\ job'[j].has = Has(req.ring, has.cache, has.spill)
        BY <1>1, <1>2, <1>3, <2>1 DEF TakeRing
      <3>2. PoolJob(job'[j])
        BY <1>1, <1>2, <1>3, <2>1, <3>1 DEF TakeRing, PoolJob, Holds, PoolPcs, Amounts
      <3>3. /\ ring' \in Nat /\ ring' + job'[j].has.ring = ring + has.ring
           /\ cache' \in Nat /\ cache' + job'[j].has.cache = cache + has.cache
           /\ spill' \in Nat /\ spill' + job'[j].has.spill = spill + has.spill
        BY <1>1, <1>2, <1>3, <2>1, <3>1 DEF TakeRing, Holds, PoolPcs
      <3> QED  BY <3>1, <3>2, <3>3, PoolStep
    <2>2. CASE ring < req.ring /\ job' = [job EXCEPT ![j].pc = "idle", ![j].req = Nothing] /\ UNCHANGED ring
      <3>1. /\ job' = [k \in Jobs |-> job'[k]] /\ \A k \in Jobs : k # j => job'[k] = job[k]
           /\ job'[j] = To("idle", Nothing, job'[j].has)
           /\ job'[j].has = Has(has.ring, has.cache, has.spill)
        BY <1>1, <1>2, <1>3, <2>2 DEF TakeRing
      <3>2. PoolJob(job'[j])
        BY <1>1, <1>2, <1>3, <2>2, <3>1 DEF TakeRing, Nothing, PoolJob, Holds, PoolPcs, Amounts
      <3>3. /\ ring' \in Nat /\ ring' + job'[j].has.ring = ring + has.ring
           /\ cache' \in Nat /\ cache' + job'[j].has.cache = cache + has.cache
           /\ spill' \in Nat /\ spill' + job'[j].has.spill = spill + has.spill
        BY <1>1, <1>2, <1>3, <2>2, <3>1 DEF TakeRing, Holds, PoolPcs
      <3> QED  BY <3>1, <3>2, <3>3, PoolStep
    <2> QED  BY <1>3, <2>1, <2>2 DEF TakeRing
  <1>4. CASE TakeCache(j)
    <2>1. CASE cache >= req.cache /\ cache' = cache - req.cache /\ job' = [job EXCEPT ![j].pc = "spill", ![j].has.cache = req.cache]
      <3>1. /\ job' = [k \in Jobs |-> job'[k]] /\ \A k \in Jobs : k # j => job'[k] = job[k]
           /\ job'[j] = To("spill", req, job'[j].has)
           /\ job'[j].has = Has(has.ring, req.cache, has.spill)
        BY <1>1, <1>2, <1>4, <2>1 DEF TakeCache
      <3>2. PoolJob(job'[j])
        BY <1>1, <1>2, <1>4, <2>1, <3>1 DEF TakeCache, PoolJob, Holds, PoolPcs, Amounts
      <3>3. /\ ring' \in Nat /\ ring' + job'[j].has.ring = ring + has.ring
           /\ cache' \in Nat /\ cache' + job'[j].has.cache = cache + has.cache
           /\ spill' \in Nat /\ spill' + job'[j].has.spill = spill + has.spill
        BY <1>1, <1>2, <1>4, <2>1, <3>1 DEF TakeCache, Holds, PoolPcs
      <3> QED  BY <3>1, <3>2, <3>3, PoolStep
    <2>2. CASE cache < req.cache /\ job' = [job EXCEPT ![j].pc = "undoRing"] /\ UNCHANGED cache
      <3>1. /\ job' = [k \in Jobs |-> job'[k]] /\ \A k \in Jobs : k # j => job'[k] = job[k]
           /\ job'[j] = To("undoRing", req, job'[j].has)
           /\ job'[j].has = Has(has.ring, has.cache, has.spill)
        BY <1>1, <1>2, <1>4, <2>2 DEF TakeCache
      <3>2. PoolJob(job'[j])
        BY <1>1, <1>2, <1>4, <2>2, <3>1 DEF TakeCache, PoolJob, Holds, PoolPcs, Amounts
      <3>3. /\ ring' \in Nat /\ ring' + job'[j].has.ring = ring + has.ring
           /\ cache' \in Nat /\ cache' + job'[j].has.cache = cache + has.cache
           /\ spill' \in Nat /\ spill' + job'[j].has.spill = spill + has.spill
        BY <1>1, <1>2, <1>4, <2>2, <3>1 DEF TakeCache, Holds, PoolPcs
      <3> QED  BY <3>1, <3>2, <3>3, PoolStep
    <2> QED  BY <1>4, <2>1, <2>2 DEF TakeCache
  <1>5. CASE TakeSpill(j)
    <2>1. CASE spill >= share /\ spill' = spill - share /\ job' = [job EXCEPT ![j].pc = "granted", ![j].has.spill = share]
      <3>1. /\ job' = [k \in Jobs |-> job'[k]] /\ \A k \in Jobs : k # j => job'[k] = job[k]
           /\ job'[j] = To("granted", req, job'[j].has)
           /\ job'[j].has = Has(has.ring, has.cache, share)
        BY <1>1, <1>2, <1>5, <2>1 DEF TakeSpill
      <3>2. PoolJob(job'[j])
        BY <1>1, <1>2, <1>5, <2>1, <3>1 DEF TakeSpill, PoolJob, Holds, PoolPcs, Amounts
      <3>3. /\ ring' \in Nat /\ ring' + job'[j].has.ring = ring + has.ring
           /\ cache' \in Nat /\ cache' + job'[j].has.cache = cache + has.cache
           /\ spill' \in Nat /\ spill' + job'[j].has.spill = spill + has.spill
        BY <1>1, <1>2, <1>5, <2>1, <3>1 DEF TakeSpill, Holds, PoolPcs
      <3> QED  BY <3>1, <3>2, <3>3, PoolStep
    <2>2. CASE spill < share /\ job' = [job EXCEPT ![j].pc = "undoCache"] /\ UNCHANGED spill
      <3>1. /\ job' = [k \in Jobs |-> job'[k]] /\ \A k \in Jobs : k # j => job'[k] = job[k]
           /\ job'[j] = To("undoCache", req, job'[j].has)
           /\ job'[j].has = Has(has.ring, has.cache, has.spill)
        BY <1>1, <1>2, <1>5, <2>2 DEF TakeSpill
      <3>2. PoolJob(job'[j])
        BY <1>1, <1>2, <1>5, <2>2, <3>1 DEF TakeSpill, PoolJob, Holds, PoolPcs, Amounts
      <3>3. /\ ring' \in Nat /\ ring' + job'[j].has.ring = ring + has.ring
           /\ cache' \in Nat /\ cache' + job'[j].has.cache = cache + has.cache
           /\ spill' \in Nat /\ spill' + job'[j].has.spill = spill + has.spill
        BY <1>1, <1>2, <1>5, <2>2, <3>1 DEF TakeSpill, Holds, PoolPcs
      <3> QED  BY <3>1, <3>2, <3>3, PoolStep
    <2> QED  BY <1>5, <2>1, <2>2 DEF TakeSpill
  <1>6. CASE UndoCache(j)
    <2>1. /\ job' = [k \in Jobs |-> job'[k]] /\ \A k \in Jobs : k # j => job'[k] = job[k]
         /\ job'[j] = To("undoRing", req, job'[j].has)
         /\ job'[j].has = Has(has.ring, 0, has.spill)
      BY <1>1, <1>2, <1>6 DEF UndoCache
    <2>2. PoolJob(job'[j])
      BY <1>1, <1>2, <1>6, <2>1 DEF UndoCache, PoolJob, Holds, PoolPcs, Amounts
    <2>3. /\ ring' \in Nat /\ ring' + job'[j].has.ring = ring + has.ring
         /\ cache' \in Nat /\ cache' + job'[j].has.cache = cache + has.cache
         /\ spill' \in Nat /\ spill' + job'[j].has.spill = spill + has.spill
      BY <1>1, <1>2, <1>6, <2>1 DEF UndoCache, Holds, PoolPcs
    <2> QED  BY <2>1, <2>2, <2>3, PoolStep
  <1>7. CASE UndoRing(j)
    <2>1. /\ job' = [k \in Jobs |-> job'[k]] /\ \A k \in Jobs : k # j => job'[k] = job[k]
         /\ job'[j] = To("idle", Nothing, job'[j].has)
         /\ job'[j].has = Has(0, has.cache, has.spill)
      BY <1>1, <1>2, <1>7 DEF UndoRing
    <2>2. PoolJob(job'[j])
      BY <1>1, <1>2, <1>7, <2>1 DEF UndoRing, Nothing, PoolJob, Holds, PoolPcs, Amounts
    <2>3. /\ ring' \in Nat /\ ring' + job'[j].has.ring = ring + has.ring
         /\ cache' \in Nat /\ cache' + job'[j].has.cache = cache + has.cache
         /\ spill' \in Nat /\ spill' + job'[j].has.spill = spill + has.spill
      BY <1>1, <1>2, <1>7, <2>1 DEF UndoRing, Holds, PoolPcs
    <2> QED  BY <2>1, <2>2, <2>3, PoolStep
  <1>8. CASE DropRing(j)
    <2>1. /\ job' = [k \in Jobs |-> job'[k]] /\ \A k \in Jobs : k # j => job'[k] = job[k]
         /\ job'[j] = To("dropCache", req, job'[j].has)
         /\ job'[j].has = Has(0, has.cache, has.spill)
      BY <1>1, <1>2, <1>8 DEF DropRing
    <2>2. PoolJob(job'[j])
      BY <1>1, <1>2, <1>8, <2>1 DEF DropRing, PoolJob, Holds, PoolPcs, Amounts
    <2>3. /\ ring' \in Nat /\ ring' + job'[j].has.ring = ring + has.ring
         /\ cache' \in Nat /\ cache' + job'[j].has.cache = cache + has.cache
         /\ spill' \in Nat /\ spill' + job'[j].has.spill = spill + has.spill
      BY <1>1, <1>2, <1>8, <2>1 DEF DropRing, Holds, PoolPcs
    <2> QED  BY <2>1, <2>2, <2>3, PoolStep
  <1>9. CASE DropCache(j)
    <2>1. /\ job' = [k \in Jobs |-> job'[k]] /\ \A k \in Jobs : k # j => job'[k] = job[k]
         /\ job'[j] = To("dropSpill", req, job'[j].has)
         /\ job'[j].has = Has(has.ring, 0, has.spill)
      BY <1>1, <1>2, <1>9 DEF DropCache
    <2>2. PoolJob(job'[j])
      BY <1>1, <1>2, <1>9, <2>1 DEF DropCache, PoolJob, Holds, PoolPcs, Amounts
    <2>3. /\ ring' \in Nat /\ ring' + job'[j].has.ring = ring + has.ring
         /\ cache' \in Nat /\ cache' + job'[j].has.cache = cache + has.cache
         /\ spill' \in Nat /\ spill' + job'[j].has.spill = spill + has.spill
      BY <1>1, <1>2, <1>9, <2>1 DEF DropCache, Holds, PoolPcs
    <2> QED  BY <2>1, <2>2, <2>3, PoolStep
  <1>10. CASE DropSpill(j)
    <2>1. /\ job' = [k \in Jobs |-> job'[k]] /\ \A k \in Jobs : k # j => job'[k] = job[k]
         /\ job'[j] = To("idle", Nothing, job'[j].has)
         /\ job'[j].has = Has(has.ring, has.cache, 0)
      BY <1>1, <1>2, <1>10 DEF DropSpill
    <2>2. PoolJob(job'[j])
      BY <1>1, <1>2, <1>10, <2>1 DEF DropSpill, Nothing, PoolJob, Holds, PoolPcs, Amounts
    <2>3. /\ ring' \in Nat /\ ring' + job'[j].has.ring = ring + has.ring
         /\ cache' \in Nat /\ cache' + job'[j].has.cache = cache + has.cache
         /\ spill' \in Nat /\ spill' + job'[j].has.spill = spill + has.spill
      BY <1>1, <1>2, <1>10, <2>1 DEF DropSpill, Holds, PoolPcs
    <2> QED  BY <2>1, <2>2, <2>3, PoolStep
  <1> QED  BY <1>3, <1>4, <1>5, <1>6, <1>7, <1>8, <1>9, <1>10 DEF Step

\* A request starts: it holds nothing yet, and one that asks for nothing is granted at once.
LEMMA RequestKeeps ==
    ASSUME PoolInv, NEW j \in Jobs, NEW req \in Requests, Request(j, req)
    PROVE  PoolInv'
  <1> DEFINE r == [pc |-> IF req = Nothing THEN "granted" ELSE "ring", req |-> req, has |-> Nothing]
  <1>1. req \in Amounts
    BY PoolAssumption DEF Amounts
  <1>2. /\ ring \in Nat /\ cache \in Nat /\ spill \in Nat /\ Holds(job[j]) /\ job[j].pc = "idle"
        /\ job' = [k \in Jobs |-> job'[k]] /\ (\A k \in Jobs : k # j => job'[k] = job[k]) /\ job'[j] = r
        /\ UNCHANGED <<ring, cache, spill>>
    BY DEF PoolInv, PoolJob, Request
  <1>3. SpillShare(Nothing) = 0
    BY DEF SpillShare, Nothing
  <1>4. PoolJob(r)
    BY <1>1, <1>3 DEF PoolJob, Holds, PoolPcs, Amounts, Nothing
  <1>5. /\ ring' \in Nat /\ ring' + job'[j].has.ring = ring + job[j].has.ring
        /\ cache' \in Nat /\ cache' + job'[j].has.cache = cache + job[j].has.cache
        /\ spill' \in Nat /\ spill' + job'[j].has.spill = spill + job[j].has.spill
    BY <1>2 DEF Holds, Nothing
  <1> HIDE DEF r
  <1> QED  BY <1>2, <1>4, <1>5, PoolStep

\* Nobody holds anything at the start.
LEMMA PoolInitially == PoolInit => PoolInv
  <1> SUFFICES ASSUME PoolInit PROVE PoolInv
    OBVIOUS
  <1>1. RingTotal \in Nat /\ CacheTotal \in Nat /\ SpillTotal \in Nat /\ IsFiniteSet(Jobs)
    BY PoolAssumption
  <1>2. /\ ring = RingTotal /\ cache = CacheTotal /\ spill = SpillTotal /\ job = [j \in Jobs |-> job[j]]
        /\ \A j \in Jobs : job[j] = [pc |-> "idle", req |-> Nothing, has |-> Nothing]
    BY DEF PoolInit
  <1>3. \A j \in Jobs : PoolJob(job[j]) /\ job[j].has.ring = 0 /\ job[j].has.cache = 0 /\ job[j].has.spill = 0
    BY <1>2 DEF PoolJob, Holds, PoolPcs, Amounts, Nothing
  <1>4. /\ SumFunction([j \in Jobs |-> job[j].has.ring]) = 0
        /\ SumFunction([j \in Jobs |-> job[j].has.cache]) = 0
        /\ SumFunction([j \in Jobs |-> job[j].has.spill]) = 0
    BY <1>1, <1>3, SumZero
  <1>5. PoolConserved
    BY <1>1, <1>2, <1>4, PoolSums
  <1> QED  BY <1>1, <1>2, <1>3, <1>5 DEF PoolInv

(***************************************************************************)
(* The pool is safe: of ring bytes, cache bytes and spill slots none is    *)
(* lost, returned twice or over-committed, whichever step of try_acquire   *)
(* comes up short while other threads take and drop, and a permit stands   *)
(* for all that was asked for.                                             *)
(***************************************************************************)
THEOREM PoolStaysSafe == PoolSpec => []PoolSafe
  <1>1. PoolInv /\ [PoolNext]_poolVars => PoolInv'
    <2> SUFFICES ASSUME PoolInv, [PoolNext]_poolVars PROVE PoolInv'
      OBVIOUS
    <2>1. CASE PoolNext
      BY <2>1, PoolStepKeeps, RequestKeeps DEF PoolNext
    <2>2. CASE UNCHANGED poolVars
      <3>1. UNCHANGED <<ring, cache, spill, job>>
        BY <2>2 DEF poolVars
      <3>2. PoolConserved'
        BY <3>1, PoolSums DEF PoolInv
      <3> QED  BY <3>1, <3>2 DEF PoolInv
    <2> QED  BY <2>1, <2>2
  <1> QED  BY <1>1, PoolInitially, PoolInvSafe, PTL DEF PoolSpec

-----------------------------------------------------------------------------
(* Remainders                                                              *)

\* Division with remainder.
LEMMA DivMod ==
    ASSUME NEW a \in Nat, NEW m \in Nat \ {0}
    PROVE  (a % m) \in 0..(m - 1) /\ (a \div m) \in Nat /\ a = (m * (a \div m)) + (a % m)
  OBVIOUS

\* A remainder is determined by the division it is left by.
LEMMA ModUnique ==
    ASSUME NEW m \in Nat \ {0}, NEW q \in Nat, NEW r \in 0..(m - 1)
    PROVE  ((m * q) + r) % m = r
  OBVIOUS

\* A number below the modulus is its own remainder.
LEMMA ModSmall ==
    ASSUME NEW m \in Nat \ {0}, NEW a \in 0..(m - 1)
    PROVE  a % m = a
  OBVIOUS

\* Whole turns do not change the remainder.
LEMMA ModWrap ==
    ASSUME NEW m \in Nat \ {0}, NEW a \in Nat, NEW b \in Nat, b % m = 0
    PROVE  (a + b) % m = a % m
  <1>1. PICK q \in Nat, r \in 0..(m - 1) : a = (m * q) + r /\ r = a % m
    BY DivMod
  <1>2. PICK p \in Nat : b = m * p
    <2>1. (b \div m) \in Nat /\ b = (m * (b \div m)) + (b % m)
      BY DivMod
    <2>2. PICK p \in Nat, t \in Nat : p = b \div m /\ t = m * p /\ b = t + 0
      BY <2>1
    <2>3. b = m * p
      BY <2>2
    <2> QED  BY <2>3, Zenon
  <1>3. q + p \in Nat
    OBVIOUS
  <1>4. a + b = (m * (q + p)) + r
    BY <1>1, <1>2
  <1> QED  BY <1>1, <1>3, <1>4, ModUnique

\* One turn leaves nothing.
LEMMA ModSelf == ASSUME NEW m \in Nat \ {0} PROVE m % m = 0
  OBVIOUS

\* A number in the second turn.
LEMMA ModLarge ==
    ASSUME NEW m \in Nat \ {0}, NEW a \in m..(2 * m - 1)
    PROVE  a % m = a - m
  <1>1. a - m \in 0..(m - 1) /\ a = (a - m) + m /\ a - m \in Nat
    OBVIOUS
  <1>2. ((a - m) + m) % m = (a - m) % m
    BY <1>1, ModWrap, ModSelf
  <1> QED  BY <1>1, <1>2, ModSmall

\* Different places within one turn are different remainders.
LEMMA ModApart ==
    ASSUME NEW m \in Nat \ {0}, NEW a \in Nat, NEW d \in 1..(m - 1)
    PROVE  (a + d) % m # a % m
  <1>1. PICK q \in Nat, r \in 0..(m - 1) : a = (m * q) + r /\ r = a % m
    BY DivMod
  <1>2. CASE r + d < m
    <2>1. r + d \in 0..(m - 1) /\ a + d = (m * q) + (r + d)
      BY <1>1, <1>2
    <2>2. (a + d) % m = r + d
      BY <2>1, ModUnique
    <2> QED  BY <1>1, <2>2
  <1>3. CASE r + d >= m
    <2>1. r + d - m \in 0..(m - 1) /\ a + d = (m * (q + 1)) + (r + d - m) /\ q + 1 \in Nat
      BY <1>1, <1>3
    <2>2. (a + d) % m = r + d - m
      BY <2>1, ModUnique
    <2> QED  BY <1>1, <2>2
  <1> QED  BY <1>1, <1>2, <1>3

\* Every remainder is met within one turn.
LEMMA ModOnto ==
    ASSUME NEW m \in Nat \ {0}, NEW a \in Nat, NEW s \in 0..(m - 1)
    PROVE  \E d \in 0..(m - 1) : (a + d) % m = s
  <1>1. PICK q \in Nat, r \in 0..(m - 1) : a = (m * q) + r /\ r = a % m
    BY DivMod
  <1>2. CASE s >= r
    <2>1. s - r \in 0..(m - 1) /\ a + (s - r) = (m * q) + s
      <3>1. PICK t \in Nat : t = m * q
        OBVIOUS
      <3>2. a = t + r
        BY <1>1, <3>1
      <3>3. a + (s - r) = t + s
        BY <3>2
      <3>4. s - r \in 0..(m - 1)
        BY <1>2
      <3> QED  BY <3>1, <3>3, <3>4
    <2> QED  BY <2>1, ModUnique
  <1>3. CASE s < r
    <2>1. s + m - r \in 0..(m - 1) /\ a + (s + m - r) = (m * (q + 1)) + s /\ q + 1 \in Nat
      BY <1>1, <1>3
    <2> QED  BY <2>1, ModUnique
  <1> QED  BY <1>1, <1>2, <1>3

-----------------------------------------------------------------------------
(* The ring's indexes and slots                                            *)

Indexes == 0..(Wrap - 1)

\* The i-th slot from the head.
At(h, i) == Slot(h + i - 1)

\* What the assumption on the capacity says, taken apart.
LEMMA RingSize ==
    /\ N \in Nat \ {0} /\ Wrap \in Nat \ {0} /\ 2 * N <= Wrap /\ Wrap % N = 0 /\ MaxPush \in Nat /\ BatchMax \in Nat
    /\ Slots = 0..(N - 1)
  BY CapacityAssumption DEF Slots

\* wrapping_sub, without the remainder.
LEMMA DistanceIs ==
    ASSUME NEW a \in Indexes, NEW b \in Indexes
    PROVE  Distance(a, b) = (IF a <= b THEN b - a ELSE b + Wrap - a) /\ Distance(a, b) \in Indexes
  <1> DEFINE x == b + Wrap - a
  <1>1. Wrap \in Nat \ {0} /\ x \in Nat
    BY RingSize DEF Indexes
  <1>2. CASE a <= b
    <2>1. x \in Wrap..(2 * Wrap - 1)
      BY <1>1, <1>2 DEF Indexes
    <2>2. x % Wrap = x - Wrap
      BY <1>1, <2>1, ModLarge
    <2> QED  BY <1>1, <1>2, <2>2 DEF Indexes, Distance
  <1>3. CASE a > b
    <2>1. x \in 0..(Wrap - 1)
      BY <1>1, <1>3 DEF Indexes
    <2>2. x % Wrap = x
      BY <1>1, <2>1, ModSmall
    <2> QED  BY <1>1, <1>3, <2>1, <2>2 DEF Indexes, Distance
  <1> QED  BY <1>2, <1>3 DEF Indexes

\* wrapping_add, without the remainder.
LEMMA AdvanceIs ==
    ASSUME NEW a \in Indexes, NEW d \in Indexes
    PROVE  (a + d) % Wrap = (IF a + d < Wrap THEN a + d ELSE (a + d) - Wrap) /\ (a + d) % Wrap \in Indexes
  <1>1. Wrap \in Nat \ {0}
    BY RingSize
  <1>2. CASE a + d < Wrap
    <2>1. a + d \in 0..(Wrap - 1)
      BY <1>1, <1>2 DEF Indexes
    <2> QED  BY <1>1, <1>2, <2>1, ModSmall DEF Indexes
  <1>3. CASE a + d >= Wrap
    <2>1. PICK x \in Wrap..(2 * Wrap - 1) : x = a + d
      BY <1>1, <1>3 DEF Indexes
    <2>2. (a + d) % Wrap = (a + d) - Wrap
      <3>1. x % Wrap = x - Wrap
        BY <1>1, ModLarge
      <3> QED  BY <2>1, <3>1, Zenon
    <2>3. (a + d) - Wrap \in Indexes
      BY <1>1, <2>1 DEF Indexes
    <2> QED  BY <1>1, <1>3, <2>2, <2>3 DEF Indexes
  <1> QED  BY <1>1, <1>2, <1>3 DEF Indexes

\* A slot is a slot, and comes round with the index.
LEMMA SlotIs ==
    ASSUME NEW x \in Nat
    PROVE  Slot(x) \in Slots /\ Slot(x + Wrap) = Slot(x) /\ Slot(x + N) = Slot(x)
  <1>1. N % N = 0
    BY RingSize, ModSelf
  <1>2. x % N \in 0..(N - 1) /\ (x + Wrap) % N = x % N /\ (x + N) % N = x % N
    BY <1>1, RingSize, DivMod, ModWrap
  <1> QED  BY <1>2, RingSize DEF Slot

\* The slots from the head on, once round.
LEMMA SlotsApart ==
    ASSUME NEW h \in Nat
    PROVE  /\ \A i \in 1..N : At(h, i) \in Slots
           /\ \A i, j \in 1..N : At(h, i) = At(h, j) => i = j
           /\ \A s \in Slots : \E i \in 1..N : At(h, i) = s
  <1>1. ASSUME NEW i \in 1..N PROVE At(h, i) \in Slots /\ h + i - 1 \in Nat
    <2>1. PICK x \in Nat : x = h + i - 1
      BY <1>1, RingSize
    <2>2. Slot(x) \in Slots
      BY SlotIs
    <2> QED  BY <2>1, <2>2 DEF At
  <1>2. ASSUME NEW i \in 1..N, NEW j \in 1..N, i < j PROVE At(h, i) # At(h, j)
    <2>1. PICK a \in Nat, d \in 1..(N - 1) : a = h + i - 1 /\ d = j - i
      BY <1>2, RingSize
    <2>2. h + j - 1 = a + d
      BY <2>1
    <2>3. (a + d) % N # a % N
      BY RingSize, ModApart
    <2> QED  BY <2>1, <2>2, <2>3 DEF At, Slot
  <1>3. ASSUME NEW i \in 1..N, NEW j \in 1..N, At(h, i) = At(h, j) PROVE i = j
    <2>1. i \in Nat /\ j \in Nat /\ ~(i < j) /\ ~(j < i)
      BY <1>2, <1>3, RingSize
    <2> QED  BY <2>1
  <1>4. ASSUME NEW s \in Slots PROVE \E i \in 1..N : At(h, i) = s
    <2>1. PICK d \in 0..(N - 1) : (h + d) % N = s
      <3>1. s \in 0..(N - 1)
        BY RingSize
      <3>2. N \in Nat \ {0}
        BY RingSize
      <3> QED  BY <3>1, <3>2, ModOnto, Zenon
    <2>2. d + 1 \in 1..N /\ h + (d + 1) - 1 = h + d
      BY RingSize
    <2> QED  BY <2>1, <2>2 DEF At, Slot
  <1> QED  BY <1>1, <1>3, <1>4

\* The same slots from a head that has moved by d.
LEMMA SlotsMove ==
    ASSUME NEW h \in Indexes, NEW d \in 0..N, NEW i \in 1..N
    PROVE  At((h + d) % Wrap, i) = At(h, IF i + d <= N THEN i + d ELSE i + d - N)
  <1>1. /\ N \in Nat \ {0} /\ Wrap \in Nat \ {0} /\ 2 * N <= Wrap /\ d \in Indexes /\ h \in Nat
    BY RingSize DEF Indexes
  <1>2. (h + d) % Wrap = (IF h + d < Wrap THEN h + d ELSE (h + d) - Wrap)
    BY <1>1, AdvanceIs
  <1> DEFINE x == ((h + d) % Wrap) + i - 1
  <1>3. Slot(x) = Slot(h + d + i - 1)
    <2>1. CASE h + d < Wrap
      BY <1>1, <1>2, <2>1
    <2>2. CASE h + d >= Wrap
      <3>1. x \in Nat /\ x + Wrap = h + d + i - 1
        BY <1>1, <1>2, <2>2
      <3> HIDE DEF x
      <3> QED  BY <3>1, SlotIs
    <2> QED  BY <1>1, <2>1, <2>2
  <1>4. CASE i + d <= N
    <2>1. h + (i + d) - 1 = h + d + i - 1
      BY <1>1
    <2> QED  BY <1>3, <1>4, <2>1 DEF At
  <1>5. CASE i + d > N
    <2>1. PICK y \in Nat : y = h + (i + d - N) - 1
      BY <1>1, <1>5
    <2>2. y + N = h + d + i - 1
      BY <1>1, <2>1
    <2>3. Slot(y + N) = Slot(y)
      BY SlotIs
    <2>4. ~(i + d <= N)
      BY <1>1, <1>5
    <2>5. Slot(x) = Slot(y)
      BY <1>3, <2>2, <2>3
    <2>6. At((h + d) % Wrap, i) = At(h, i + d - N)
      BY <2>1, <2>5 DEF At
    <2> QED  BY <2>4, <2>6
  <1> QED  BY <1>1, <1>4, <1>5

-----------------------------------------------------------------------------
(* The ring                                                                *)

Gone == prod.pc = "gone" /\ cons.pc = "gone"

RingTypes ==
    /\ head \in Indexes /\ tail \in Indexes
    /\ prod \in [pc : {"idle", "write", "publish", "gone"}, cached : Indexes]
    /\ cons \in [pc : {"idle", "read", "publish", "gone"}, cached : Indexes, want : Nat, got : Seq(Nat)]
    /\ buf \in [Slots -> 0..MaxPush]
    /\ pushed \in 0..MaxPush /\ taken \in Seq(Nat) /\ dropped \in Seq(Nat)

\* The indexes count what was pushed and taken; the producer's copy of the head is
\* behind it by no more than the ring is long, the consumer's copy of the tail is
\* between the two.
IndexesCount ==
    /\ pushed = Len(taken) + Distance(head, tail)
    /\ Distance(prod.cached, head) + Distance(head, tail) = Distance(prod.cached, tail)
    /\ Distance(prod.cached, tail) <= N
    /\ Distance(head, cons.cached) + Distance(cons.cached, tail) = Distance(head, tail)

\* A push under way has room, a pop under way reads what is there.
CallsAllowed ==
    /\ prod.pc \in {"write", "publish"} => pushed < MaxPush /\ Distance(prod.cached, tail) < N
    /\ cons.want <= Distance(head, cons.cached)
    /\ cons.pc = "read" => Len(cons.got) < cons.want
    /\ cons.pc = "publish" => Len(cons.got) = cons.want /\ cons.want > 0
    /\ cons.pc \in {"idle", "gone"} => cons.want = 0 /\ cons.got = << >>

\* The values outside the slots.
ValuesOut ==
    /\ \A i \in 1..Len(taken) : taken[i] = i
    /\ \A i \in 1..Len(cons.got) : cons.got[i] = Len(taken) + i
    /\ Gone => /\ Len(dropped) = Distance(head, tail) /\ \A i \in 1..Len(dropped) : dropped[i] = Len(taken) + i
               /\ \A s \in Slots : buf[s] = Uninit
    /\ ~Gone => dropped = << >>

\* The i-th slot from the head holds a value.
Filled(i) == /\ Len(cons.got) < i
             /\ i <= Distance(head, tail) \/ (i = Distance(head, tail) + 1 /\ prod.pc = "publish")

\* The values inside the slots.
ValuesIn == ~Gone => \A i \in 1..N : buf[At(head, i)] = IF Filled(i) THEN Len(taken) + i ELSE Uninit

RingInv == RingTypes /\ IndexesCount /\ CallsAllowed /\ ValuesOut /\ ValuesIn

\* Moving an index forward, as seen from another one.
LEMMA DistanceMoves ==
    ASSUME NEW a \in Indexes, NEW b \in Indexes, NEW d \in Indexes
    PROVE  /\ Distance(a, b) + d < Wrap => Distance(a, (b + d) % Wrap) = Distance(a, b) + d
           /\ d <= Distance(a, b) => Distance((a + d) % Wrap, b) = Distance(a, b) - d
  <1>1. Wrap \in Nat \ {0}
    BY RingSize
  <1>2. PICK e \in Indexes : e = (b + d) % Wrap /\ e = IF b + d < Wrap THEN b + d ELSE (b + d) - Wrap
    BY AdvanceIs
  <1>3. PICK f \in Indexes : f = (a + d) % Wrap /\ f = IF a + d < Wrap THEN a + d ELSE (a + d) - Wrap
    BY AdvanceIs
  <1>4. Distance(a, b) = (IF a <= b THEN b - a ELSE b + Wrap - a)
    BY DistanceIs
  <1>5. Distance(a, e) = (IF a <= e THEN e - a ELSE e + Wrap - a)
    BY DistanceIs
  <1>6. Distance(f, b) = (IF f <= b THEN b - f ELSE b + Wrap - f)
    BY DistanceIs
  <1>7. Distance(a, b) + d < Wrap => Distance(a, e) = Distance(a, b) + d
    BY <1>1, <1>2, <1>4, <1>5 DEF Indexes
  <1>8. d <= Distance(a, b) => Distance(f, b) = Distance(a, b) - d
    BY <1>1, <1>3, <1>4, <1>6 DEF Indexes
  <1> QED  BY <1>2, <1>3, <1>7, <1>8, Zenon

\* An index on the way from one to another.
Between(a, b, c) == Distance(a, b) + Distance(b, c) = Distance(a, c)

\* A load returns an index on the way from what was seen to what is there.
LEMMA LoadedBetween ==
    ASSUME NEW a \in Indexes, NEW now \in Indexes, NEW seen \in Loadable(a, now)
    PROVE  seen \in Indexes /\ Between(a, seen, now)
  <1>1. PICK d \in 0..Distance(a, now) : seen = (a + d) % Wrap
    BY DEF Loadable
  <1>2. Distance(a, now) \in Indexes /\ Distance(a, a) = 0 /\ Wrap \in Nat \ {0}
    BY DistanceIs, RingSize DEF Indexes
  <1>3. d \in Indexes /\ d <= Distance(a, now) /\ d \in Nat /\ Distance(a, now) \in Nat
    BY <1>1, <1>2 DEF Indexes
  <1>4. Distance(a, a) + d < Wrap
    BY <1>2, <1>3 DEF Indexes
  <1>5. Distance(a, (a + d) % Wrap) = Distance(a, a) + d /\ Distance((a + d) % Wrap, now) = Distance(a, now) - d
    BY <1>3, <1>4, DistanceMoves
  <1>6. Distance(a, seen) = d /\ Distance(seen, now) = Distance(a, now) - d
    <2>1. Distance(a, seen) = 0 + d /\ Distance(seen, now) = Distance(a, now) - d
      BY <1>1, <1>2, <1>5, Zenon
    <2> QED  BY <1>3, <2>1
  <1>7. seen \in Indexes
    BY <1>1, <1>3, AdvanceIs, Zenon
  <1> QED  BY <1>3, <1>6, <1>7 DEF Between

\* The producer's copy of the head catches up.
LEMMA BehindCatchesUp ==
    ASSUME NEW a \in Indexes, NEW e \in Indexes, NEW b \in Indexes, NEW c \in Indexes,
           Between(a, b, c), Between(a, e, b)
    PROVE  Between(e, b, c) /\ Distance(e, c) <= Distance(a, c)
  <1>1. Wrap \in Nat \ {0}
    BY RingSize
  <1>2. /\ Distance(a, b) = (IF a <= b THEN b - a ELSE b + Wrap - a)
        /\ Distance(b, c) = (IF b <= c THEN c - b ELSE c + Wrap - b)
        /\ Distance(a, c) = (IF a <= c THEN c - a ELSE c + Wrap - a)
        /\ Distance(a, e) = (IF a <= e THEN e - a ELSE e + Wrap - a)
        /\ Distance(e, b) = (IF e <= b THEN b - e ELSE b + Wrap - e)
        /\ Distance(e, c) = (IF e <= c THEN c - e ELSE c + Wrap - e)
    BY DistanceIs
  <1> QED  BY <1>1, <1>2 DEF Between, Indexes

\* The consumer's copy of the tail catches up.
LEMMA AheadCatchesUp ==
    ASSUME NEW a \in Indexes, NEW b \in Indexes, NEW e \in Indexes, NEW c \in Indexes,
           Between(a, b, c), Between(b, e, c)
    PROVE  Between(a, e, c) /\ Distance(a, b) <= Distance(a, e)
  <1>1. Wrap \in Nat \ {0}
    BY RingSize
  <1>2. /\ Distance(a, b) = (IF a <= b THEN b - a ELSE b + Wrap - a)
        /\ Distance(b, c) = (IF b <= c THEN c - b ELSE c + Wrap - b)
        /\ Distance(a, c) = (IF a <= c THEN c - a ELSE c + Wrap - a)
        /\ Distance(b, e) = (IF b <= e THEN e - b ELSE e + Wrap - b)
        /\ Distance(a, e) = (IF a <= e THEN e - a ELSE e + Wrap - a)
        /\ Distance(e, c) = (IF e <= c THEN c - e ELSE c + Wrap - e)
    BY DistanceIs
  <1> QED  BY <1>1, <1>2 DEF Between, Indexes

\* Its second half: the head moves towards an index ahead of it.
LEMMA DistanceFalls ==
    ASSUME NEW a \in Indexes, NEW b \in Indexes, NEW d \in Indexes, d <= Distance(a, b)
    PROVE  Distance((a + d) % Wrap, b) = Distance(a, b) - d
  BY DistanceMoves

\* What the steps use of the invariant.
LEMMA RingFacts ==
    ASSUME RingInv
    PROVE  /\ N \in Nat \ {0} /\ N \in Nat /\ 2 * N <= Wrap /\ Wrap \in Nat /\ MaxPush \in Nat
           /\ Distance(head, tail) \in 0..N /\ Distance(prod.cached, head) \in Nat /\ Distance(prod.cached, tail) \in 0..N
           /\ Distance(head, cons.cached) \in 0..N /\ Distance(cons.cached, tail) \in 0..N
           /\ Distance(head, tail) \in Nat /\ Distance(head, cons.cached) \in Nat /\ Distance(cons.cached, tail) \in Nat
           /\ Len(taken) \in Nat /\ Len(cons.got) \in Nat /\ cons.want \in Nat
           /\ Len(cons.got) <= cons.want /\ cons.want <= Distance(head, tail) /\ Len(cons.got) <= Distance(head, tail)
           /\ head \in Nat /\ pushed \in Nat
           /\ head \in Indexes /\ tail \in Indexes /\ prod.cached \in Indexes /\ cons.cached \in Indexes
           /\ Slot(tail) = At(head, Distance(head, tail) + 1)
           /\ ReadSlot = At(head, Len(cons.got) + 1)
  <1>1. /\ N \in Nat \ {0} /\ 2 * N <= Wrap /\ Wrap \in Nat \ {0} /\ MaxPush \in Nat
        /\ head \in Indexes /\ tail \in Indexes /\ prod.cached \in Indexes /\ cons.cached \in Indexes
        /\ Len(taken) \in Nat /\ Len(cons.got) \in Nat /\ cons.want \in Nat /\ head \in Nat /\ tail \in Nat /\ pushed \in Nat
    BY RingSize DEF RingInv, RingTypes, Indexes
  <1>2. /\ Distance(head, tail) \in Nat /\ Distance(prod.cached, head) \in Nat /\ Distance(prod.cached, tail) \in Nat
        /\ Distance(head, cons.cached) \in Nat /\ Distance(cons.cached, tail) \in Nat
    <2>1. ASSUME NEW a \in Indexes, NEW b \in Indexes PROVE Distance(a, b) \in Nat
      <3>1. Distance(a, b) \in Indexes
        BY DistanceIs
      <3> QED  BY <1>1, <3>1 DEF Indexes
    <2> QED  BY <1>1, <2>1
  <1>3. /\ Distance(head, tail) \in 0..N /\ Distance(prod.cached, tail) \in 0..N
        /\ Distance(head, cons.cached) \in 0..N /\ Distance(cons.cached, tail) \in 0..N
        /\ Distance(head, cons.cached) <= Distance(head, tail)
    <2> DEFINE D == Distance(head, tail)
               P == Distance(prod.cached, head)
               Q == Distance(prod.cached, tail)
               F == Distance(head, cons.cached)
               G == Distance(cons.cached, tail)
    <2>1. P + D = Q /\ Q <= N /\ F + G = D
      BY DEF RingInv, IndexesCount
    <2>2. D \in Nat /\ P \in Nat /\ Q \in Nat /\ F \in Nat /\ G \in Nat /\ N \in Nat
      BY <1>1, <1>2
    <2> HIDE DEF D, P, Q, F, G
    <2>3. D \in 0..N /\ Q \in 0..N /\ F \in 0..N /\ G \in 0..N /\ F <= D
      BY <2>1, <2>2
    <2> QED  BY <2>3 DEF D, Q, F, G
  <1>4. Len(cons.got) <= cons.want /\ cons.want <= Distance(head, tail)
    <2>1. cons.pc \in {"idle", "read", "publish", "gone"}
      BY DEF RingInv, RingTypes
    <2>2. Len(cons.got) <= cons.want
      BY <1>1, <2>1 DEF RingInv, CallsAllowed
    <2> QED  BY <1>1, <1>3, <2>2 DEF RingInv, CallsAllowed
  <1>5. Slot(tail) = At(head, Distance(head, tail) + 1)
    <2>1. Distance(head, tail) = (IF head <= tail THEN tail - head ELSE tail + Wrap - head)
      BY <1>1, DistanceIs
    <2>2. CASE head <= tail
      <3>1. head + (Distance(head, tail) + 1) - 1 = tail
        BY <1>1, <2>1, <2>2
      <3> QED  BY <3>1 DEF At
    <2>3. CASE ~(head <= tail)
      <3>1. head + (Distance(head, tail) + 1) - 1 = tail + Wrap
        BY <1>1, <2>1, <2>3
      <3>2. Slot(tail + Wrap) = Slot(tail)
        BY <1>1, SlotIs
      <3> QED  BY <3>1, <3>2 DEF At
    <2> QED  BY <2>2, <2>3
  <1>6. ReadSlot = At(head, Len(cons.got) + 1)
    <2>1. head + (Len(cons.got) + 1) - 1 = head + Len(cons.got)
      BY <1>1
    <2> QED  BY <2>1 DEF At, ReadSlot
  <1>7. N \in Nat /\ Len(cons.got) <= Distance(head, tail)
    BY <1>1, <1>2, <1>4
  <1> QED  BY <1>1, <1>2, <1>3, <1>4, <1>5, <1>6, <1>7, Zenon

\* The start.
LEMMA RingInitially == SpscInit => RingInv
  <1> SUFFICES ASSUME SpscInit PROVE RingInv
    OBVIOUS
  <1>1. N \in Nat \ {0} /\ Wrap \in Nat \ {0} /\ MaxPush \in Nat /\ 0 \in Indexes
    BY RingSize DEF Indexes
  <1>2. Distance(0, 0) = 0
    BY <1>1, DistanceIs
  <1>3. /\ head = 0 /\ tail = 0 /\ prod = [pc |-> "idle", cached |-> 0] /\ pushed = 0 /\ taken = << >> /\ dropped = << >>
        /\ cons = [pc |-> "idle", cached |-> 0, want |-> 0, got |-> << >>] /\ buf = [s \in Slots |-> 0]
    BY DEF SpscInit, Uninit
  <1>4. RingTypes
    BY <1>1, <1>3 DEF RingTypes
  <1>5. IndexesCount /\ CallsAllowed
    BY <1>1, <1>2, <1>3 DEF IndexesCount, CallsAllowed
  <1>6. ValuesOut
    BY <1>3 DEF ValuesOut, Gone
  <1>7. ValuesIn
    <2> SUFFICES ASSUME NEW i \in 1..N PROVE buf[At(head, i)] = 0 /\ ~Filled(i)
      BY DEF ValuesIn, Uninit
    <2>1. At(0, i) \in Slots
      BY SlotsApart
    <2> QED  BY <1>1, <1>2, <1>3, <2>1 DEF Filled
  <1> QED  BY <1>4, <1>5, <1>6, <1>7 DEF RingInv

\* try_push tests for room, with a copy of the head that may be stale.
LEMMA PushCheckKeeps == ASSUME RingInv, PushCheck PROVE RingInv'
  <1>1. /\ prod.pc = "idle" /\ pushed < MaxPush /\ UNCHANGED <<head, tail, buf, cons, pushed, taken, dropped>>
        /\ prod \in [pc : {"idle", "write", "publish", "gone"}, cached : Indexes]
    BY DEF PushCheck, RingInv, RingTypes
  <1>2. PICK seen \in Indexes :
           /\ prod'.cached = seen /\ prod' \in [pc : {"idle", "write"}, cached : Indexes]
           /\ prod'.pc = "write" => Distance(seen, tail) < N
           /\ Between(seen, head, tail) /\ Distance(seen, tail) <= Distance(prod.cached, tail)
    <2>1. Between(prod.cached, head, tail)
      BY DEF RingInv, IndexesCount, Between
    <2>2. CASE Room(prod.cached) /\ prod' = [prod EXCEPT !.pc = "write"]
      <3>1. prod' = [pc |-> "write", cached |-> prod.cached] /\ prod.cached \in Indexes
        BY <1>1, <2>2
      <3>2. Distance(prod.cached, tail) <= Distance(prod.cached, tail)
        BY RingFacts
      <3> QED  BY <2>1, <2>2, <3>1, <3>2 DEF Room
    <2>3. ASSUME NEW s \in Loadable(prod.cached, head), prod' = [pc |-> IF Room(s) THEN "write" ELSE "idle", cached |-> s]
          PROVE  /\ s \in Indexes /\ prod'.cached = s /\ prod' \in [pc : {"idle", "write"}, cached : Indexes]
                 /\ prod'.pc = "write" => Distance(s, tail) < N
                 /\ Between(s, head, tail) /\ Distance(s, tail) <= Distance(prod.cached, tail)
      <3>1. head \in Indexes /\ tail \in Indexes /\ prod.cached \in Indexes
        BY RingFacts
      <3>2. s \in Indexes /\ Between(prod.cached, s, head)
        BY <3>1, LoadedBetween
      <3>3. Between(s, head, tail) /\ Distance(s, tail) <= Distance(prod.cached, tail)
        BY <2>1, <3>1, <3>2, BehindCatchesUp
      <3> QED  BY <2>3, <3>2, <3>3 DEF Room
    <2> QED  BY <2>2, <2>3 DEF PushCheck
  <1>3. RingTypes'
    BY <1>1, <1>2 DEF RingInv, RingTypes
  <1>4. IndexesCount'
    <2>1. Distance(seen, tail) <= N
      <3>1. Distance(seen, tail) \in Nat
        <4>1. Distance(seen, tail) \in Indexes
          BY RingFacts, DistanceIs
        <4> QED  BY <4>1, RingSize DEF Indexes
      <3> QED  BY <1>2, <3>1, RingFacts
    <2> QED  BY <1>1, <1>2, <2>1 DEF RingInv, IndexesCount, Between
  <1>5. CallsAllowed'
    BY <1>1, <1>2 DEF RingInv, CallsAllowed
  <1>6. ~Gone /\ ~Gone' /\ prod'.pc # "publish"
    BY <1>1, <1>2 DEF Gone
  <1>7. ValuesOut'
    BY <1>1, <1>6 DEF RingInv, ValuesOut
  <1>8. ValuesIn'
    BY <1>1, <1>6 DEF RingInv, ValuesIn, Filled, At
  <1> QED  BY <1>3, <1>4, <1>5, <1>7, <1>8 DEF RingInv

\* The value goes into the slot at the tail.
LEMMA PushWriteKeeps == ASSUME RingInv, PushWrite PROVE RingInv'
  <1> DEFINE D == Distance(head, tail)
  <1>1. /\ prod.pc = "write" /\ UNCHANGED <<head, tail, cons, pushed, taken, dropped>>
        /\ prod' = [pc |-> "publish", cached |-> prod.cached] /\ buf' = [buf EXCEPT ![Slot(tail)] = pushed + 1]
        /\ buf \in [Slots -> 0..MaxPush]
    BY DEF PushWrite, RingInv, RingTypes
  <1>2. /\ N \in Nat /\ D \in 0..N /\ Len(taken) \in Nat /\ Len(cons.got) \in Nat /\ head \in Nat /\ pushed \in Nat
        /\ Len(cons.got) <= D /\ Slot(tail) = At(head, D + 1) /\ MaxPush \in Nat /\ prod.cached \in Indexes
    BY RingFacts, Zenon
  <1>3. pushed < MaxPush /\ D + 1 \in 1..N /\ pushed + 1 = Len(taken) + (D + 1)
    <2>1. pushed < MaxPush /\ Distance(prod.cached, tail) < N /\ D <= Distance(prod.cached, tail) /\ pushed = Len(taken) + D
      BY <1>1, RingFacts DEF RingInv, CallsAllowed, IndexesCount
    <2>2. Distance(prod.cached, tail) \in Nat
      BY RingFacts
    <2> HIDE DEF D
    <2> QED  BY <1>2, <2>1, <2>2
  <1>4. Slot(tail) \in Slots /\ \A i \in 1..N : At(head, i) \in Slots /\ (At(head, i) = Slot(tail) => i = D + 1)
    <2>1. PICK k \in 1..N : k = D + 1
      BY <1>3
    <2>2. /\ \A i \in 1..N : At(head, i) \in Slots
          /\ \A i, j \in 1..N : At(head, i) = At(head, j) => i = j
      BY <1>2, SlotsApart
    <2>3. Slot(tail) = At(head, k)
      BY <1>2, <2>1
    <2> HIDE DEF D
    <2> QED  BY <2>1, <2>2, <2>3, Zenon
  <1>5. RingTypes'
    <2>1. buf' \in [Slots -> 0..MaxPush]
      BY <1>1, <1>2, <1>3, <1>4
    <2> QED  BY <1>1, <1>2, <2>1 DEF RingInv, RingTypes
  <1>6. IndexesCount' /\ CallsAllowed'
    BY <1>1 DEF RingInv, IndexesCount, CallsAllowed
  <1>7. ~Gone /\ ~Gone'
    BY <1>1 DEF Gone
  <1>8. ValuesOut'
    BY <1>1, <1>7 DEF RingInv, ValuesOut
  <1>9. ValuesIn'
    <2> SUFFICES ASSUME NEW i \in 1..N PROVE buf'[At(head, i)] = IF Filled(i)' THEN Len(taken) + i ELSE Uninit
      BY <1>1 DEF ValuesIn, At
    <2>1. Filled(i)' <=> Len(cons.got) < i /\ (i <= D \/ i = D + 1)
      BY <1>1 DEF Filled
    <2>2. CASE i = D + 1
      <3>1. Filled(i)'
        BY <1>2, <2>1, <2>2
      <3>2. buf'[At(head, i)] = pushed + 1
        BY <1>1, <1>2, <1>4, <2>2
      <3> QED  BY <1>3, <2>2, <3>1, <3>2
    <2>3. CASE i # D + 1
      <3>1. Filled(i)' <=> Filled(i)
        BY <1>1, <2>1, <2>3 DEF Filled
      <3>2. buf'[At(head, i)] = buf[At(head, i)]
        BY <1>1, <1>4, <2>3
      <3>3. buf[At(head, i)] = IF Filled(i) THEN Len(taken) + i ELSE Uninit
        BY <1>7 DEF RingInv, ValuesIn
      <3> QED  BY <3>1, <3>2, <3>3
    <2> QED  BY <2>2, <2>3
  <1> QED  BY <1>5, <1>6, <1>8, <1>9 DEF RingInv

\* The tail is published.
LEMMA PushPublishKeeps == ASSUME RingInv, PushPublish PROVE RingInv'
  <1> DEFINE D == Distance(head, tail)
  <1>1. /\ prod.pc = "publish" /\ UNCHANGED <<head, buf, cons, taken, dropped>>
        /\ prod' = [pc |-> "idle", cached |-> prod.cached] /\ pushed' = pushed + 1 /\ tail' = (tail + 1) % Wrap
    BY DEF PushPublish, RingInv, RingTypes
  <1>2. /\ N \in Nat /\ 2 * N <= Wrap /\ Wrap \in Nat /\ D \in 0..N /\ Len(taken) \in Nat /\ Len(cons.got) \in Nat
        /\ pushed \in Nat /\ MaxPush \in Nat
        /\ head \in Indexes /\ tail \in Indexes /\ prod.cached \in Indexes /\ cons.cached \in Indexes
        /\ Distance(prod.cached, tail) \in 0..N /\ Distance(cons.cached, tail) \in 0..N
        /\ Distance(prod.cached, head) \in Nat /\ Distance(head, cons.cached) \in Nat /\ Len(cons.got) <= D
    BY RingFacts, Zenon
  <1>3. /\ pushed < MaxPush /\ Distance(prod.cached, tail) < N /\ pushed = Len(taken) + D
        /\ Distance(prod.cached, head) + D = Distance(prod.cached, tail)
        /\ Distance(head, cons.cached) + Distance(cons.cached, tail) = D
    BY <1>1 DEF RingInv, CallsAllowed, IndexesCount
  <1>4. /\ Distance(head, tail') = D + 1
        /\ Distance(prod.cached, tail') = Distance(prod.cached, tail) + 1
        /\ Distance(cons.cached, tail') = Distance(cons.cached, tail) + 1
        /\ tail' \in Indexes
    <2>1. 1 \in Indexes /\ N > 0 /\ N + 1 <= Wrap
      BY <1>2, RingSize DEF Indexes
    <2>2. D + 1 < Wrap /\ Distance(prod.cached, tail) + 1 < Wrap /\ Distance(cons.cached, tail) + 1 < Wrap
      <3>1. D < N /\ Distance(cons.cached, tail) < N
        <4> HIDE DEF D
        <4> QED  BY <1>2, <1>3
      <3>2. ASSUME NEW x \in 0..N, x < N PROVE x + 1 < Wrap
        <4>1. N \in Nat /\ Wrap \in Nat /\ N + 1 <= Wrap
          BY <1>2, <2>1, Zenon
        <4> QED  BY <3>2, <4>1
      <3> QED  BY <1>2, <1>3, <3>1, <3>2
    <2>3. /\ Distance(head, (tail + 1) % Wrap) = D + 1
          /\ Distance(prod.cached, (tail + 1) % Wrap) = Distance(prod.cached, tail) + 1
          /\ Distance(cons.cached, (tail + 1) % Wrap) = Distance(cons.cached, tail) + 1
      BY <1>2, <2>1, <2>2, DistanceMoves
    <2>4. (tail + 1) % Wrap \in Indexes
      BY <1>2, <2>1, AdvanceIs
    <2> QED  BY <1>1, <2>3, <2>4
  <1>5. RingTypes'
    <2>1. pushed' \in 0..MaxPush
      <3>1. pushed' = pushed + 1 /\ pushed \in Nat /\ MaxPush \in Nat /\ pushed < MaxPush
        BY <1>1, <1>2, <1>3
      <3> QED  BY <3>1
    <2> QED  BY <1>1, <1>2, <1>4, <2>1 DEF RingInv, RingTypes
  <1>6. IndexesCount'
    <2>1. D \in Nat /\ Distance(prod.cached, tail) \in Nat /\ Distance(cons.cached, tail) \in Nat
      BY <1>2
    <2> HIDE DEF D
    <2>2. pushed' = Len(taken) + (D + 1)
      BY <1>1, <1>2, <1>3, <2>1
    <2>3. /\ Distance(prod.cached, head) + (D + 1) = Distance(prod.cached, tail) + 1
          /\ Distance(prod.cached, tail) + 1 <= N
      BY <1>2, <1>3, <2>1
    <2>4. Distance(head, cons.cached) + (Distance(cons.cached, tail) + 1) = D + 1
      <3>1. Distance(head, cons.cached) \in Nat /\ Distance(head, cons.cached) + Distance(cons.cached, tail) = D
        BY <1>2, <1>3
      <3> QED  BY <2>1, <3>1
    <2> QED  BY <1>1, <1>4, <2>2, <2>3, <2>4 DEF IndexesCount
  <1>7. CallsAllowed'
    BY <1>1 DEF RingInv, CallsAllowed
  <1>8. ~Gone /\ ~Gone'
    BY <1>1 DEF Gone
  <1>9. ValuesOut'
    BY <1>1, <1>8 DEF RingInv, ValuesOut
  <1>10. ValuesIn'
    <2> SUFFICES ASSUME NEW i \in 1..N PROVE Filled(i)' <=> Filled(i)
      BY <1>1, <1>8 DEF RingInv, ValuesIn, At
    <2>1. Filled(i)' <=> Len(cons.got) < i /\ i <= D + 1
      BY <1>1, <1>4 DEF Filled
    <2>2. Filled(i) <=> Len(cons.got) < i /\ (i <= D \/ i = D + 1)
      BY <1>1 DEF Filled
    <2> HIDE DEF D
    <2> QED  BY <1>2, <2>1, <2>2
  <1> QED  BY <1>5, <1>6, <1>7, <1>9, <1>10 DEF RingInv

\* A pop or a batch of pops begins, with a copy of the tail that may be stale.
LEMMA PopBegins ==
    ASSUME RingInv, cons.pc = "idle", NEW seen \in Indexes, Between(head, seen, tail),
           NEW most \in Nat, most <= Distance(head, seen), Begin(seen, most),
           UNCHANGED <<head, tail, buf, prod, pushed, taken, dropped>>
    PROVE  RingInv'
  <1>1. cons \in [pc : {"idle", "read", "publish", "gone"}, cached : Indexes, want : Nat, got : Seq(Nat)]
        /\ cons.got = << >> /\ cons.want = 0
    BY DEF RingInv, RingTypes, CallsAllowed
  <1>2. /\ cons' \in [pc : {"idle", "read", "publish", "gone"}, cached : Indexes, want : Nat, got : Seq(Nat)]
        /\ cons'.cached = seen /\ cons'.got = << >> /\ cons'.want = most
        /\ (cons'.pc = "idle" /\ most = 0) \/ (cons'.pc = "read" /\ most > 0)
    <2>1. CASE most = 0
      BY <1>1, <2>1 DEF Begin
    <2>2. CASE most # 0
      <3>1. cons' = [pc |-> "read", cached |-> seen, want |-> most, got |-> << >>]
        BY <2>2 DEF Begin
      <3> QED  BY <2>2, <3>1
    <2> QED  BY <2>1, <2>2
  <1>3. RingTypes'
    BY <1>2 DEF RingInv, RingTypes
  <1>4. IndexesCount'
    BY <1>2 DEF RingInv, IndexesCount, Between
  <1>5. CallsAllowed'
    BY <1>2 DEF RingInv, CallsAllowed
  <1>6. ~Gone /\ ~Gone'
    BY <1>2 DEF Gone
  <1>7. ValuesOut'
    BY <1>1, <1>2, <1>6 DEF RingInv, ValuesOut
  <1>8. ValuesIn'
    BY <1>1, <1>2, <1>6 DEF RingInv, ValuesIn, Filled, At
  <1> QED  BY <1>3, <1>4, <1>5, <1>7, <1>8 DEF RingInv

\* What a load of the tail tells the consumer.
LEMMA TailSeen ==
    ASSUME RingInv, NEW seen \in Loadable(cons.cached, tail)
    PROVE  seen \in Indexes /\ Between(head, seen, tail) /\ Distance(head, seen) \in Nat
  <1>1. head \in Indexes /\ tail \in Indexes /\ cons.cached \in Indexes
    BY RingFacts
  <1>2. seen \in Indexes /\ Between(cons.cached, seen, tail)
    BY <1>1, LoadedBetween
  <1>3. Between(head, cons.cached, tail)
    BY DEF RingInv, IndexesCount, Between
  <1>4. Distance(head, seen) \in Indexes
    BY <1>1, <1>2, DistanceIs
  <1> QED  BY <1>1, <1>2, <1>3, <1>4, AheadCatchesUp, RingSize DEF Indexes

\* Indexes that differ are at a distance.
LEMMA IndexesApart == ASSUME NEW a \in Indexes, NEW b \in Indexes, a # b PROVE 1 <= Distance(a, b)
  <1>1. Distance(a, b) = (IF a <= b THEN b - a ELSE b + Wrap - a)
    BY DistanceIs
  <1> QED  BY <1>1, RingSize DEF Indexes

\* try_pop and try_pop_batch test for values.
LEMMA PopCheckKeeps ==
    ASSUME RingInv, PopCheck \/ \E room \in 0..BatchMax : BatchCheck(room)
    PROVE  RingInv'
  <1>1. head \in Indexes /\ tail \in Indexes /\ cons.cached \in Indexes /\ Between(head, cons.cached, tail)
    BY RingFacts DEF RingInv, IndexesCount, Between
  <1>2. CASE PopCheck
    <2>1. cons.pc = "idle" /\ UNCHANGED <<head, tail, buf, prod, pushed, taken, dropped>>
      BY <1>2 DEF PopCheck
    <2>2. CASE head # cons.cached /\ Begin(cons.cached, 1)
      BY <1>1, <2>1, <2>2, PopBegins, IndexesApart
    <2>3. ASSUME NEW seen \in Loadable(cons.cached, tail), Begin(seen, IF head = seen THEN 0 ELSE 1) PROVE RingInv'
      <3>1. seen \in Indexes /\ Between(head, seen, tail) /\ Distance(head, seen) \in Nat
        BY TailSeen
      <3>2. CASE head = seen
        <4>1. Begin(seen, 0) /\ 0 <= Distance(head, seen)
          BY <2>3, <3>1, <3>2
        <4> QED  BY <2>1, <3>1, <4>1, PopBegins
      <3>3. CASE head # seen
        <4>1. Begin(seen, 1) /\ 1 <= Distance(head, seen)
          BY <1>1, <2>3, <3>1, <3>3, IndexesApart
        <4> QED  BY <2>1, <3>1, <4>1, PopBegins
      <3> QED  BY <3>2, <3>3
    <2> QED  BY <1>2, <2>2, <2>3 DEF PopCheck
  <1>3. ASSUME NEW room \in 0..BatchMax, BatchCheck(room) PROVE RingInv'
    <2>1. cons.pc = "idle" /\ UNCHANGED <<head, tail, buf, prod, pushed, taken, dropped>>
      BY <1>3 DEF BatchCheck
    <2>2. PICK seen \in Loadable(cons.cached, tail) : Begin(seen, AtMost(Distance(head, seen), room))
      BY <1>3 DEF BatchCheck
    <2>3. seen \in Indexes /\ Between(head, seen, tail) /\ Distance(head, seen) \in Nat
      BY TailSeen
    <2>4. AtMost(Distance(head, seen), room) \in Nat /\ AtMost(Distance(head, seen), room) <= Distance(head, seen)
      BY <2>3, RingSize DEF AtMost
    <2> QED  BY <2>1, <2>2, <2>3, <2>4, PopBegins
  <1> QED  BY <1>2, <1>3

\* A value is moved out of its slot.
LEMMA PopReadKeeps == ASSUME RingInv, PopRead PROVE RingInv'
  <1> DEFINE D == Distance(head, tail)
             k == Len(cons.got) + 1
  <1>1. /\ cons.pc = "read" /\ UNCHANGED <<head, tail, prod, pushed, taken, dropped>>
        /\ buf' = [buf EXCEPT ![ReadSlot] = Uninit] /\ buf \in [Slots -> 0..MaxPush]
        /\ cons.got \in Seq(Nat) /\ Len(cons.got) < cons.want /\ cons.want <= Distance(head, cons.cached)
        /\ cons \in [pc : {"idle", "read", "publish", "gone"}, cached : Indexes, want : Nat, got : Seq(Nat)]
    BY DEF PopRead, RingInv, RingTypes, CallsAllowed
  <1>2. /\ N \in Nat /\ D \in 0..N /\ D \in Nat /\ Len(taken) \in Nat /\ Len(cons.got) \in Nat /\ head \in Nat /\ MaxPush \in Nat
        /\ cons.want <= D /\ cons.want \in Nat /\ ReadSlot = At(head, k)
    BY RingFacts
  <1>3. k \in 1..N /\ k <= D /\ k <= cons.want
    <2> HIDE DEF D
    <2> QED  BY <1>1, <1>2
  <1> HIDE DEF D
  <1>4. /\ ReadSlot \in Slots
        /\ \A i \in 1..N : At(head, i) \in Slots /\ (At(head, i) = ReadSlot => i = k)
    <2>1. /\ \A i \in 1..N : At(head, i) \in Slots
          /\ \A i, j \in 1..N : At(head, i) = At(head, j) => i = j
      BY <1>2, SlotsApart
    <2> HIDE DEF k
    <2> QED  BY <1>2, <1>3, <2>1, Zenon
  <1>5. ~Gone /\ ~Gone'
    <2>1. cons'.pc # "gone"
      BY <1>1 DEF PopRead
    <2> QED  BY <1>1, <2>1 DEF Gone
  <1>6. buf[ReadSlot] = Len(taken) + k /\ buf[ReadSlot] \in Nat
    <2>1. Filled(k)
      BY <1>2, <1>3 DEF Filled, D
    <2>2. buf[At(head, k)] = Len(taken) + k
      BY <1>3, <1>5, <2>1 DEF RingInv, ValuesIn
    <2> QED  BY <1>2, <2>2
  <1>7. /\ cons' = [pc |-> IF k = cons.want THEN "publish" ELSE "read", cached |-> cons.cached,
                    want |-> cons.want, got |-> Append(cons.got, buf[ReadSlot])]
        /\ Len(Append(cons.got, buf[ReadSlot])) = k /\ Append(cons.got, buf[ReadSlot]) \in Seq(Nat)
    <2>1. Len(Append(cons.got, buf[ReadSlot])) = k /\ Append(cons.got, buf[ReadSlot]) \in Seq(Nat)
      BY <1>1, <1>6
    <2>2. LET got == Append(cons.got, buf[ReadSlot])
          IN  cons' = [cons EXCEPT !.got = got, !.pc = IF Len(got) = cons.want THEN "publish" ELSE "read"]
      BY DEF PopRead
    <2> QED  BY <1>1, <2>1, <2>2
  <1>8. RingTypes'
    <2>1. buf' \in [Slots -> 0..MaxPush]
      BY <1>1, <1>2, <1>4 DEF Uninit
    <2>2. cons' \in [pc : {"idle", "read", "publish", "gone"}, cached : Indexes, want : Nat, got : Seq(Nat)]
      BY <1>1, <1>7
    <2> QED  BY <1>1, <2>1, <2>2 DEF RingInv, RingTypes
  <1>9. IndexesCount'
    BY <1>1, <1>7 DEF RingInv, IndexesCount
  <1>10. CallsAllowed'
    <2>1. prod.pc \in {"write", "publish"} => pushed < MaxPush /\ Distance(prod.cached, tail) < N
      BY DEF RingInv, CallsAllowed
    <2>2. Len(cons'.got) = k /\ cons'.want = cons.want /\ cons'.cached = cons.cached
          /\ cons'.pc = IF k = cons.want THEN "publish" ELSE "read"
      BY <1>7
    <2>3. k # cons.want => k < cons.want
      BY <1>2, <1>3
    <2>4. cons.want > 0
      BY <1>1, <1>2
    <2> HIDE DEF k
    <2> QED  BY <1>1, <2>1, <2>2, <2>3, <2>4 DEF CallsAllowed
  <1>11. ValuesOut'
    <2>1. \A i \in 1..Len(cons'.got) : cons'.got[i] = Len(taken) + i
      <3> SUFFICES ASSUME NEW i \in 1..k PROVE Append(cons.got, buf[ReadSlot])[i] = Len(taken) + i
        BY <1>7
      <3>1. CASE i = k
        BY <1>1, <1>2, <1>6, <3>1
      <3>2. CASE i # k
        <4>1. i \in 1..Len(cons.got)
          BY <1>2, <3>2
        <4>2. cons.got[i] = Len(taken) + i
          BY <4>1 DEF RingInv, ValuesOut
        <4> QED  BY <1>1, <1>6, <4>1, <4>2
      <3> QED  BY <3>1, <3>2
    <2> QED  BY <1>1, <1>5, <2>1 DEF RingInv, ValuesOut
  <1>12. ValuesIn'
    <2> SUFFICES ASSUME NEW i \in 1..N PROVE buf'[At(head, i)] = IF Filled(i)' THEN Len(taken) + i ELSE Uninit
      BY <1>1 DEF ValuesIn, At
    <2>1. Filled(i)' <=> k < i /\ (i <= D \/ (i = D + 1 /\ prod.pc = "publish"))
      BY <1>1, <1>7 DEF Filled, D
    <2>2. CASE i = k
      <3>1. ~Filled(i)'
        BY <1>2, <2>1, <2>2
      <3> QED  BY <1>1, <1>2, <1>4, <2>2, <3>1
    <2>3. CASE i # k
      <3>1. k < i <=> Len(cons.got) < i
        BY <1>2, <2>3
      <3>2. Filled(i)' <=> Filled(i)
        BY <2>1, <3>1 DEF Filled, D
      <3>3. buf'[At(head, i)] = buf[At(head, i)]
        BY <1>1, <1>4, <2>3
      <3>4. buf[At(head, i)] = IF Filled(i) THEN Len(taken) + i ELSE Uninit
        BY <1>5 DEF RingInv, ValuesIn
      <3> QED  BY <3>2, <3>3, <3>4
    <2> QED  BY <2>2, <2>3
  <1> QED  BY <1>8, <1>9, <1>10, <1>11, <1>12 DEF RingInv

\* One sequence after the other.
LEMMA Joined ==
    ASSUME NEW s \in Seq(Nat), NEW t \in Seq(Nat)
    PROVE  /\ s \o t \in Seq(Nat) /\ Len(s \o t) = Len(s) + Len(t)
           /\ \A i \in 1..Len(s) : (s \o t)[i] = s[i]
           /\ \A i \in 1..Len(t) : (s \o t)[Len(s) + i] = t[i]
  OBVIOUS

\* The head is published.
LEMMA PopPublishKeeps == ASSUME RingInv, PopPublish PROVE RingInv'
  <1> DEFINE D == Distance(head, tail)
             w == cons.want
             H == Len(taken)
  <1>1. /\ cons.pc = "publish" /\ UNCHANGED <<tail, buf, prod, pushed, dropped>>
        /\ cons' = [pc |-> "idle", cached |-> cons.cached, want |-> 0, got |-> << >>]
        /\ head' = (head + w) % Wrap /\ taken' = taken \o cons.got /\ Len(cons.got) = w /\ w > 0
        /\ w <= Distance(head, cons.cached)
        /\ taken \in Seq(Nat) /\ cons.got \in Seq(Nat)
    BY DEF PopPublish, RingInv, RingTypes, CallsAllowed
  <1>2. /\ N \in Nat /\ 2 * N <= Wrap /\ Wrap \in Nat /\ D \in 0..N /\ D \in Nat /\ H \in Nat /\ w \in Nat /\ w <= D
        /\ head \in Indexes /\ tail \in Indexes /\ prod.cached \in Indexes /\ cons.cached \in Indexes
        /\ Distance(prod.cached, head) \in Nat /\ Distance(prod.cached, tail) \in 0..N
        /\ Distance(head, cons.cached) \in Nat /\ Distance(cons.cached, tail) \in Nat
    BY RingFacts
  <1>3. /\ pushed = H + D /\ Distance(prod.cached, head) + D = Distance(prod.cached, tail)
        /\ Distance(head, cons.cached) + Distance(cons.cached, tail) = D
    BY DEF RingInv, IndexesCount
  <1>4. w \in 0..N /\ w \in Indexes
    <2> HIDE DEF D, w
    <2> QED  BY <1>2 DEF Indexes
  <1>5. /\ Distance(head', tail) = D - w
        /\ Distance(head', cons.cached) = Distance(head, cons.cached) - w
        /\ Distance(prod.cached, head') = Distance(prod.cached, head) + w
        /\ head' \in Indexes
    <2>1. Distance(prod.cached, head) + w < Wrap
      <3>1. N < Wrap
        BY RingSize
      <3>2. Distance(prod.cached, head) + D <= N
        BY <1>2, <1>3
      <3> HIDE DEF D, w
      <3> QED  BY <1>2, <3>1, <3>2
    <2>2. /\ Distance((head + w) % Wrap, tail) = D - w
          /\ Distance((head + w) % Wrap, cons.cached) = Distance(head, cons.cached) - w
          /\ Distance(prod.cached, (head + w) % Wrap) = Distance(prod.cached, head) + w
      <3>1. w <= D /\ w <= Distance(head, cons.cached)
        BY <1>1, <1>2
      <3>2. /\ head \in Indexes /\ tail \in Indexes /\ prod.cached \in Indexes /\ cons.cached \in Indexes
        BY <1>2
      <3> HIDE DEF w
      <3>0. w \in Indexes
        BY <1>4
      <3>3. Distance((head + w) % Wrap, tail) = Distance(head, tail) - w
        BY <3>0, <3>1, <3>2, DistanceFalls
      <3>4. Distance((head + w) % Wrap, cons.cached) = Distance(head, cons.cached) - w
        BY <3>0, <3>1, <3>2, DistanceFalls
      <3>5. Distance(prod.cached, (head + w) % Wrap) = Distance(prod.cached, head) + w
        BY <3>0, <2>1, <3>2, DistanceMoves, Zenon
      <3> QED  BY <3>3, <3>4, <3>5, Zenon
    <2>3. (head + w) % Wrap \in Indexes
      BY <1>2, <1>4, AdvanceIs
    <2> QED  BY <1>1, <2>2, <2>3
  <1>6. /\ taken' \in Seq(Nat) /\ Len(taken') = H + w
        /\ \A i \in 1..H : taken'[i] = taken[i]
        /\ \A i \in 1..w : taken'[H + i] = cons.got[i]
    <2>1. taken' = taken \o cons.got /\ taken \in Seq(Nat) /\ cons.got \in Seq(Nat) /\ Len(cons.got) = w
      BY <1>1
    <2> HIDE DEF w
    <2> QED  BY <2>1, Joined, Zenon
  <1>7. RingTypes'
    BY <1>1, <1>2, <1>5, <1>6 DEF RingInv, RingTypes
  <1>8. IndexesCount'
    <2> HIDE DEF D, w, H
    <2>1. pushed = (H + w) + (D - w)
      BY <1>2, <1>3
    <2>2. (Distance(prod.cached, head) + w) + (D - w) = Distance(prod.cached, tail)
      BY <1>2, <1>3
    <2>3. (Distance(head, cons.cached) - w) + Distance(cons.cached, tail) = D - w
      BY <1>2, <1>3
    <2>4. Distance(prod.cached, tail) <= N
      BY <1>2
    <2> QED  BY <1>1, <1>5, <1>6, <2>1, <2>2, <2>3, <2>4 DEF IndexesCount
  <1>9. CallsAllowed'
    <2>1. Distance(head, cons.cached) - w >= 0
      <3> HIDE DEF w
      <3> QED  BY <1>1, <1>2
    <2> QED  BY <1>1, <1>5, <2>1 DEF RingInv, CallsAllowed
  <1>10. ~Gone /\ ~Gone'
    BY <1>1 DEF Gone
  <1>11. ValuesOut'
    <2>1. ASSUME NEW i \in 1..(H + w) PROVE taken'[i] = i
      <3>1. CASE i <= H
        <4>1. i \in 1..H
          BY <1>2, <2>1, <3>1
        <4>2. taken[i] = i
          BY <4>1 DEF RingInv, ValuesOut
        <4> QED  BY <1>6, <4>1, <4>2
      <3>2. CASE i > H
        <4>1. PICK j \in 1..w : i = H + j
          <5>1. i - H \in 1..w /\ i = H + (i - H)
            BY <1>2, <2>1, <3>2
          <5> QED  BY <5>1
        <4>2. cons.got[j] = H + j
          BY <1>1, <4>1 DEF RingInv, ValuesOut
        <4> QED  BY <1>6, <4>1, <4>2
      <3> QED  BY <1>2, <2>1, <3>1, <3>2
    <2> QED  BY <1>1, <1>6, <1>10, <2>1 DEF RingInv, ValuesOut
  <1>12. ValuesIn'
    <2> SUFFICES ASSUME NEW i \in 1..N PROVE buf[At(head', i)] = IF Filled(i)' THEN (H + w) + i ELSE Uninit
      BY <1>1, <1>6 DEF ValuesIn, At
    <2>1. Filled(i)' <=> 0 < i /\ (i <= D - w \/ (i = (D - w) + 1 /\ prod.pc = "publish"))
      BY <1>1, <1>5 DEF Filled
    <2>2. At(head', i) = At(head, IF i + w <= N THEN i + w ELSE i + w - N)
      BY <1>1, <1>2, <1>4, SlotsMove
    <2>3. \A j \in 1..N : buf[At(head, j)] = IF Filled(j) THEN H + j ELSE Uninit
      BY <1>10 DEF RingInv, ValuesIn
    <2>4. \A j \in 1..N : Filled(j) <=> w < j /\ (j <= D \/ (j = D + 1 /\ prod.pc = "publish"))
      BY <1>1 DEF Filled
    <2>5. prod.pc = "publish" => D < N
      <3>1. prod.pc = "publish" => Distance(prod.cached, tail) < N
        BY DEF RingInv, CallsAllowed
      <3> HIDE DEF D
      <3> QED  BY <1>2, <1>3, <3>1
    <2> HIDE DEF D, w, H
    <2>6. CASE i + w <= N
      <3>1. PICK j \in 1..N : j = i + w
        BY <1>2, <2>6
      <3>2. Filled(j) <=> Filled(i)'
        <4>1. /\ w < j <=> 0 < i
              /\ j <= D <=> i <= D - w
              /\ j = D + 1 <=> i = (D - w) + 1
          BY <1>2, <3>1
        <4> QED  BY <2>1, <2>4, <4>1, Zenon
      <3>3. H + j = (H + w) + i
        BY <1>2, <3>1
      <3>4. At(head', i) = At(head, j)
        BY <2>2, <2>6, <3>1
      <3> QED  BY <2>3, <3>2, <3>3, <3>4
    <2>7. CASE ~(i + w <= N)
      <3>1. PICK j \in 1..N : j = i + w - N /\ j <= w
        BY <1>2, <1>4, <2>7
      <3>2. ~Filled(j)
        BY <1>2, <2>4, <3>1
      <3>3. ~Filled(i)'
        BY <1>2, <2>1, <2>5, <2>7
      <3>4. At(head', i) = At(head, j)
        BY <2>2, <2>7, <3>1
      <3> QED  BY <2>3, <3>2, <3>3, <3>4
    <2> QED  BY <2>6, <2>7
  <1> QED  BY <1>7, <1>8, <1>9, <1>11, <1>12 DEF RingInv

\* The sequence of the next d values after h.
Run(h, d) == [i \in 1..d |-> h + i]

\* While a handle is left, the ring holds the values not taken yet, in order.
LEMMA RingHolds ==
    ASSUME RingInv, ~Gone
    PROVE  \A i \in 1..Distance(head, tail) : Len(cons.got) < i => InRing[i] = Len(taken) + i
  <1> SUFFICES ASSUME NEW i \in 1..Distance(head, tail), Len(cons.got) < i PROVE InRing[i] = Len(taken) + i
    OBVIOUS
  <1>1. i \in 1..N
    BY RingFacts
  <1>2. buf[At(head, i)] = Len(taken) + i
    BY <1>1 DEF RingInv, ValuesIn, Filled
  <1> QED  BY <1>2 DEF InRing, At

\* A handle is dropped, and with the last one the ring.
LEMMA DropKeeps == ASSUME RingInv, DropProducer \/ DropConsumer PROVE RingInv'
  <1> DEFINE D == Distance(head, tail)
  <1>1. /\ N \in Nat /\ D \in 0..N /\ D \in Nat /\ Len(taken) \in Nat /\ head \in Nat /\ MaxPush \in Nat
    BY RingFacts
  <1>2. /\ UNCHANGED <<head, tail, pushed, taken>> /\ ~Gone /\ Released
        /\ prod'.cached = prod.cached /\ cons'.cached = cons.cached
        /\ cons'.want = cons.want /\ cons'.got = cons.got
        /\ prod' \in [pc : {"idle", "write", "publish", "gone"}, cached : Indexes]
        /\ cons' \in [pc : {"idle", "read", "publish", "gone"}, cached : Indexes, want : Nat, got : Seq(Nat)]
        /\ \/ cons' = cons /\ prod.pc = "idle" /\ prod'.pc = "gone"
           \/ prod' = prod /\ cons.pc = "idle" /\ cons'.pc = "gone"
    BY DEF DropProducer, DropConsumer, RingInv, RingTypes, Gone
  <1>3. IndexesCount' /\ CallsAllowed'
    BY <1>2 DEF RingInv, IndexesCount, CallsAllowed
  <1>4. CASE ~Gone'
    <2>1. UNCHANGED <<dropped, buf>>
      BY <1>2, <1>4 DEF Released, Gone
    <2>2. RingTypes'
      BY <1>2, <2>1 DEF RingInv, RingTypes
    <2>3. ValuesOut'
      BY <1>2, <1>4, <2>1 DEF RingInv, ValuesOut
    <2>4. ValuesIn'
      <3>1. \A i \in 1..N : Filled(i)' <=> Filled(i)
        BY <1>2 DEF Filled
      <3> QED  BY <1>2, <2>1, <3>1 DEF RingInv, ValuesIn, At
    <2> QED  BY <1>3, <2>2, <2>3, <2>4 DEF RingInv
  <1>5. CASE Gone'
    <2>1. /\ dropped' = InRing
          /\ buf' = [s \in Slots |-> IF s \in {Slot(head + i - 1) : i \in 1..D} THEN Uninit ELSE buf[s]]
      BY <1>2, <1>5 DEF Released, Gone
    <2>2. cons.got = << >> /\ prod.pc # "publish" /\ Len(cons.got) = 0
      <3>1. cons.pc \in {"idle", "gone"} /\ prod.pc # "publish"
        BY <1>2, <1>5 DEF Gone
      <3>2. cons.got = << >>
        BY <3>1 DEF RingInv, CallsAllowed
      <3> QED  BY <3>1, <3>2
    <2>3. InRing \in Seq(Nat) /\ Len(InRing) = D /\ \A i \in 1..D : InRing[i] = Len(taken) + i
      <3>1. \A i \in 1..D : InRing[i] = Len(taken) + i /\ InRing[i] \in Nat
        BY <1>1, <1>2, <2>2, RingHolds
      <3>2. InRing = [i \in 1..D |-> InRing[i]]
        BY DEF InRing
      <3> HIDE DEF D
      <3> QED  BY <1>1, <3>1, <3>2
    <2>4. ASSUME NEW s \in Slots PROVE buf'[s] = Uninit
      <3>1. PICK i \in 1..N : At(head, i) = s
        BY <1>1, SlotsApart
      <3>2. CASE i \in 1..D
        BY <2>1, <3>1, <3>2 DEF At
      <3>3. CASE i \notin 1..D
        <4>1. ~Filled(i)
          BY <1>1, <2>2, <3>3 DEF Filled
        <4>2. buf[s] = Uninit
          BY <1>2, <3>1, <4>1 DEF RingInv, ValuesIn
        <4> QED  BY <2>1, <4>2
      <3> QED  BY <3>2, <3>3
    <2>5. RingTypes'
      <3>1. buf' \in [Slots -> 0..MaxPush]
        BY <1>1, <2>1 DEF Uninit, RingInv, RingTypes
      <3> QED  BY <1>2, <2>1, <2>3, <3>1 DEF RingInv, RingTypes
    <2>6. ValuesOut'
      BY <1>2, <1>5, <2>1, <2>3, <2>4 DEF RingInv, ValuesOut
    <2>7. ValuesIn'
      BY <1>5 DEF ValuesIn
    <2> QED  BY <1>3, <2>5, <2>6, <2>7 DEF RingInv
  <1> QED  BY <1>4, <1>5

\* The invariant is one.
LEMMA RingInvariance == SpscSpec => []RingInv
  <1>1. RingInv /\ [SpscNext]_spscVars => RingInv'
    <2> SUFFICES ASSUME RingInv, [SpscNext]_spscVars PROVE RingInv'
      OBVIOUS
    <2>1. CASE SpscNext
      BY <2>1, PushCheckKeeps, PushWriteKeeps, PushPublishKeeps, PopCheckKeeps, PopReadKeeps, PopPublishKeeps, DropKeeps
      DEF SpscNext
    <2>2. CASE UNCHANGED spscVars
      BY <2>2 DEF spscVars, RingInv, RingTypes, IndexesCount, CallsAllowed, ValuesOut, ValuesIn, Gone, Filled, At
    <2> QED  BY <2>1, <2>2
  <1> QED  BY <1>1, RingInitially, PTL DEF SpscSpec

\* The invariant says what the property does.
LEMMA RingInvSafe == RingInv => RingSafe
  <1> SUFFICES ASSUME RingInv PROVE RingSafe
    OBVIOUS
  <1> DEFINE D == Distance(head, tail)
  <1>1. /\ N \in Nat /\ D \in 0..N /\ D \in Nat /\ Len(taken) \in Nat /\ Len(cons.got) \in Nat /\ head \in Nat
        /\ cons.want \in Nat /\ cons.want <= D /\ Slot(tail) = At(head, D + 1) /\ ReadSlot = At(head, Len(cons.got) + 1)
        /\ Distance(prod.cached, tail) \in Nat /\ Distance(prod.cached, head) \in Nat
    BY RingFacts
  <1>2. SpscTypeOK
    BY DEF RingInv, RingTypes, SpscTypeOK, Indexes
  <1>3. prod.pc = "write" => D + 1 \in 1..N /\ ~Filled(D + 1) /\ ~Gone
    <2> SUFFICES ASSUME prod.pc = "write" PROVE D + 1 \in 1..N /\ ~Filled(D + 1) /\ ~Gone
      OBVIOUS
    <2>1. Distance(prod.cached, tail) < N /\ Distance(prod.cached, head) + D = Distance(prod.cached, tail)
      BY DEF RingInv, CallsAllowed, IndexesCount
    <2>2. ~Filled(D + 1)
      BY <1>1 DEF Filled
    <2> HIDE DEF D
    <2> QED  BY <1>1, <2>1, <2>2 DEF Gone
  <1>4. cons.pc = "read" => Len(cons.got) + 1 \in 1..D /\ Len(cons.got) + 1 \in 1..N /\ Filled(Len(cons.got) + 1) /\ ~Gone
    <2> SUFFICES ASSUME cons.pc = "read"
                 PROVE  Len(cons.got) + 1 \in 1..D /\ Len(cons.got) + 1 \in 1..N /\ Filled(Len(cons.got) + 1) /\ ~Gone
      OBVIOUS
    <2>1. Len(cons.got) < cons.want
      BY DEF RingInv, CallsAllowed
    <2>2. Len(cons.got) + 1 \in 1..D /\ Len(cons.got) + 1 \in 1..N
      BY <1>1, <2>1
    <2> QED  BY <1>1, <2>2 DEF Filled, Gone
  <1>5. NoSlotRace
    <2> SUFFICES ASSUME prod.pc = "write", cons.pc = "read" PROVE Slot(tail) # ReadSlot
      BY DEF NoSlotRace
    <2>1. D + 1 \in 1..N /\ Len(cons.got) + 1 \in 1..N /\ Len(cons.got) + 1 # D + 1
      BY <1>1, <1>3, <1>4
    <2>2. \A i, j \in 1..N : At(head, i) = At(head, j) => i = j
      BY <1>1, SlotsApart
    <2> QED  BY <1>1, <2>1, <2>2
  <1>6. SlotsInitialised
    <2>1. cons.pc = "read" => buf[ReadSlot] # Uninit
      <3> SUFFICES ASSUME cons.pc = "read" PROVE buf[ReadSlot] # Uninit
        OBVIOUS
      <3>1. buf[At(head, Len(cons.got) + 1)] = Len(taken) + (Len(cons.got) + 1)
        BY <1>4 DEF RingInv, ValuesIn
      <3> QED  BY <1>1, <3>1 DEF Uninit
    <2>2. prod.pc = "write" => buf[Slot(tail)] = Uninit
      BY <1>1, <1>3 DEF RingInv, ValuesIn
    <2>3. \A i \in 1..Len(dropped) : dropped[i] # Uninit
      BY <1>1 DEF RingInv, ValuesOut, Uninit
    <2> QED  BY <2>1, <2>2, <2>3 DEF SlotsInitialised, RingInv, ValuesOut, Gone
  <1>7. InOrderOnce
    <2> DEFINE gone == taken \o dropped
    <2>1. taken \in Seq(Nat) /\ dropped \in Seq(Nat) /\ pushed = Len(taken) + D
      BY DEF RingInv, RingTypes, IndexesCount
    <2>2. /\ Len(gone) = Len(taken) + Len(dropped)
          /\ \A i \in 1..Len(taken) : gone[i] = taken[i]
          /\ \A i \in 1..Len(dropped) : gone[Len(taken) + i] = dropped[i]
      BY <2>1, Joined, Zenon
    <2>3. Len(dropped) \in Nat /\ Len(dropped) <= D /\ (Gone => Len(dropped) = D)
      BY <1>1, <2>1 DEF RingInv, ValuesOut
    <2>4. ASSUME NEW i \in 1..Len(gone) PROVE gone[i] = i
      <3>1. CASE i <= Len(taken)
        BY <1>1, <2>2, <2>3, <2>4, <3>1 DEF RingInv, ValuesOut
      <3>2. CASE i > Len(taken)
        <4>1. PICK j \in 1..Len(dropped) : i = Len(taken) + j
          <5>1. i - Len(taken) \in 1..Len(dropped) /\ i = Len(taken) + (i - Len(taken))
            BY <1>1, <2>2, <2>3, <2>4, <3>2
          <5> QED  BY <5>1
        <4>2. dropped[j] = Len(taken) + j
          BY <4>1 DEF RingInv, ValuesOut
        <4> QED  BY <2>2, <4>1, <4>2
      <3> QED  BY <1>1, <2>2, <2>3, <2>4, <3>1, <3>2
    <2> HIDE DEF gone
    <2>5. Len(gone) <= pushed /\ (Gone => Len(gone) = pushed)
      <3> HIDE DEF D
      <3> QED  BY <1>1, <2>1, <2>2, <2>3
    <2> QED  BY <2>4, <2>5 DEF InOrderOnce, gone, Gone
  <1> QED  BY <1>2, <1>5, <1>6, <1>7 DEF RingSafe

(***************************************************************************)
(* The ring is safe for every capacity, every index width that leaves room *)
(* for two turns, and every outcome of the Acquire loads: the two threads  *)
(* never touch one slot together, a slot is read only when written, and    *)
(* every value comes out once and in order (try_push, try_pop,             *)
(* try_pop_batch, Drop for SpscRing).                                      *)
(***************************************************************************)
THEOREM RingStaysSafe == SpscSpec => []RingSafe
  BY RingInvariance, RingInvSafe, PTL

-----------------------------------------------------------------------------
(* The ring is a queue                                                     *)

\* Sequences are equal when their elements are.
LEMMA SameSeq ==
    ASSUME NEW s \in Seq(Nat), NEW t \in Seq(Nat), Len(s) = Len(t), \A i \in 1..Len(s) : s[i] = t[i]
    PROVE  s = t
  OBVIOUS

\* A run is a sequence, known by its elements.
LEMMA RunIs ==
    ASSUME NEW h \in Nat, NEW d \in Nat
    PROVE  /\ Run(h, d) \in Seq(Nat) /\ Len(Run(h, d)) = d /\ \A i \in 1..d : Run(h, d)[i] = h + i
           /\ \A s \in Seq(Nat) : Len(s) = d /\ (\A i \in 1..d : s[i] = h + i) => s = Run(h, d)
  <1>1. Run(h, d) \in Seq(Nat) /\ Len(Run(h, d)) = d /\ \A i \in 1..d : Run(h, d)[i] = h + i
    BY DEF Run
  <1>2. ASSUME NEW s \in Seq(Nat), Len(s) = d, \A i \in 1..d : s[i] = h + i PROVE s = Run(h, d)
    <2> DEFINE r == Run(h, d)
    <2>1. r \in Seq(Nat) /\ Len(r) = d /\ \A i \in 1..d : r[i] = h + i
      BY <1>1
    <2> HIDE DEF r
    <2>2. Len(s) = Len(r) /\ \A i \in 1..Len(s) : s[i] = r[i]
      BY <1>2, <2>1
    <2>3. s = r
      BY <2>1, <2>2, SameSeq
    <2> QED  BY <2>3 DEF r
  <1> QED  BY <1>1, <1>2

\* A part of a run is a run.
LEMMA RunParts ==
    ASSUME NEW h \in Nat, NEW d \in Nat, NEW k \in 0..d
    PROVE  /\ SubSeq(Run(h, d), k + 1, d) = Run(h + k, d - k)
           /\ SubSeq(Run(h, d), 1, k) = Run(h, k)
           /\ Append(Run(h, d), h + (d + 1)) = Run(h, d + 1)
  <1> DEFINE r == Run(h, d)
  <1>1. r \in Seq(Nat) /\ Len(r) = d /\ \A i \in 1..d : r[i] = h + i
    BY RunIs
  <1> HIDE DEF r
  <1>2. SubSeq(r, k + 1, d) = Run(h + k, d - k)
    <2>1. d - k \in Nat /\ h + k \in Nat
      OBVIOUS
    <2> DEFINE s == SubSeq(r, k + 1, d)
    <2>2. s \in Seq(Nat) /\ Len(s) = d - k
      BY <1>1
    <2>3. ASSUME NEW i \in 1..(d - k) PROVE s[i] = (h + k) + i
      <3>1. k + i \in 1..d /\ h + (k + i) = (h + k) + i
        BY <2>3
      <3>2. s[i] = r[k + i]
        BY <1>1, <2>3
      <3> QED  BY <1>1, <3>1, <3>2
    <2> HIDE DEF s
    <2>4. s = Run(h + k, d - k)
      BY <2>1, <2>2, <2>3, RunIs
    <2> QED  BY <2>4 DEF s
  <1>3. SubSeq(r, 1, k) = Run(h, k)
    <2> DEFINE s == SubSeq(r, 1, k)
    <2>1. s \in Seq(Nat) /\ Len(s) = k /\ k \in Nat
      BY <1>1
    <2>2. ASSUME NEW i \in 1..k PROVE s[i] = h + i
      <3>1. i \in 1..d
        BY <2>2
      <3>2. s[i] = r[i]
        BY <1>1, <2>2
      <3> QED  BY <1>1, <3>1, <3>2
    <2> HIDE DEF s
    <2>3. s = Run(h, k)
      BY <2>1, <2>2, RunIs
    <2> QED  BY <2>3 DEF s
  <1>4. Append(r, h + (d + 1)) = Run(h, d + 1)
    <2> DEFINE e == h + (d + 1)
    <2>1. e \in Nat /\ d + 1 \in Nat
      OBVIOUS
    <2> HIDE DEF e
    <2> DEFINE s == Append(r, e)
    <2>2. s \in Seq(Nat) /\ Len(s) = d + 1
      BY <1>1, <2>1
    <2>3. ASSUME NEW i \in 1..(d + 1) PROVE s[i] = h + i
      <3>1. CASE i = d + 1
        BY <1>1, <2>1, <3>1 DEF e
      <3>2. CASE i # d + 1
        <4>1. i \in 1..d
          BY <3>2
        <4> QED  BY <1>1, <2>1, <4>1
      <3> QED  BY <3>1, <3>2
    <2> HIDE DEF s
    <2>4. s = Run(h, d + 1)
      BY <2>1, <2>2, <2>3, RunIs
    <2> QED  BY <2>4 DEF s, e
  <1> QED  BY <1>2, <1>3, <1>4 DEF r

\* The queue holds the values pushed and not taken.
LEMMA ItemsAre ==
    ASSUME RingInv
    PROVE  /\ Gone => Items = << >>
           /\ ~Gone => Items = Run(Len(taken), Distance(head, tail))
  <1>1. Gone => Items = << >>
    BY DEF Gone, Items
  <1>2. ASSUME ~Gone PROVE Items = Run(Len(taken), Distance(head, tail))
    <2> DEFINE D == Distance(head, tail)
               g == cons.got
               rest == SubSeq(InRing, Len(g) + 1, D)
    <2>1. D \in Nat /\ Len(taken) \in Nat /\ Len(g) \in Nat /\ Len(g) <= D /\ g \in Seq(Nat)
          /\ \A i \in 1..Len(g) : g[i] = Len(taken) + i
      <3>1. D \in Nat /\ Len(taken) \in Nat /\ Len(g) \in Nat /\ Len(g) <= D
        BY RingFacts, Zenon
      <3>2. g \in Seq(Nat)
        BY DEF RingInv, RingTypes
      <3>3. \A i \in 1..Len(g) : g[i] = Len(taken) + i
        BY DEF RingInv, ValuesOut
      <3> QED  BY <3>1, <3>2, <3>3
    <2>2. \A i \in 1..D : Len(g) < i => InRing[i] = Len(taken) + i
      BY <1>2, RingHolds
    <2>3. InRing = [i \in 1..D |-> InRing[i]] /\ \A i \in 1..D : InRing[i] \in Nat
      <3>1. InRing = [i \in 1..D |-> InRing[i]]
        BY DEF InRing
      <3>2. ASSUME NEW i \in 1..D PROVE InRing[i] \in Nat
        <4>1. i \in 1..N /\ head \in Nat /\ N \in Nat
          BY <3>2, RingFacts
        <4>2. At(head, i) \in Slots
          BY <4>1, SlotsApart
        <4>3. buf[At(head, i)] \in 0..MaxPush
          BY <4>2 DEF RingInv, RingTypes
        <4> QED  BY <3>2, <4>3, RingSize DEF InRing, At
      <3> QED  BY <3>1, <3>2
    <2> HIDE DEF D, g
    <2>4. InRing \in Seq(Nat) /\ Len(InRing) = D
      BY <2>1, <2>3
    <2>5. rest \in Seq(Nat) /\ Len(rest) = D - Len(g) /\ \A i \in 1..(D - Len(g)) : rest[i] = InRing[Len(g) + i]
      BY <2>1, <2>4
    <2>6. Items = g \o rest
      BY <1>2, <2>4 DEF Items, Gone, g
    <2> HIDE DEF rest
    <2>7. /\ g \o rest \in Seq(Nat) /\ Len(g \o rest) = Len(g) + Len(rest)
          /\ \A i \in 1..Len(g) : (g \o rest)[i] = g[i]
          /\ \A i \in 1..Len(rest) : (g \o rest)[Len(g) + i] = rest[i]
      BY <2>1, <2>5, Joined, Zenon
    <2> DEFINE s == g \o rest
    <2> HIDE DEF s
    <2>8. s \in Seq(Nat) /\ Len(s) = D /\ \A i \in 1..D : s[i] = Len(taken) + i
      <3>1. s \in Seq(Nat) /\ Len(s) = D
        BY <2>1, <2>5, <2>7 DEF s
      <3>2. ASSUME NEW i \in 1..D PROVE s[i] = Len(taken) + i
        <4>1. CASE i <= Len(g)
          BY <2>1, <2>7, <4>1 DEF s
        <4>2. CASE i > Len(g)
          <5>1. PICK j \in 1..Len(rest) : i = Len(g) + j
            <6>1. i - Len(g) \in 1..Len(rest) /\ i = Len(g) + (i - Len(g))
              BY <2>1, <2>5, <4>2
            <6> QED  BY <6>1
          <5>2. s[i] = rest[j] /\ rest[j] = InRing[i]
            BY <2>5, <2>7, <5>1 DEF s
          <5> QED  BY <2>2, <4>2, <5>2
        <4> QED  BY <2>1, <4>1, <4>2
      <3> QED  BY <3>1, <3>2
    <2>9. /\ Run(Len(taken), D) \in Seq(Nat) /\ Len(Run(Len(taken), D)) = D
          /\ \A i \in 1..D : Run(Len(taken), D)[i] = Len(taken) + i
      BY <2>1 DEF Run
    <2>10. s = Run(Len(taken), D)
      BY <2>8, <2>9, SameSeq
    <2> QED  BY <2>6, <2>10 DEF s, D
  <1> QED  BY <1>1, <1>2

\* Between two states with a handle left, the queue changes with what the indexes count.
LEMMA ItemsMove ==
    ASSUME RingInv, RingInv', ~Gone, ~Gone'
    PROVE  /\ Items = Run(Len(taken), Distance(head, tail))
           /\ Items' = Run(Len(taken'), Distance(head', tail'))
  <1>1. Items = Run(Len(taken), Distance(head, tail))
    BY ItemsAre
  <1>2. RingInv' /\ (~Gone)' => (Items = Run(Len(taken), Distance(head, tail)))'
    BY ItemsAre, PTL
  <1> QED  BY <1>1, <1>2 DEF Run, Distance

\* Every step of the ring is a step of the queue, or none.
LEMMA FifoStep ==
    ASSUME RingInv, RingInv', [SpscNext]_spscVars
    PROVE  [Fifo!FifoNext]_Fifo!fifoVars
  <1> DEFINE D == Distance(head, tail)
             H == Len(taken)
  <1>1. D \in Nat /\ D \in 0..N /\ N \in Nat /\ H \in Nat /\ MaxPush \in Nat
    BY RingFacts
  <1>2. ASSUME ~Gone, ~Gone', UNCHANGED <<head, tail, taken, dropped>> PROVE UNCHANGED Fifo!fifoVars
    <2>1. Items = Run(Len(taken), Distance(head, tail)) /\ Items' = Run(Len(taken'), Distance(head', tail'))
      BY <1>2, ItemsMove
    <2>2. Items' = Items /\ taken' = taken /\ dropped' = dropped
      BY <1>2, <2>1
    <2> QED  BY <2>2 DEF Fifo!fifoVars
  <1>3. CASE PushCheck \/ PushWrite \/ PopCheck \/ PopRead \/ \E room \in 0..BatchMax : BatchCheck(room)
    <2>1. UNCHANGED <<head, tail, taken, dropped>>
      BY <1>3 DEF PushCheck, PushWrite, PopCheck, PopRead, BatchCheck
    <2>2. ~Gone /\ ~Gone'
      <3>1. CASE PushCheck \/ PushWrite
        <4>1. prod.pc # "gone" /\ prod'.pc # "gone"
          BY <3>1 DEF PushCheck, PushWrite, RingInv, RingTypes
        <4> QED  BY <4>1 DEF Gone
      <3>2. CASE PopCheck \/ PopRead \/ \E room \in 0..BatchMax : BatchCheck(room)
        <4>1. cons.pc # "gone" /\ cons'.pc # "gone"
          <5>1. cons \in [pc : {"idle", "read", "publish", "gone"}, cached : Indexes, want : Nat, got : Seq(Nat)]
            BY DEF RingInv, RingTypes
          <5>2. ASSUME NEW seen, NEW most, cons.pc = "idle", Begin(seen, most) PROVE cons'.pc # "gone"
            BY <5>1, <5>2 DEF Begin
          <5>3. CASE PopRead
            BY <5>1, <5>3 DEF PopRead
          <5>4. CASE PopCheck
            BY <5>2, <5>4 DEF PopCheck
          <5>5. ASSUME NEW room \in 0..BatchMax, BatchCheck(room) PROVE cons.pc # "gone" /\ cons'.pc # "gone"
            BY <5>2, <5>5 DEF BatchCheck
          <5> QED  BY <3>2, <5>3, <5>4, <5>5
        <4> QED  BY <4>1 DEF Gone
      <3> QED  BY <1>3, <3>1, <3>2
    <2> QED  BY <1>2, <2>1, <2>2
  <1>4. CASE PushPublish
    <2>1. /\ prod.pc = "publish" /\ prod'.pc = "idle" /\ pushed' = pushed + 1 /\ UNCHANGED <<head, taken, dropped>>
      BY <1>4 DEF PushPublish, RingInv, RingTypes
    <2>2. ~Gone /\ ~Gone'
      BY <2>1 DEF Gone
    <2>3. Items = Run(H, D) /\ Items' = Run(Len(taken'), Distance(head', tail'))
      BY <2>2, ItemsMove
    <2>4. pushed = H + D /\ pushed' = Len(taken') + Distance(head', tail') /\ pushed \in Nat
      BY RingFacts DEF RingInv, IndexesCount
    <2>5. Distance(head', tail') \in Nat
      <3>1. head' \in Indexes /\ tail' \in Indexes
        BY DEF RingInv, RingTypes, Indexes
      <3>2. Distance(head', tail') \in Indexes
        BY <3>1, DistanceIs
      <3> QED  BY <3>2, RingSize DEF Indexes
    <2>6. Distance(head', tail') = D + 1
      <3> DEFINE E == Distance(head', tail')
      <3>1. H + E = (H + D) + 1
        BY <2>1, <2>4
      <3> HIDE DEF E, D, H
      <3>2. E = D + 1
        BY <1>1, <2>5, <3>1 DEF E
      <3> QED  BY <3>2 DEF E
    <2>7. D < N /\ H + (D + 1) \in 1..MaxPush
      <3>1. pushed < MaxPush /\ Distance(prod.cached, tail) < N /\ Distance(prod.cached, head) + D = Distance(prod.cached, tail)
        BY <2>1 DEF RingInv, CallsAllowed, IndexesCount
      <3>2. Distance(prod.cached, tail) \in Nat /\ Distance(prod.cached, head) \in Nat
        BY RingFacts
      <3> HIDE DEF D, H
      <3> QED  BY <1>1, <2>4, <3>1, <3>2
    <2> HIDE DEF D, H
    <2>8. Items' = Append(Items, H + (D + 1)) /\ Len(Items) = D
      <3>1. Append(Run(H, D), H + (D + 1)) = Run(H, D + 1) /\ Len(Run(H, D)) = D
        <4>1. H \in Nat /\ D \in Nat /\ 0 \in 0..D
          BY <1>1
        <4> QED  BY <4>1, RunParts, RunIs, Zenon
      <3>2. Items' = Run(H, D + 1)
        BY <2>1, <2>3, <2>6 DEF H
      <3> QED  BY <2>3, <3>1, <3>2
    <2>9. Fifo!Put
      BY <2>1, <2>7, <2>8 DEF Fifo!Put
    <2> QED  BY <2>9 DEF Fifo!FifoNext
  <1>5. CASE PopPublish
    <2> DEFINE w == cons.want
    <2>1. /\ cons.pc = "publish" /\ cons'.pc = "idle" /\ UNCHANGED <<pushed, dropped>>
          /\ taken' = taken \o cons.got /\ cons.got \in Seq(Nat) /\ taken \in Seq(Nat)
          /\ Len(cons.got) = w /\ w > 0
      BY <1>5 DEF PopPublish, RingInv, RingTypes, CallsAllowed
    <2>2. ~Gone /\ ~Gone'
      BY <2>1 DEF Gone
    <2>3. Items = Run(H, D) /\ Items' = Run(Len(taken'), Distance(head', tail'))
      BY <2>2, ItemsMove
    <2>4. pushed = H + D /\ pushed' = Len(taken') + Distance(head', tail')
      BY DEF RingInv, IndexesCount
    <2>5. Distance(head', tail') \in Nat
      <3>1. head' \in Indexes /\ tail' \in Indexes
        BY DEF RingInv, RingTypes, Indexes
      <3>2. Distance(head', tail') \in Indexes
        BY <3>1, DistanceIs
      <3> QED  BY <3>2, RingSize DEF Indexes
    <2>6. Len(taken') = H + w /\ w \in Nat /\ w <= D
      <3>1. Len(taken') = Len(taken) + Len(cons.got)
        BY <2>1, Joined, Zenon
      <3> QED  BY <2>1, <3>1, RingFacts
    <2>7. Distance(head', tail') = D - w
      <3> DEFINE E == Distance(head', tail')
      <3>1. (H + w) + E = H + D
        BY <2>1, <2>4, <2>6
      <3> HIDE DEF E, D, H, w
      <3>2. E = D - w
        BY <1>1, <2>5, <2>6, <3>1 DEF E
      <3> QED  BY <3>2 DEF E
    <2>8. cons.got = Run(H, w)
      <3>1. \A i \in 1..w : cons.got[i] = H + i
        BY <2>1 DEF RingInv, ValuesOut
      <3> HIDE DEF H, w
      <3> QED  BY <1>1, <2>1, <2>6, <3>1, RunIs
    <2> HIDE DEF D, H, w
    <2>9. w \in 1..D /\ w \in 0..D
      BY <1>1, <2>1, <2>6
    <2>10. /\ SubSeq(Run(H, D), w + 1, D) = Run(H + w, D - w)
           /\ SubSeq(Run(H, D), 1, w) = Run(H, w)
           /\ Len(Run(H, D)) = D
      <3>1. H \in Nat /\ D \in Nat
        BY <1>1
      <3> QED  BY <2>9, <3>1, RunParts, RunIs, Zenon
    <2>11. /\ w \in 1..Len(Items)
           /\ Items' = SubSeq(Items, w + 1, Len(Items))
           /\ taken' = taken \o SubSeq(Items, 1, w)
           /\ UNCHANGED dropped
      BY <2>1, <2>3, <2>6, <2>7, <2>8, <2>9, <2>10, Zenon
    <2>12. Fifo!Take
      BY <2>11 DEF Fifo!Take
    <2> QED  BY <2>12 DEF Fifo!FifoNext
  <1>6. CASE DropProducer \/ DropConsumer
    <2>1. /\ UNCHANGED <<head, tail, taken>> /\ ~Gone /\ Released
          /\ Gone' => cons.pc \in {"idle", "gone"}
      BY <1>6 DEF DropProducer, DropConsumer, Gone, RingInv, RingTypes
    <2>2. CASE ~Gone'
      <3>1. UNCHANGED dropped
        BY <2>1, <2>2 DEF Released, Gone
      <3> QED  BY <1>2, <2>1, <2>2, <3>1
    <2>3. CASE Gone'
      <3>1. dropped' = InRing /\ Items' = << >>
        BY <2>1, <2>3 DEF Released, Gone, Items
      <3>2. dropped = << >> /\ cons.got = << >>
        BY <2>1, <2>3 DEF RingInv, ValuesOut, CallsAllowed
      <3>3. InRing = Run(H, D)
        <4>1. \A i \in 1..D : InRing[i] = H + i
          <5>1. Len(cons.got) = 0
            BY <3>2
          <5> QED  BY <2>1, <5>1, RingHolds
        <4>2. InRing = [i \in 1..D |-> InRing[i]]
          BY DEF InRing
        <4> HIDE DEF D, H
        <4> QED  BY <4>1, <4>2 DEF Run
      <3>4. Items = Run(H, D)
        BY <2>1, ItemsAre
      <3>5. << >> \o Items = Items
        <4>1. Run(H, D) \in Seq(Nat)
          BY <1>1, RunIs
        <4> QED  BY <3>4, <4>1
      <3>6. Fifo!Discard
        BY <2>1, <3>1, <3>2, <3>3, <3>4, <3>5, Zenon DEF Fifo!Discard
      <3> QED  BY <3>6 DEF Fifo!FifoNext
    <2> QED  BY <2>2, <2>3
  <1>7. CASE UNCHANGED spscVars
    BY <1>7 DEF spscVars, Fifo!fifoVars, Items, InRing, Distance, Slot
  <1> QED  BY <1>3, <1>4, <1>5, <1>6, <1>7 DEF SpscNext

(***************************************************************************)
(* The ring implements a bounded first-in first-out queue: try_push puts   *)
(* with its Release store, try_pop and try_pop_batch take with theirs, the *)
(* last handle drops exactly what is left.                                 *)
(***************************************************************************)
THEOREM RingIsFifo == SpscSpec => ImplementsFifo
  <1>1. SpscInit => Fifo!FifoInit
    <2> SUFFICES ASSUME SpscInit PROVE Fifo!FifoInit
      OBVIOUS
    <2>1. RingInv /\ ~Gone /\ taken = << >> /\ dropped = << >> /\ head = 0 /\ tail = 0
      BY RingInitially DEF SpscInit, Gone
    <2>2. Distance(0, 0) = 0
      <3>1. 0 \in Indexes
        BY RingSize DEF Indexes
      <3> QED  BY <3>1, DistanceIs
    <2>3. Items = Run(0, 0)
      BY <2>1, <2>2, ItemsAre
    <2>4. Run(0, 0) = << >>
      BY DEF Run
    <2> QED  BY <2>1, <2>3, <2>4 DEF Fifo!FifoInit
  <1> QED  BY <1>1, RingInvariance, FifoStep, PTL DEF SpscSpec, ImplementsFifo, Fifo!FifoSpec
=============================================================================

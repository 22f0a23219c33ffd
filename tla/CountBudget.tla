---------------------------- MODULE CountBudget ----------------------------
(***************************************************************************)
(* Counted permits under a mutex and a condition variable.  Threads ask    *)
(* for different numbers of permits, with and without a timeout; permits   *)
(* may be split, forgotten and dropped, by any thread.  A release frees    *)
(* the permits under the lock and notifies after unlocking, in two steps.  *)
(***************************************************************************)
EXTENDS Naturals, FiniteSets, Functions

CONSTANTS
    Total,     \* capacity of the budget
    Threads,   \* threads that acquire
    Permits,   \* bound: CountPermit values that exist at a time
    Releasers  \* bound: threads between the unlock and the notify of a release

ASSUME BudgetAssumption == Total \in Nat \ {0} /\ IsFiniteSet(Permits) /\ Releasers \in Nat

VARIABLES
    avail,      \* State::avail
    permits,    \* size of each live permit, 0 for none
    forgotten,  \* permits given up by forget()
    thread,     \* acquiring threads
    notifies    \* releases that have unlocked and not yet notified

budgetVars == <<avail, permits, forgotten, thread, notifies>>

BudgetInit ==
    /\ avail = Total
    /\ permits = [p \in Permits |-> 0]
    /\ forgotten = 0
    /\ thread = [t \in Threads |-> [pc |-> "idle", need |-> 0, timed |-> FALSE]]
    /\ notifies = 0

Grant(n) ==
    /\ \E p \in Permits : permits[p] = 0 /\ permits' = [permits EXCEPT ![p] = n]
    /\ avail' = avail - n
    /\ UNCHANGED <<forgotten, notifies>>

Became(t, pc, n, timed) == thread' = [thread EXCEPT ![t] = [pc |-> pc, need |-> n, timed |-> timed]]

Idle(t) == Became(t, "idle", 0, FALSE)

\* None when the permits are not there at once.
TryAcquire(t, n) ==
    /\ thread[t].pc = "idle"
    /\ avail >= n
    /\ Grant(n)
    /\ UNCHANGED thread

\* acquire and acquire_timeout wait, with the lock released.
Acquire(t, n, timed) ==
    /\ thread[t].pc = "idle"
    /\ avail < n
    /\ Became(t, "waiting", n, timed)
    /\ UNCHANGED <<avail, permits, forgotten, notifies>>

\* Back under the lock, after a notification, a spurious wakeup or a timeout.
Recheck(t) ==
    /\ thread[t].pc = "woken"
    /\ \/ avail >= thread[t].need /\ Grant(thread[t].need) /\ Idle(t)
       \/ /\ avail < thread[t].need
          /\ Became(t, "waiting", thread[t].need, thread[t].timed)
          /\ UNCHANGED <<avail, permits, forgotten, notifies>>

Spurious(t) ==
    /\ thread[t].pc = "waiting"
    /\ Became(t, "woken", thread[t].need, thread[t].timed)
    /\ UNCHANGED <<avail, permits, forgotten, notifies>>

\* The deadline passed: permits that came at the last moment are still taken.
TimedOut(t) ==
    /\ thread[t].pc \in {"waiting", "woken"} /\ thread[t].timed
    /\ \/ avail >= thread[t].need /\ Grant(thread[t].need)
       \/ avail < thread[t].need /\ UNCHANGED <<avail, permits, forgotten, notifies>>
    /\ Idle(t)

Freed(n) ==
    /\ notifies < Releasers
    /\ avail' = avail + n
    /\ notifies' = notifies + 1

Drop(p) ==
    /\ permits[p] > 0
    /\ Freed(permits[p])
    /\ permits' = [permits EXCEPT ![p] = 0]
    /\ UNCHANGED <<forgotten, thread>>

\* Mutation: a release wakes one waiter only.
NotifyOne ==
    /\ notifies > 0
    /\ notifies' = notifies - 1
    /\ \/ \E t \in Threads : thread[t].pc = "waiting" /\ thread' = [thread EXCEPT ![t].pc = "woken"]
       \/ (\A t \in Threads : thread[t].pc # "waiting") /\ UNCHANGED thread
    /\ UNCHANGED <<avail, permits, forgotten>>

NotifyAll ==
    /\ notifies > 0
    /\ notifies' = notifies - 1
    /\ thread' = [t \in Threads |-> IF thread[t].pc = "waiting" THEN [thread[t] EXCEPT !.pc = "woken"] ELSE thread[t]]
    /\ UNCHANGED <<avail, permits, forgotten>>

\* Mutation: a split permit keeps what it gave away.
SplitCopies(p, q, n) ==
    /\ permits[p] >= n /\ p # q /\ permits[q] = 0
    /\ permits' = [permits EXCEPT ![q] = n]
    /\ UNCHANGED <<avail, forgotten, thread, notifies>>

Split(p, q, n) ==
    /\ permits[p] >= n /\ p # q /\ permits[q] = 0
    /\ permits' = [permits EXCEPT ![p] = @ - n, ![q] = n]
    /\ UNCHANGED <<avail, forgotten, thread, notifies>>

Forget(p) ==
    /\ permits[p] > 0
    /\ permits' = [permits EXCEPT ![p] = 0]
    /\ forgotten' = forgotten + permits[p]
    /\ UNCHANGED <<avail, thread, notifies>>

\* Its contract: called at shutdown, with no permit outstanding.
ReleaseAllAndWake ==
    /\ \A p \in Permits : permits[p] = 0
    /\ avail # Total
    /\ Freed(Total - avail)
    /\ forgotten' = 0
    /\ UNCHANGED <<permits, thread>>

BudgetNext ==
    \/ \E t \in Threads : \E n \in 1..Total :
          TryAcquire(t, n) \/ \E timed \in BOOLEAN : Acquire(t, n, timed)
    \/ \E t \in Threads : Recheck(t) \/ Spurious(t) \/ TimedOut(t)
    \/ \E p \in Permits : Drop(p) \/ Forget(p) \/ \E q \in Permits : \E n \in 1..Total : Split(p, q, n)
    \/ NotifyAll
    \/ ReleaseAllAndWake

BudgetSpec == BudgetInit /\ [][BudgetNext]_budgetVars

----------------------------------------------------------------------------

\* Types of the counters and the threads.
BudgetTypeOK ==
    /\ avail \in 0..Total /\ forgotten \in 0..Total /\ notifies \in Nat
    /\ permits \in [Permits -> 0..Total]
    /\ thread \in [Threads -> [pc : {"idle", "waiting", "woken"}, need : 0..Total, timed : BOOLEAN]]

(***************************************************************************)
(* Permits are conserved: available, held and forgotten ones add up to the *)
(* capacity through splits, timeouts and the race of several waiters for   *)
(* the same release, so no drop can over-release.                          *)
(***************************************************************************)
PermitsConserved == avail + SumFunction(permits) + forgotten = Total

(***************************************************************************)
(* No stranded waiter: a thread sleeps on the condition variable while the *)
(* permits it needs are available only if a notification is on its way,    *)
(* the scenario the comment on release's notify_all describes.             *)
(***************************************************************************)
NoStrandedWaiter ==
    \A t \in Threads : thread[t].pc = "waiting" /\ thread[t].need <= avail => notifies > 0

\* No unit of the budget is lost or made up while permits are split, forgotten and
\* dropped, and no thread sleeps on units that are there (acquire, release).
BudgetSafe == BudgetTypeOK /\ PermitsConserved /\ NoStrandedWaiter
=============================================================================

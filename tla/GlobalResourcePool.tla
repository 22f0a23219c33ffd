------------------------- MODULE GlobalResourcePool -------------------------
(***************************************************************************)
(* The process-wide pool that fat jobs take from before they start: scan   *)
(* ring bytes, delta cache bytes and spill slots, all of them or none.     *)
(* Each budget is an atomic (or its own mutex); a request takes them one   *)
(* after the other and gives back what it has when a later one is short.   *)
(***************************************************************************)
EXTENDS Integers, FiniteSets, Functions

CONSTANTS
    Jobs,         \* threads with a request or a permit
    RingTotal, CacheTotal,
    SpillTotal,   \* spill slots, 0 for an unlimited pool
    Requests      \* the FatJobRequests they make

ASSUME PoolAssumption ==
    /\ IsFiniteSet(Jobs)
    /\ RingTotal \in Nat \ {0} /\ CacheTotal \in Nat \ {0} /\ SpillTotal \in Nat
    /\ Requests \subseteq [ring : Nat, cache : Nat, spill : 0..1]

VARIABLES
    ring, cache, spill,  \* what the budgets have left
    job                  \* where each thread is, its request, what it holds

poolVars == <<ring, cache, spill, job>>

Nothing == [ring |-> 0, cache |-> 0, spill |-> 0]

PoolInit ==
    /\ ring = RingTotal /\ cache = CacheTotal /\ spill = SpillTotal
    /\ job = [j \in Jobs |-> [pc |-> "idle", req |-> Nothing, has |-> Nothing]]

Limited == SpillTotal > 0

\* What a request takes of the spill slots: nothing of an unlimited pool.
SpillShare(req) == IF Limited THEN req.spill ELSE 0

Request(j, req) ==
    /\ job[j].pc = "idle"
    /\ job' = [job EXCEPT ![j] = [pc |-> IF req = Nothing THEN "granted" ELSE "ring", req |-> req, has |-> Nothing]]
    /\ UNCHANGED <<ring, cache, spill>>

\* Mutation: the ring permit is dropped, which gives its bytes back, instead of forgotten.
TakeRingNotDetached(j) ==
    /\ job[j].pc = "ring"
    /\ job' = [job EXCEPT ![j].pc = "cache", ![j].has.ring = job[j].req.ring]
    /\ ring >= job[j].req.ring
    /\ UNCHANGED <<ring, cache, spill>>

TakeRing(j) ==
    /\ job[j].pc = "ring"
    /\ \/ /\ ring >= job[j].req.ring
          /\ ring' = ring - job[j].req.ring
          /\ job' = [job EXCEPT ![j].pc = "cache", ![j].has.ring = job[j].req.ring]
       \/ /\ ring < job[j].req.ring
          /\ job' = [job EXCEPT ![j].pc = "idle", ![j].req = Nothing]
          /\ UNCHANGED ring
    /\ UNCHANGED <<cache, spill>>

TakeCache(j) ==
    /\ job[j].pc = "cache"
    /\ \/ /\ cache >= job[j].req.cache
          /\ cache' = cache - job[j].req.cache
          /\ job' = [job EXCEPT ![j].pc = "spill", ![j].has.cache = job[j].req.cache]
       \/ /\ cache < job[j].req.cache
          /\ job' = [job EXCEPT ![j].pc = "undoRing"]
          /\ UNCHANGED cache
    /\ UNCHANGED <<ring, spill>>

\* Mutation: the rollback forgets the delta cache.
TakeSpillKeepsCache(j) ==
    /\ job[j].pc = "spill"
    /\ \/ /\ spill >= SpillShare(job[j].req)
          /\ spill' = spill - SpillShare(job[j].req)
          /\ job' = [job EXCEPT ![j].pc = "granted", ![j].has.spill = SpillShare(job[j].req)]
       \/ /\ spill < SpillShare(job[j].req)
          /\ job' = [job EXCEPT ![j].pc = "undoRing"]
          /\ UNCHANGED spill
    /\ UNCHANGED <<ring, cache>>

TakeSpill(j) ==
    /\ job[j].pc = "spill"
    /\ \/ /\ spill >= SpillShare(job[j].req)
          /\ spill' = spill - SpillShare(job[j].req)
          /\ job' = [job EXCEPT ![j].pc = "granted", ![j].has.spill = SpillShare(job[j].req)]
       \/ /\ spill < SpillShare(job[j].req)
          /\ job' = [job EXCEPT ![j].pc = "undoCache"]
          /\ UNCHANGED spill
    /\ UNCHANGED <<ring, cache>>

UndoCache(j) ==
    /\ job[j].pc = "undoCache"
    /\ cache' = cache + job[j].has.cache
    /\ job' = [job EXCEPT ![j].pc = "undoRing", ![j].has.cache = 0]
    /\ UNCHANGED <<ring, spill>>

UndoRing(j) ==
    /\ job[j].pc = "undoRing"
    /\ ring' = ring + job[j].has.ring
    /\ job' = [job EXCEPT ![j].pc = "idle", ![j].req = Nothing, ![j].has.ring = 0]
    /\ UNCHANGED <<cache, spill>>

\* FatJobPermit::drop: ring, cache, then the spill permit field.
DropRing(j) ==
    /\ job[j].pc = "granted"
    /\ ring' = ring + job[j].has.ring
    /\ job' = [job EXCEPT ![j].pc = "dropCache", ![j].has.ring = 0]
    /\ UNCHANGED <<cache, spill>>

DropCache(j) ==
    /\ job[j].pc = "dropCache"
    /\ cache' = cache + job[j].has.cache
    /\ job' = [job EXCEPT ![j].pc = "dropSpill", ![j].has.cache = 0]
    /\ UNCHANGED <<ring, spill>>

DropSpill(j) ==
    /\ job[j].pc = "dropSpill"
    /\ spill' = spill + job[j].has.spill
    /\ job' = [job EXCEPT ![j].pc = "idle", ![j].req = Nothing, ![j].has.spill = 0]
    /\ UNCHANGED <<ring, cache>>

Step(j) ==
    \/ TakeRing(j) \/ TakeCache(j) \/ TakeSpill(j) \/ UndoCache(j) \/ UndoRing(j)
    \/ DropRing(j) \/ DropCache(j) \/ DropSpill(j)

PoolNext == \E j \in Jobs : Step(j) \/ \E req \in Requests : Request(j, req)

PoolSpec == PoolInit /\ [][PoolNext]_poolVars

----------------------------------------------------------------------------

HeldOf(field) == SumFunction([j \in Jobs |-> job[j].has[field]])

(***************************************************************************)
(* Nothing is lost and nothing is returned twice, whatever requests and    *)
(* rollbacks overlap: of each resource, what is left and what threads hold *)
(* is the capacity, and none is over-committed.                            *)
(***************************************************************************)
PoolConserved ==
    /\ ring >= 0 /\ ring + HeldOf("ring") = RingTotal
    /\ cache >= 0 /\ cache + HeldOf("cache") = CacheTotal
    /\ spill >= 0 /\ spill + HeldOf("spill") = SpillTotal

(***************************************************************************)
(* All or nothing: a thread without a permit and without a request under   *)
(* way holds nothing, and a permit holds all that was asked for, so a job  *)
(* never runs on part of its reservation and never keeps part of it.       *)
(***************************************************************************)
AllOrNothing ==
    \A j \in Jobs :
        /\ job[j].pc = "idle" => job[j].has = Nothing
        /\ job[j].pc = "granted" => job[j].has = [job[j].req EXCEPT !.spill = SpillShare(job[j].req)]

\* A job holds all it asked for or nothing, and the three budgets keep their totals
\* whichever step of try_acquire comes up short and whatever is released meanwhile.
PoolSafe == PoolConserved /\ AllOrNothing
=============================================================================

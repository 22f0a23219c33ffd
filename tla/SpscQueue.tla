----------------------------- MODULE SpscQueue -----------------------------
(***************************************************************************)
(* The wait-free ring between one producer and one consumer thread.  Every *)
(* access to shared memory is a step of its own: the load of the other     *)
(* side's index, the slot, the store that publishes it.  An Acquire load   *)
(* may return any value the index has had since this thread last looked    *)
(* (coherence forbids an older one); the Release store it reads from       *)
(* orders the slot accesses before it.                                     *)
(***************************************************************************)
EXTENDS Naturals, Sequences

CONSTANTS
    N,          \* CAPACITY, a power of two
    Wrap,       \* modulus of the atomic indexes (2^32)
    BatchMax,   \* longest `out` slice a caller passes to try_pop_batch
    MaxPush     \* bound: values pushed in a behaviour

ASSUME CapacityAssumption ==
    /\ N \in Nat \ {0} /\ Wrap \in Nat /\ 2 * N <= Wrap /\ Wrap % N = 0
    /\ BatchMax \in Nat /\ MaxPush \in Nat

VARIABLES
    head, tail,    \* the two atomics
    buf,           \* the slots
    prod,          \* producer: pc, cached_head
    cons,          \* consumer: pc, cached_tail, values to read, values read
    pushed,        \* values handed to a successful try_push, counted
    taken,         \* values returned by pops, in order
    dropped        \* values dropped with the ring

spscVars == <<head, tail, buf, prod, cons, pushed, taken, dropped>>

Uninit == 0

Slots == 0..(N - 1)

\* wrapping_sub
Distance(from, to) == (to + Wrap - from) % Wrap

\* What a load may return to a thread that has seen `from` of an index now at `now`.
Loadable(from, now) == {(from + d) % Wrap : d \in 0..Distance(from, now)}

Slot(i) == i % N

SpscInit ==
    /\ head = 0 /\ tail = 0
    /\ buf = [s \in Slots |-> Uninit]
    /\ prod = [pc |-> "idle", cached |-> 0]
    /\ cons = [pc |-> "idle", cached |-> 0, want |-> 0, got |-> << >>]
    /\ pushed = 0 /\ taken = << >> /\ dropped = << >>

\* Mutation: the full test is off by one.
RoomOneMore(cached) == Distance(cached, tail) <= N

Room(cached) == Distance(cached, tail) < N

\* A full ring ends the call with Err(value) and only the refreshed cache.
PushCheck ==
    /\ prod.pc = "idle" /\ pushed < MaxPush
    /\ \/ Room(prod.cached) /\ prod' = [prod EXCEPT !.pc = "write"]
       \/ /\ ~Room(prod.cached)
          /\ \E seen \in Loadable(prod.cached, head) :
                prod' = [pc |-> IF Room(seen) THEN "write" ELSE "idle", cached |-> seen]
    /\ UNCHANGED <<head, tail, buf, cons, pushed, taken, dropped>>

PushWrite ==
    /\ prod.pc = "write"
    /\ buf' = [buf EXCEPT ![Slot(tail)] = pushed + 1]
    /\ prod' = [prod EXCEPT !.pc = "publish"]
    /\ UNCHANGED <<head, tail, cons, pushed, taken, dropped>>

\* Mutation: the published index is not wrapped.
PushPublishUnwrapped ==
    /\ prod.pc = "publish"
    /\ tail' = tail + 1
    /\ pushed' = pushed + 1
    /\ prod' = [prod EXCEPT !.pc = "idle"]
    /\ UNCHANGED <<head, buf, cons, taken, dropped>>

PushPublish ==
    /\ prod.pc = "publish"
    /\ tail' = (tail + 1) % Wrap
    /\ pushed' = pushed + 1
    /\ prod' = [prod EXCEPT !.pc = "idle"]
    /\ UNCHANGED <<head, buf, cons, taken, dropped>>

Begin(seen, count) ==
    cons' = IF count = 0 THEN [cons EXCEPT !.cached = seen]
                         ELSE [pc |-> "read", cached |-> seen, want |-> count, got |-> << >>]

AtMost(a, b) == IF a < b THEN a ELSE b

\* Mutation: after reloading the index, emptiness is not tested again.
PopCheckBlind ==
    /\ cons.pc = "idle"
    /\ \/ head # cons.cached /\ Begin(cons.cached, 1)
       \/ /\ head = cons.cached
          /\ \E seen \in Loadable(cons.cached, tail) : Begin(seen, 1)
    /\ UNCHANGED <<head, tail, buf, prod, pushed, taken, dropped>>

PopCheck ==
    /\ cons.pc = "idle"
    /\ \/ head # cons.cached /\ Begin(cons.cached, 1)
       \/ /\ head = cons.cached
          /\ \E seen \in Loadable(cons.cached, tail) : Begin(seen, IF head = seen THEN 0 ELSE 1)
    /\ UNCHANGED <<head, tail, buf, prod, pushed, taken, dropped>>

BatchCheck(room) ==
    /\ cons.pc = "idle"
    /\ room > 0
    /\ \E seen \in Loadable(cons.cached, tail) : Begin(seen, AtMost(Distance(head, seen), room))
    /\ UNCHANGED <<head, tail, buf, prod, pushed, taken, dropped>>

ReadSlot == Slot(head + Len(cons.got))

\* A read moves the value out of its slot.
PopRead ==
    /\ cons.pc = "read"
    /\ buf' = [buf EXCEPT ![ReadSlot] = Uninit]
    /\ LET got == Append(cons.got, buf[ReadSlot])
       IN  cons' = [cons EXCEPT !.got = got, !.pc = IF Len(got) = cons.want THEN "publish" ELSE "read"]
    /\ UNCHANGED <<head, tail, prod, pushed, taken, dropped>>

\* Mutation: a batch advances the head by one.
PopPublishOne ==
    /\ cons.pc = "publish"
    /\ head' = (head + 1) % Wrap
    /\ taken' = taken \o cons.got
    /\ cons' = [cons EXCEPT !.pc = "idle", !.want = 0, !.got = << >>]
    /\ UNCHANGED <<tail, buf, prod, pushed, dropped>>

PopPublish ==
    /\ cons.pc = "publish"
    /\ head' = (head + cons.want) % Wrap
    /\ taken' = taken \o cons.got
    /\ cons' = [cons EXCEPT !.pc = "idle", !.want = 0, !.got = << >>]
    /\ UNCHANGED <<tail, buf, prod, pushed, dropped>>

InRing == [i \in 1..Distance(head, tail) |-> buf[Slot(head + i - 1)]]

\* Whoever drops the second handle drops the ring: the values in [head, tail).
Released ==
    IF prod'.pc = "gone" /\ cons'.pc = "gone"
    THEN /\ dropped' = InRing
         /\ buf' = [s \in Slots |->
                      IF s \in {Slot(head + i - 1) : i \in 1..Distance(head, tail)} THEN Uninit ELSE buf[s]]
    ELSE UNCHANGED <<dropped, buf>>

DropProducer ==
    /\ prod.pc = "idle"
    /\ prod' = [prod EXCEPT !.pc = "gone"]
    /\ UNCHANGED <<head, tail, cons, pushed, taken>>
    /\ Released

DropConsumer ==
    /\ cons.pc = "idle"
    /\ cons' = [cons EXCEPT !.pc = "gone"]
    /\ UNCHANGED <<head, tail, prod, pushed, taken>>
    /\ Released

SpscNext ==
    \/ PushCheck \/ PushWrite \/ PushPublish
    \/ PopCheck \/ \E room \in 0..BatchMax : BatchCheck(room)
    \/ PopRead \/ PopPublish
    \/ DropProducer \/ DropConsumer

SpscSpec == SpscInit /\ [][SpscNext]_spscVars

----------------------------------------------------------------------------

\* Types: the indexes and the copies each side keeps stay below the modulus.
SpscTypeOK ==
    /\ {head, tail, prod.cached, cons.cached} \subseteq 0..(Wrap - 1)
    /\ buf \in [Slots -> 0..MaxPush]
    /\ prod.pc \in {"idle", "write", "publish", "gone"}
    /\ cons.pc \in {"idle", "read", "publish", "gone"}
    /\ pushed \in 0..MaxPush

(***************************************************************************)
(* The producer is never about to write the slot the consumer is about to  *)
(* read: "producer and consumer access disjoint slots" (the SAFETY comment *)
(* on SpscRing), however stale the indexes they cached, and after the      *)
(* indexes have wrapped.                                                   *)
(***************************************************************************)
NoSlotRace == prod.pc = "write" /\ cons.pc = "read" => Slot(tail) # ReadSlot

(***************************************************************************)
(* A slot is read, or dropped with the ring, only while it holds a value,  *)
(* and a value is written only over an empty one: the unsafe reads are of  *)
(* initialised memory and no value leaks.                                  *)
(***************************************************************************)
SlotsInitialised ==
    /\ cons.pc = "read" => buf[ReadSlot] # Uninit
    /\ prod.pc = "write" => buf[Slot(tail)] = Uninit
    /\ \A i \in 1..Len(dropped) : dropped[i] # Uninit
    /\ prod.pc = "gone" /\ cons.pc = "gone" => \A s \in Slots : buf[s] = Uninit

\* What the queue holds: a batch has moved some of its values out of the slots before
\* it publishes.
Items ==
    IF prod.pc = "gone" /\ cons.pc = "gone" THEN << >>
    ELSE cons.got \o SubSeq(InRing, Len(cons.got) + 1, Len(InRing))

Fifo == INSTANCE FifoQueue WITH
            Capacity <- N, Values <- 1..MaxPush, items <- Items, taken <- taken, dropped <- dropped

(***************************************************************************)
(* The ring is a bounded first-in first-out queue: try_push puts at the    *)
(* instant of its Release store, pops and batches take at theirs, and the  *)
(* last handle drops exactly what is left.                                 *)
(***************************************************************************)
ImplementsFifo == Fifo!FifoSpec

(***************************************************************************)
(* Values leave in the order they were pushed, none twice and none lost:   *)
(* what was taken and what was dropped is together a prefix of what was    *)
(* pushed, all of it once both handles are gone.                           *)
(***************************************************************************)
InOrderOnce ==
    LET gone == taken \o dropped
    IN  /\ Len(gone) <= pushed
        /\ \A i \in 1..Len(gone) : gone[i] = i
        /\ prod.pc = "gone" /\ cons.pc = "gone" => Len(gone) = pushed

\* The two threads never touch one slot together, never read a slot nobody wrote,
\* and every value comes out once and in order, under every outcome an Acquire
\* load may have (try_push, try_pop, try_pop_batch, Drop for SpscRing).
RingSafe == SpscTypeOK /\ NoSlotRace /\ SlotsInitialised /\ InOrderOnce
=============================================================================

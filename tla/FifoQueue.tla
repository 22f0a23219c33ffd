----------------------------- MODULE FifoQueue -----------------------------
(***************************************************************************)
(* What a bounded queue promises two threads: a value put in comes out     *)
(* once, in order, or is dropped once when both ends are gone; the queue   *)
(* never holds more than its capacity.                                     *)
(***************************************************************************)
EXTENDS Naturals, Sequences

CONSTANTS Capacity, Values

VARIABLES
    items,    \* values inside, oldest first
    taken,    \* values handed out, in order
    dropped   \* values dropped with the queue

fifoVars == <<items, taken, dropped>>

FifoInit == items = << >> /\ taken = << >> /\ dropped = << >>

Put ==
    /\ Len(items) < Capacity
    /\ \E v \in Values : items' = Append(items, v)
    /\ UNCHANGED <<taken, dropped>>

\* A pop, or a batch of pops that become visible together.
Take ==
    \E k \in 1..Len(items) :
        /\ items' = SubSeq(items, k + 1, Len(items))
        /\ taken' = taken \o SubSeq(items, 1, k)
        /\ UNCHANGED dropped

Discard ==
    /\ dropped' = dropped \o items
    /\ items' = << >>
    /\ UNCHANGED taken

FifoNext == Put \/ Take \/ Discard

FifoSpec == FifoInit /\ [][FifoNext]_fifoVars
=============================================================================

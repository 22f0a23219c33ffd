--------------------------- MODULE MCRunManagement ---------------------------
(***************************************************************************)
(* Instances of RunManagement for TLC.                                     *)
(***************************************************************************)
EXTENDS RunManagement, TLC

CONSTANT Ops      \* model values for OpId

MCOpId == Ops
Root(n) == <<"root", n>>
MCShardId == {Root(1), Root(2)} \cup (Ops \X (0..3))
MCDerive(s, op, kind, i) == IF s = <<op, i>> THEN <<op, (i + 1) % 4>> ELSE <<op, i>>

\* One root over the whole key space.
OneRoot == (Root(1) :> [lo |-> 1, hi |-> K + 1, cursor |-> NoKey])
\* Malformed: the cursor lies outside the range.
Outside == (Root(1) :> [lo |-> 2, hi |-> K + 1, cursor |-> 1])

OfferedOne == {OneRoot, Outside}

Symmetry == Permutations(Worker) \cup Permutations(Ops)
=============================================================================

------------------------- MODULE MCShardCoordination -------------------------
(***************************************************************************)
(* Instances of ShardCoordination for TLC.  Shard ids are pairs:           *)
(* <<"root", n>> for the roots, <<op, index>> for a derived shard, so ids  *)
(* of different operations differ while those of a child and a residual    *)
(* may collide.                                                            *)
(***************************************************************************)
EXTENDS ShardCoordination, TLC

CONSTANT Ops      \* model values for OpId, so that OpId symmetry is sound

MCOpId == Ops
MCShardId == {<<"root", 1>>} \cup (Ops \X (0..3))
MCDerive(s, op, kind, i) == IF s = <<op, i>> THEN <<op, (i + 1) % 4>> ELSE <<op, i>>

\* One root over the whole key space.
OneRoot == (<<"root", 1>> :> [lo |-> 1, hi |-> K + 1, cursor |-> NoKey])

Symmetry == Permutations(Worker) \cup Permutations(Ops)
=============================================================================

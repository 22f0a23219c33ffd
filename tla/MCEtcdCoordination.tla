------------------------- MODULE MCEtcdCoordination -------------------------
(***************************************************************************)
(* Instances of EtcdCoordination for TLC, with the shard ids of            *)
(* MCShardCoordination: <<"root", n>> and <<op, index>>.                   *)
(***************************************************************************)
EXTENDS EtcdCoordination, TLC

CONSTANT Ops

MCOpId == Ops
MCShardId == {<<"root", 1>>, <<"root", 2>>} \cup (Ops \X (0..3))
MCDerive(s, op, kind, i) ==
    IF s = <<op, i>> THEN <<op, (i + 1) % 4>>
    ELSE IF s = <<"root", 2>> THEN <<op, (i + 2) % 4>> ELSE <<op, i>>
OneRoot == (<<"root", 1>> :> [lo |-> 1, hi |-> K + 1, cursor |-> NoKey])

\* Two roots that can each be split, when K = 4.
TwoRoots == (<<"root", 1>> :> [lo |-> 1, hi |-> 3, cursor |-> NoKey])
            @@ (<<"root", 2>> :> [lo |-> 3, hi |-> 5, cursor |-> NoKey])

\* One root that can be split into two.
SplitRoot == (<<"root", 1>> :> [lo |-> 1, hi |-> 3, cursor |-> NoKey])

\* Either manifest: with a limit of three shards the one root can be replaced,
\* and the two roots compete for the one shard left to make.
SplitSpec == (EtcdInitOf(SplitRoot) \/ EtcdInitOf(TwoRoots)) /\ [][EtcdNext]_vars

Symmetry == Permutations(Worker) \cup Permutations(Ops)
            \cup Permutations(Client) \cup Permutations(EtcdLease)
=============================================================================

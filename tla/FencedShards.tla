---------------------------- MODULE FencedShards ----------------------------
(***************************************************************************)
(* What a coordination backend promises whatever its clocks do.            *)
(*                                                                         *)
(* There is no time and there are no leases here: an Active shard may be   *)
(* taken over at any moment, but always under the next fence epoch, and    *)
(* an operation takes effect only in the hands of the worker the record    *)
(* names, under the record's own epoch.  Deadlines, TTLs and clock skew    *)
(* decide when a takeover happens, never whether the records stay sound.   *)
(***************************************************************************)
EXTENDS ShardRecords, Bags

CONSTANT Roots        \* root shard id -> its key range and first cursor

VARIABLES
    records,  \* shard id -> record, without its deadline
    effects   \* bag of the structural operations, as <<kind, shard, op, epoch>>

fencedVars == <<records, effects>>

Structural == {"Complete", "Park", "SplitReplace", "SplitResidual", "Unpark"}

\* The bag of effects after one of kind: checkpoints are not counted.
Counted(bag, kind, s, op, fence) ==
    IF kind \in Structural
      THEN bag (+) SetToBag({[kind |-> kind, shard |-> s, op |-> op, fence |-> fence]})
      ELSE bag

\* records with the records of puts written over them
Written(recs, puts) ==
    [x \in DOMAIN recs \cup DOMAIN puts |-> IF x \in DOMAIN puts THEN puts[x] ELSE recs[x]]

FencedInit ==
    /\ records = [s \in DOMAIN Roots |-> NewShard(Roots[s].lo, Roots[s].hi, Roots[s].cursor, NoShard)]
    /\ effects = EmptyBag

FencedAcquire(w, s) ==
    /\ records[s].status = "Active"
    /\ records[s].fence < MaxFence
    /\ records' = [records EXCEPT ![s].fence = @ + 1, ![s].owner = w]
    /\ UNCHANGED effects

FencedExecute(s, op, req) ==
    LET r == records[s]
        puts == Puts(s, r, op, req)
    IN /\ r.status = "Active"
       /\ r.owner # NoWorker
       /\ IsFresh(s, r, op, req)
       /\ Permitted(r, req, Cardinality(DOMAIN records))
       /\ DistinctIds(s, r, op, req)
       /\ (DOMAIN puts \ {s}) \cap DOMAIN records = {}
       /\ records' = Written(records, puts)
       /\ effects' = Counted(effects, req[1], s, op, r.fence)

FencedUnpark(s, op) ==
    LET r == records[s]
    IN /\ r.status = "Parked"
       /\ r.fence < MaxFence
       /\ CheckOpIdempotency(r, op, <<"Unpark", s>>) = "Fresh"
       /\ records' = [records EXCEPT ![s] = AfterUnpark(s, r, op)]
       /\ effects' = Counted(effects, "Unpark", s, op, r.fence)

FencedNext ==
    \E s \in DOMAIN records :
        \/ \E w \in Worker : FencedAcquire(w, s)
        \/ \E op \in OpId, req \in LeaseRequests : FencedExecute(s, op, req)
        \/ \E op \in OpId : FencedUnpark(s, op)

FencedSpec == FencedInit /\ [][FencedNext]_fencedVars
=============================================================================

------------------------ MODULE CheckpointAggregator ------------------------
(***************************************************************************)
(* The checkpoint aggregator in the hands of an arbitrary caller: receipts *)
(* come late, early, twice, in conflict or malformed; a prepared prefix is *)
(* acknowledged, acknowledged with the wrong receipt, or discarded and     *)
(* prepared again.                                                         *)
(***************************************************************************)
EXTENDS PrefixCheckpoint, Sequences

CONSTANTS
    Start,         \* next_sequence_no of the fresh aggregator
    MaxBuffered,   \* its max_buffered
    Offered        \* the receipts a caller may offer

ASSUME OfferedAssumption ==
    /\ Start \in 0..MaxSeq
    /\ MaxBuffered \in Nat \ {0}
    /\ Offered \subseteq [seq : 0..MaxSeq, valid : BOOLEAN, kind : BoundaryKind, key : Nat \ {0}]

VARIABLES
    agg,       \* the aggregator
    admitted,  \* receipts it has buffered at some time
    durable    \* checkpoints acknowledged so far, in order

aggVars == <<agg, admitted, durable>>

AggInit ==
    /\ agg = NewAggregator(Start, MaxBuffered)
    /\ admitted = {}
    /\ durable = << >>

RecordReceipt(r) ==
    /\ agg' = AfterRecord(agg, r)
    /\ admitted' = IF RecordOutcome(agg, r) = "Buffered" THEN admitted \cup {r} ELSE admitted
    /\ UNCHANGED durable

PrepareCheckpoint ==
    /\ agg' = AfterPrepare(agg)
    /\ UNCHANGED <<admitted, durable>>

\* A checkpoint receipt of the pending scope; any other restores the prefix and
\* changes nothing, as does a counter at its end.
AcknowledgeCheckpoint ==
    \E p \in agg.pending :
        /\ Countable(agg, p)
        /\ agg' = AfterAcknowledge(agg, p)
        /\ durable' = Append(durable, p)
        /\ UNCHANGED admitted

DiscardPending ==
    /\ agg.pending # {}
    /\ agg' = [agg EXCEPT !.pending = {}]
    /\ UNCHANGED <<admitted, durable>>

AggNext ==
    \/ \E r \in Offered : RecordReceipt(r)
    \/ PrepareCheckpoint
    \/ AcknowledgeCheckpoint
    \/ DiscardPending

AggSpec == AggInit /\ [][AggNext]_aggVars

\* A caller that goes on delivering some receipt of every unit, prepares, and
\* does not discard every prefix it prepares.
AggFairSpec ==
    /\ AggSpec
    /\ \A n \in 0..MaxSeq : WF_aggVars(\E r \in Offered : r.seq = n /\ RecordReceipt(r))
    /\ SF_aggVars(AcknowledgeCheckpoint)
    /\ WF_aggVars(PrepareCheckpoint)

-----------------------------------------------------------------------------
(* Properties                                                              *)

\* The aggregator's fields have their types; at most one prefix is pending and
\* the buffer exceeds its limit by the gap filler at most (record_receipt).
AggTypeOK ==
    /\ agg.next \in Start..(MaxSeq + 1)
    /\ agg.units \in Nat
    /\ agg.kind \in {{}} \cup {{k} : k \in BoundaryKind}
    /\ agg.lastKey \in Nat
    /\ Buffered(agg) \subseteq 0..MaxSeq
    /\ \A n \in Buffered(agg) : agg.receipts[n] \in Offered
    /\ Cardinality(agg.pending) <= 1
    /\ Cardinality(Buffered(agg)) <= MaxBuffered + 1
    /\ admitted \subseteq Offered

\* build_contiguous_prefix and acknowledge_checkpoint: the acknowledged
\* checkpoints tile the sequence numbers from the start without a hole or an
\* overlap, each counts exactly what it covers, and every unit covered was
\* accepted.
CheckpointsTile ==
    LET ends == <<Start - 1>> \o [i \in DOMAIN durable |-> durable[i].last]
    IN  /\ \A i \in DOMAIN durable :
              /\ durable[i].first = ends[i] + 1
              /\ durable[i].first <= durable[i].last
              /\ durable[i].units = durable[i].last - durable[i].first + 1
        /\ agg.next = ends[Len(ends)] + 1
        /\ agg.units = agg.next - Start
        /\ \A n \in Start..(agg.next - 1) : \E r \in admitted : r.seq = n

\* record_receipt: a sequence number stands for one unit for good.  A second,
\* different receipt is refused while the first is buffered and ignored once it
\* is checkpointed.
OneReceiptPerUnit == \A r, q \in admitted : r.seq = q.seq => r = q

\* build_contiguous_prefix: a scan resumes strictly after a checkpointed key.
\* It skips no unit the checkpoint does not cover, and a later ordered
\* checkpoint lies strictly further on.
ResumeSkipsNothing ==
    \A i \in DOMAIN durable, r \in admitted :
        r.seq < agg.next =>
            IF r.seq <= durable[i].last
              THEN r.key <= durable[i].key
              ELSE IF r.kind = "OrderedContent" THEN r.key > durable[i].key
                                               ELSE r.key >= durable[i].key

\* Receipts in any order, repeated or contradictory, give durable checkpoints that
\* tile the accepted units and from which a resumed scan skips none of them
\* (record_receipt, build_contiguous_prefix, acknowledge_checkpoint).
AggSafe == AggTypeOK /\ CheckpointsTile /\ OneReceiptPerUnit /\ ResumeSkipsNothing

\* prepare_checkpoint and discard_pending: while a prefix is handed out it is
\* not widened, and its receipts stay buffered until it is acknowledged.
PendingHeld ==
    [][\A p \in agg.pending :
          \/ agg'.pending \subseteq {p} /\ p.first..p.last \subseteq Buffered(agg')
          \/ agg'.next = p.last + 1 /\ Len(durable') = Len(durable) + 1]_aggVars

\* record_receipt on a full buffer: however small the buffer and whatever the
\* order of delivery, a caller that goes on delivering some receipt of every unit
\* gets the prefix to reach the last sequence number, or to a unit whose key
\* regresses, which build_contiguous_prefix then reports for good.
EverythingCheckpointed == <>(Regresses(agg) \/ MaxSeq \in Run(agg))
=============================================================================

-------------------------- MODULE PrefixCheckpoint --------------------------
(***************************************************************************)
(* PrefixCheckpointAggregator of gossip-scanner-runtime                    *)
(* (checkpoint_aggregator.rs) as operations on a value: receipts of        *)
(* durably committed units arrive in any order, and a checkpoint may only  *)
(* ever cover the contiguous run of them that starts at next_sequence_no.  *)
(*                                                                         *)
(* A cursor is its last key, a positive integer; NoProgress is "no key".   *)
(* The token beside it, which normalize_checkpoint_cursor drops for ordered*)
(* content and keeps for a frontier of repositories, is not modelled.      *)
(* The four refusals of validate_receipt (foreign write context, several   *)
(* units, boundary mismatch, no key) are one field, valid.  Totals of      *)
(* findings and rows are not kept.                                         *)
(***************************************************************************)
EXTENDS Integers, FiniteSets

CONSTANT MaxSeq       \* the largest sequence number, u64::MAX

ASSUME MaxSeqAssumption == MaxSeq \in Nat

NoProgress == 0
BoundaryKind == {"OrderedContent", "RepoFrontier"}

\* PrefixCheckpointAggregator::new
NewAggregator(next, max) ==
    [next |-> next, units |-> 0, max |-> max, kind |-> {}, lastKey |-> NoProgress,
     receipts |-> << >>, pending |-> {}]

Buffered(agg) == DOMAIN agg.receipts

\* Mutation: a full buffer refuses the receipt at next_sequence_no as well.
HasRoomNoGapFiller(agg, r) == Cardinality(Buffered(agg)) < agg.max

\* Mutation: the capacity is compared one too high.
HasRoomOneMore(agg, r) == r.seq = agg.next \/ Cardinality(Buffered(agg)) <= agg.max

\* The receipt that fills the gap at the head is admitted whatever the buffer
\* holds: nothing else could ever drain it.
HasRoom(agg, r) == r.seq = agg.next \/ Cardinality(Buffered(agg)) < agg.max

\* Mutation: any receipt of an occupied sequence number replaces the old one.
RecordOutcomeLastWins(agg, r) ==
    CASE ~r.valid                                -> "Invalid"
      [] r.valid /\ r.seq < agg.next             -> "AlreadyCheckpointed"
      [] r.valid /\ r.seq >= agg.next /\ agg.kind \notin {{}, {r.kind}} -> "KindMismatch"
      [] OTHER -> IF HasRoom(agg, r) THEN "Buffered" ELSE "BufferFull"

\* record_receipt: what it answers ...
RecordOutcome(agg, r) ==
    CASE ~r.valid                                -> "Invalid"
      [] r.valid /\ r.seq < agg.next             -> "AlreadyCheckpointed"
      [] r.valid /\ r.seq >= agg.next /\ agg.kind \notin {{}, {r.kind}} -> "KindMismatch"
      [] OTHER -> IF r.seq \in Buffered(agg)
                    THEN IF agg.receipts[r.seq] = r THEN "DuplicateBuffered" ELSE "Conflicting"
                    ELSE IF HasRoom(agg, r) THEN "Buffered" ELSE "BufferFull"

\* ... and what it leaves.  The boundary kind is pinned even when the buffer
\* then turns the receipt away.
AfterRecord(agg, r) ==
    LET outcome == RecordOutcome(agg, r)
    IN  CASE outcome = "Buffered" ->
               [agg EXCEPT !.kind = {r.kind},
                           !.receipts = [n \in Buffered(agg) \cup {r.seq} |->
                                            IF n = r.seq THEN r ELSE agg.receipts[n]]]
          [] outcome = "BufferFull" -> [agg EXCEPT !.kind = {r.kind}]
          [] OTHER -> agg

-----------------------------------------------------------------------------
(* build_contiguous_prefix                                                 *)

\* The sequence numbers the prefix covers.
Run(agg) == {n \in Buffered(agg) : \A m \in agg.next..n : m \in Buffered(agg)}

\* The key a unit's own key is compared with.
PreviousKey(agg, n) ==
    IF n = agg.next THEN agg.lastKey ELSE agg.receipts[n - 1].key

\* Mutation: two ordered units may end at the same key.
RegressesEqualKeys(agg) ==
    \E n \in Run(agg) : agg.receipts[n].key < PreviousKey(agg, n)

\* BoundaryRegression, or OrderedContentEqualKey: a scan resumes strictly after
\* the checkpointed key, so two ordered units may not end at the same one.
Regresses(agg) ==
    \E n \in Run(agg) :
        LET prev == PreviousKey(agg, n)
        IN  /\ prev # NoProgress
            /\ \/ agg.receipts[n].key < prev
               \/ agg.receipts[n].key = prev /\ agg.kind = {"OrderedContent"}

Last(S) == CHOOSE n \in S : \A m \in S : m <= n

\* Mutation: the prefix reaches past a hole to the last buffered receipt.
PrefixPastGaps(agg) ==
    LET last == Last(Buffered(agg))
    IN  [first |-> agg.next, last |-> last, key |-> agg.receipts[last].key,
         units |-> Cardinality(Run(agg))]

\* PendingPrefixCheckpoint of a non-empty run
Prefix(agg) ==
    LET last == Last(Run(agg))
    IN  [first |-> agg.next, last |-> last, key |-> agg.receipts[last].key,
         units |-> Cardinality(Run(agg))]

\* Mutation: a prefix already handed out is rebuilt, and may widen.
AfterPrepareWidening(agg) ==
    IF Run(agg) = {} \/ Regresses(agg)
      THEN agg
      ELSE [agg EXCEPT !.pending = {Prefix(agg)}]

\* prepare_checkpoint: a prefix already pending is returned as it is; a
\* regression leaves the aggregator as it was, for good.
AfterPrepare(agg) ==
    IF agg.pending # {} \/ Run(agg) = {} \/ Regresses(agg)
      THEN agg
      ELSE [agg EXCEPT !.pending = {Prefix(agg)}]

\* acknowledge_checkpoint of the pending prefix p by a receipt of its scope.
AfterAcknowledge(agg, p) ==
    [agg EXCEPT !.pending = {}, !.next = p.last + 1, !.units = @ + p.units, !.lastKey = p.key,
                !.receipts = [n \in {m \in Buffered(agg) : m > p.last} |-> agg.receipts[n]]]

\* The counters of acknowledge_checkpoint do not overflow.
Countable(agg, p) == p.last < MaxSeq /\ agg.units + p.units <= MaxSeq
=============================================================================

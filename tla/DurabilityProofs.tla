-------------------------- MODULE DurabilityProofs --------------------------
(***************************************************************************)
(* What the durable side of a scan rests on, for every size of it.         *)
(*                                                                         *)
(* The checkpoint aggregator, for receipts offered in any order and any    *)
(* number of times: checkpoints are gap-free, follow on each other, rise   *)
(* in key and hold exactly what was accepted.  What AggSafe says of the    *)
(* checkpoints acknowledged so far follows from what is known of each      *)
(* receipt ever accepted: it is below the frontier and under some          *)
(* checkpoint, or it is in the buffer; and the prefix handed out is a      *)
(* whole run of the buffer from the frontier on.                           *)
(*                                                                         *)
(* The order of the three writes alone keeps a scan from losing anything   *)
(* (DurableScan, which LeaseExecutionProofs shows the threads of the       *)
(* leases to implement).                                                   *)
(*                                                                         *)
(* The done ledger's merge is the join of a semilattice on valid records,  *)
(* whatever their byte counts, findings counts, provenances and error      *)
(* codes (LedgerMerge).  IsJoin says field by field what the join of a     *)
(* set of records is; it is unique, and the join of two sets is the merge  *)
(* of their joins (JoinsMerge).  So the row a batch comes to (ByKeyIsRow)  *)
(* merged into a row of the ledger is the row of all that was written      *)
(* (RowAdds), in whatever order and however often it was (DoneLedger).     *)
(***************************************************************************)
EXTENDS CheckpointAggregator, DurableScan, DoneLedger, TLAPS, FiniteSetTheorems, SequenceTheorems

-----------------------------------------------------------------------------
(* The invariant of the checkpoint aggregator                              *)

\* A checkpoint.
Prefixes == [first : Nat, last : Nat, key : Nat, units : Nat]

\* The fields of an aggregator.
IsAggregator(a) ==
    a = [next |-> a.next, units |-> a.units, max |-> MaxBuffered, kind |-> a.kind, lastKey |-> a.lastKey,
         receipts |-> a.receipts, pending |-> a.pending]

\* Their types: the frontier, the units counted, the kind of the stream.
AggFields(a) ==
    /\ IsAggregator(a)
    /\ a.next \in Start..(MaxSeq + 1)
    /\ a.units \in Nat /\ a.lastKey \in Nat
    /\ a.kind \in {{}} \cup {{k} : k \in BoundaryKind}

\* Key l may come after key k: further on, strictly so in ordered content.
Further(kind, k, l) == k <= l /\ (kind = {"OrderedContent"} => k < l)

\* The buffer: what it holds was accepted, and only the receipt that fills the
\* gap at its head may exceed its limit.
BufferOK(a, acc) ==
    /\ Buffered(a) \subseteq a.next..MaxSeq
    /\ \A n \in Buffered(a) : a.receipts[n] \in acc /\ a.receipts[n].seq = n
    /\ Cardinality(Buffered(a) \ {a.next}) <= MaxBuffered

\* The receipts accepted so far: one for every number that is checkpointed or
\* buffered, all of one kind.
AcceptedOK(a, acc) ==
    /\ acc \subseteq Offered
    /\ \A r \in acc : r.seq >= Start /\ a.kind = {r.kind}
    /\ \A r \in acc : r.seq >= a.next => r.seq \in Buffered(a) /\ a.receipts[r.seq] = r
    /\ \A r \in acc : r.seq < a.next => r.key <= a.lastKey
    /\ \A r, q \in acc : r.seq = q.seq => r = q
    /\ \A n \in Start..(a.next - 1) : \E r \in acc : r.seq = n

\* The prefix handed out: a whole run of the buffer, rising from the last key.
IsPending(a, p) ==
    /\ p = [first |-> a.next, last |-> p.last, key |-> a.receipts[p.last].key, units |-> p.last - a.next + 1]
    /\ p.last \in Nat /\ a.next <= p.last
    /\ \A i \in a.next..p.last :
          /\ i \in Buffered(a)
          /\ Further(a.kind, a.lastKey, a.receipts[i].key)
          /\ a.receipts[i].key <= p.key

\* At most one prefix is handed out.
PendingOK(a) == \A p \in a.pending : a.pending = {p} /\ IsPending(a, p)

\* The end of the i-th checkpoint.
EndOf(d, i) == IF i = 0 THEN Start - 1 ELSE d[i].last

\* The acknowledged checkpoints.
DurableOK(a, acc, d) ==
    /\ d \in Seq(Prefixes)
    /\ \A i \in 1..Len(d) :
          /\ d[i].first = EndOf(d, i - 1) + 1
          /\ d[i].first <= d[i].last
          /\ d[i].units = d[i].last - d[i].first + 1
          /\ d[i].last < a.next /\ d[i].key <= a.lastKey
    /\ a.next = EndOf(d, Len(d)) + 1
    /\ a.units = a.next - Start
    /\ \A i \in 1..Len(d), r \in acc : r.seq < a.next =>
          IF r.seq <= d[i].last THEN r.key <= d[i].key ELSE Further(a.kind, d[i].key, r.key)

\* The aggregator and the receipts it has accepted, and the checkpoints acknowledged.
StateOK(a, acc, d) ==
    AggFields(a) /\ BufferOK(a, acc) /\ AcceptedOK(a, acc) /\ PendingOK(a) /\ DurableOK(a, acc, d)

\* The invariant.
AggInv == StateOK(agg, admitted, durable)

\* A set of numbers has a least one.
LEMMA LeastNumber ==
    ASSUME NEW S, S \subseteq Nat, S # {}
    PROVE  \E n \in S : \A m \in S : n <= m
  <1> DEFINE R == OpToRel(<, Nat)
  <1>1. IsWellFoundedOn(R, Nat)
    BY NatLessThanWellFounded
  <1>2. \A a, b \in Nat : a < b => <<a, b>> \in R
    BY DEF OpToRel
  <1> HIDE DEF R
  <1>3. PICK n \in S : \A m \in S : ~ (<<m, n>> \in R)
    BY <1>1, WFMin
  <1>4. \A m \in S : ~(m < n)
    BY <1>2, <1>3, Zenon
  <1>5. \A m \in S : n <= m
    BY <1>4
  <1> QED  BY <1>5

\* A bounded one has a greatest.
LEMMA LastOfSome ==
    ASSUME NEW S, S \subseteq Nat, S # {}, NEW max \in Nat, \A m \in S : m <= max
    PROVE  Last(S) \in S /\ \A m \in S : m <= Last(S)
  <1> DEFINE U == {u \in Nat : \A m \in S : m <= u}
  <1>1. U \subseteq Nat /\ U # {}
    BY DEF U
  <1>2. PICK u \in U : \A v \in U : u <= v
    BY <1>1, LeastNumber
  <1>3. u \in Nat /\ \A m \in S : m <= u
    BY <1>2
  <1>4. u \in S
    <2>1. SUFFICES ASSUME u \notin S PROVE FALSE
      OBVIOUS
    <2>2. \A m \in S : m <= u - 1
      BY <1>3, <2>1
    <2>3. u - 1 \in Nat
      <3>1. PICK m \in S : TRUE
        OBVIOUS
      <3> QED  BY <1>3, <2>2, <3>1
    <2>4. u - 1 \in U
      BY <2>2, <2>3
    <2> HIDE DEF U
    <2> QED  BY <1>2, <1>3, <2>4
  <1>5. \E n \in S : \A m \in S : m <= n
    BY <1>3, <1>4
  <1> QED  BY <1>5 DEF Last

\* What can follow what can follow a key can follow it.
LEMMA FurtherStill ==
    ASSUME NEW kind, NEW k \in Nat, NEW l \in Nat, NEW m \in Nat, Further(kind, k, l), Further(kind, l, m)
    PROVE  Further(kind, k, m)
  BY DEF Further

\* The run that starts at the next number, and its prefix.
LEMMA RunIsAnInterval ==
    ASSUME NEW a, a.next \in Nat, Buffered(a) \subseteq a.next..MaxSeq, Run(a) # {}
    PROVE  LET last == Last(Run(a))
           IN  /\ last \in Nat /\ a.next <= last
               /\ Run(a) = a.next..last /\ a.next..last \subseteq Buffered(a)
               /\ Cardinality(Run(a)) = last - a.next + 1
  <1> DEFINE last == Last(Run(a))
  <1>1. MaxSeq \in Nat
    BY MaxSeqAssumption
  <1>2. Run(a) \subseteq Nat /\ \A m \in Run(a) : m <= MaxSeq
    BY <1>1 DEF Run
  <1>3. last \in Run(a) /\ \A m \in Run(a) : m <= last
    BY <1>1, <1>2, LastOfSome
  <1> HIDE DEF last
  <1>4. last \in Nat /\ a.next <= last /\ a.next..last \subseteq Buffered(a)
    BY <1>1, <1>3 DEF Run
  <1>5. ASSUME NEW n \in Run(a) PROVE n \in a.next..last
    <2>1. n \in Buffered(a) /\ n <= last
      BY <1>3 DEF Run
    <2> QED  BY <1>1, <1>4, <2>1
  <1>6. ASSUME NEW n \in a.next..last PROVE n \in Run(a)
    <2>1. n \in Buffered(a)
      BY <1>4
    <2>2. \A m \in a.next..n : m \in a.next..last
      BY <1>4
    <2> QED  BY <1>4, <2>1, <2>2 DEF Run
  <1>7. Run(a) = a.next..last
    BY <1>5, <1>6
  <1>8. Cardinality(a.next..last) = last - a.next + 1
    BY <1>4, FS_Interval
  <1> QED  BY <1>4, <1>7, <1>8 DEF last

\* In a run that does not regress every key is further on than the last one that
\* was checkpointed, and none is behind the one at the end.
LEMMA RunRises ==
    ASSUME NEW a, a.next \in Nat, a.lastKey \in Nat, NEW last \in Nat, a.next <= last,
           Run(a) = a.next..last, ~Regresses(a),
           \A n \in a.next..last : a.receipts[n].key \in Nat \ {0}
    PROVE  \A i \in a.next..last :
              Further(a.kind, a.lastKey, a.receipts[i].key) /\ a.receipts[i].key <= a.receipts[last].key
  <1> DEFINE key(n) == a.receipts[n].key
  <1>1. \A n \in a.next..last : key(n) \in Nat /\ key(n) > 0
    OBVIOUS
  <1>2. ASSUME NEW n \in a.next..last PROVE Further(a.kind, PreviousKey(a, n), key(n))
    <2>1. n \in Run(a)
      OBVIOUS
    <2>2. PreviousKey(a, n) \in Nat
      <3>1. CASE n = a.next
        BY <3>1 DEF PreviousKey
      <3>2. CASE n # a.next
        <4>1. n - 1 \in a.next..last
          BY <3>2
        <4>2. PreviousKey(a, n) = key(n - 1)
          BY <3>2 DEF PreviousKey
        <4> HIDE DEF key
        <4> QED  BY <1>1, <4>1, <4>2
      <3> QED  BY <3>1, <3>2
    <2>3. \/ PreviousKey(a, n) = 0
          \/ ~(key(n) < PreviousKey(a, n)) /\ ~(key(n) = PreviousKey(a, n) /\ a.kind = {"OrderedContent"})
      BY <2>1 DEF Regresses, NoProgress
    <2>4. key(n) \in Nat /\ key(n) > 0
      BY <1>1
    <2> HIDE DEF key
    <2> QED  BY <2>2, <2>3, <2>4 DEF Further
  <1>3. Further(a.kind, a.lastKey, key(a.next))
    <2>1. a.next \in a.next..last /\ PreviousKey(a, a.next) = a.lastKey
      BY DEF PreviousKey
    <2> QED  BY <1>2, <2>1
  <1>4. ASSUME NEW n \in (a.next + 1)..last PROVE Further(a.kind, key(n - 1), key(n))
    <2>1. n \in a.next..last /\ n # a.next
      OBVIOUS
    <2>2. PreviousKey(a, n) = key(n - 1)
      BY <2>1 DEF PreviousKey
    <2> QED  BY <1>2, <2>1, <2>2
  <1> HIDE DEF key
  <1>5. ASSUME NEW i \in a.next..last PROVE Further(a.kind, a.lastKey, key(i))
    <2> DEFINE Bad == {n \in a.next..last : ~Further(a.kind, a.lastKey, key(n))}
    <2>1. SUFFICES ASSUME Bad # {} PROVE FALSE
      BY DEF Bad
    <2>2. Bad \subseteq Nat
      BY DEF Bad
    <2>3. PICK n \in Bad : \A m \in Bad : n <= m
      BY <2>1, <2>2, LeastNumber
    <2>4. n \in a.next..last /\ ~Further(a.kind, a.lastKey, key(n))
      BY DEF Bad
    <2>5. n \in (a.next + 1)..last /\ n - 1 \in a.next..last
      BY <1>3, <2>4
    <2>6. Further(a.kind, a.lastKey, key(n - 1))
      <3>1. n - 1 \notin Bad
        BY <2>3, <2>4
      <3> QED  BY <2>5, <3>1
    <2>7. Further(a.kind, key(n - 1), key(n))
      BY <1>4, <2>5
    <2>8. key(n - 1) \in Nat /\ key(n) \in Nat
      BY <1>1, <2>4, <2>5
    <2> QED  BY <2>4, <2>6, <2>7, <2>8, FurtherStill
  <1>6. ASSUME NEW i \in a.next..last PROVE key(i) <= key(last)
    <2> DEFINE Bad == {k \in 0..(last - a.next) : ~(key(last - k) <= key(last))}
    <2>1. SUFFICES ASSUME Bad # {} PROVE FALSE
      <3>1. last - i \in 0..(last - a.next) /\ last - (last - i) = i
        OBVIOUS
      <3>2. last - i \notin Bad
        BY <2>1
      <3>3. key(last - (last - i)) <= key(last)
        BY <3>1, <3>2
      <3> QED  BY <3>1, <3>3
    <2>2. Bad \subseteq Nat
      BY DEF Bad
    <2>3. PICK k \in Bad : \A m \in Bad : k <= m
      BY <2>1, <2>2, LeastNumber
    <2>4. k \in 0..(last - a.next) /\ ~(key(last - k) <= key(last))
      BY DEF Bad
    <2>5. key(last) \in Nat /\ key(last - 0) = key(last)
      <3>1. last \in a.next..last /\ last - 0 = last
        OBVIOUS
      <3> QED  BY <1>1, <3>1
    <2>6. k # 0
      BY <2>4, <2>5
    <2>7. /\ k - 1 \in 0..(last - a.next) /\ last - k \in a.next..last
          /\ last - (k - 1) \in (a.next + 1)..last /\ last - (k - 1) \in a.next..last
          /\ last - (k - 1) - 1 = last - k
      BY <2>4, <2>6
    <2>8. key(last - (k - 1)) <= key(last)
      <3>1. k - 1 \notin Bad
        BY <2>3, <2>4
      <3> QED  BY <2>7, <3>1
    <2>9. Further(a.kind, key(last - (k - 1) - 1), key(last - (k - 1)))
      BY <1>4, <2>7
    <2>10. Further(a.kind, key(last - k), key(last - (k - 1)))
      BY <2>7, <2>9
    <2>11. key(last - k) \in Nat /\ key(last - (k - 1)) \in Nat
      BY <1>1, <2>7
    <2> QED  BY <2>4, <2>5, <2>8, <2>10, <2>11 DEF Further
  <1> QED  BY <1>5, <1>6 DEF key

\* The fields of a receipt a caller may offer.
LEMMA ReceiptFields ==
    ASSUME NEW r \in Offered
    PROVE  r.seq \in 0..MaxSeq /\ r.kind \in BoundaryKind /\ r.key \in Nat \ {0}
  BY OfferedAssumption

\* A buffer is finite.
LEMMA BufferIsFinite ==
    ASSUME NEW a, a.next \in Nat, Buffered(a) \subseteq a.next..MaxSeq
    PROVE  IsFiniteSet(Buffered(a)) /\ IsFiniteSet(Buffered(a) \ {a.next})
  <1>1. IsFiniteSet(a.next..MaxSeq)
    BY MaxSeqAssumption, FS_Interval
  <1> QED  BY <1>1, FS_Subset

\* A receipt turned away leaves everything but the pinned kind.
LEMMA RefusedReceipt ==
    ASSUME NEW a, NEW acc, NEW d, NEW r \in Offered, StateOK(a, acc, d),
           a.kind = {} \/ a.kind = {r.kind}, NEW a2, a2 = [a EXCEPT !.kind = {r.kind}]
    PROVE  StateOK(a2, acc, d)
  <1>1. IsAggregator(a)
    BY DEF StateOK, AggFields
  <1>2. /\ IsAggregator(a2) /\ a2.next = a.next /\ a2.units = a.units /\ a2.kind = {r.kind} /\ a2.lastKey = a.lastKey
        /\ a2.receipts = a.receipts /\ a2.pending = a.pending
    BY <1>1 DEF IsAggregator
  <1>3. Buffered(a2) = Buffered(a)
    BY <1>2 DEF Buffered
  <1>4. AggFields(a2)
    BY <1>2, ReceiptFields DEF StateOK, AggFields
  <1>5. BufferOK(a2, acc)
    BY <1>2, <1>3 DEF StateOK, BufferOK
  <1>6. acc # {} => a.kind = a2.kind
    BY <1>2 DEF StateOK, AcceptedOK
  <1>7. AcceptedOK(a2, acc)
    <2>1. \A q \in acc : a2.kind = {q.kind}
      BY <1>6 DEF StateOK, AcceptedOK
    <2> QED  BY <1>2, <1>3, <2>1 DEF StateOK, AcceptedOK
  <1>8. ASSUME acc = {} PROVE Buffered(a) = {} /\ a.pending = {} /\ d \in Seq(Prefixes) /\ \A i \in 1..Len(d) : FALSE
    <2>1. Buffered(a) = {}
      BY <1>8 DEF StateOK, BufferOK
    <2>2. a.pending = {}
      <3>1. SUFFICES ASSUME NEW p \in a.pending PROVE FALSE
        OBVIOUS
      <3>2. a.next \in a.next..p.last /\ \A i \in a.next..p.last : i \in Buffered(a)
        BY <3>1, OfferedAssumption, MaxSeqAssumption DEF StateOK, PendingOK, IsPending, AggFields
      <3> QED  BY <2>1, <3>2
    <2>3. d \in Seq(Prefixes)
      BY DEF StateOK, DurableOK
    <2>4. a.next = Start
      <3>1. \A n \in Start..(a.next - 1) : FALSE
        BY <1>8 DEF StateOK, AcceptedOK
      <3>2. a.next \in Start..(MaxSeq + 1) /\ Start \in Nat
        BY OfferedAssumption, MaxSeqAssumption DEF StateOK, AggFields
      <3> QED  BY <3>1, <3>2, MaxSeqAssumption
    <2>5. ASSUME NEW i \in 1..Len(d) PROVE FALSE
      <3>1. Len(d) \in Nat /\ 1 \in 1..Len(d)
        BY <2>3
      <3>2. d[1].first = EndOf(d, 1 - 1) + 1 /\ d[1].first <= d[1].last /\ d[1].last < a.next /\ d[1] \in Prefixes
        BY <2>3, <3>1 DEF StateOK, DurableOK
      <3>3. d[1].first = Start /\ d[1].last \in Nat
        BY <3>2, OfferedAssumption, MaxSeqAssumption DEF EndOf, Prefixes
      <3> QED  BY <2>4, <3>2, <3>3, OfferedAssumption, MaxSeqAssumption
    <2> QED  BY <2>1, <2>2, <2>3, <2>5
  <1>9. PendingOK(a2)
    <2>1. CASE acc = {}
      BY <1>2, <1>8, <2>1 DEF PendingOK
    <2>2. CASE acc # {}
      BY <1>2, <1>3, <1>6, <2>2 DEF StateOK, PendingOK, IsPending
    <2> QED  BY <2>1, <2>2
  <1>10. DurableOK(a2, acc, d)
    <2>1. CASE acc = {}
      BY <1>2, <2>1 DEF StateOK, DurableOK
    <2>2. CASE acc # {}
      BY <1>2, <1>6, <2>2 DEF StateOK, DurableOK
    <2> QED  BY <2>1, <2>2
  <1> QED  BY <1>4, <1>5, <1>7, <1>9, <1>10 DEF StateOK

\* A receipt that is buffered.
LEMMA BufferedReceipt ==
    ASSUME NEW a, NEW acc, NEW d, NEW r \in Offered, StateOK(a, acc, d), a.kind = {r.kind},
           r.seq >= a.next, r.seq \notin Buffered(a), HasRoom(a, r), NEW a2,
           a2 = [a EXCEPT !.receipts = [n \in Buffered(a) \cup {r.seq} |->
                                            IF n = r.seq THEN r ELSE a.receipts[n]]]
    PROVE  StateOK(a2, acc \cup {r}, d)
  <1> DEFINE acc2 == acc \cup {r}
             rs == [n \in Buffered(a) \cup {r.seq} |-> IF n = r.seq THEN r ELSE a.receipts[n]]
  <1>1. IsAggregator(a) /\ AggFields(a)
    BY DEF StateOK, AggFields
  <1>2. DOMAIN rs = Buffered(a) \cup {r.seq} /\ rs[r.seq] = r /\ \A n \in Buffered(a) : rs[n] = a.receipts[n]
    OBVIOUS
  <1>3. a2 = [a EXCEPT !.receipts = rs]
    OBVIOUS
  <1> HIDE DEF rs
  <1>4. /\ IsAggregator(a2) /\ a2.next = a.next /\ a2.units = a.units /\ a2.kind = a.kind /\ a2.lastKey = a.lastKey
        /\ a2.receipts = rs /\ a2.pending = a.pending
    BY <1>1, <1>3 DEF IsAggregator
  <1>5. Buffered(a2) = Buffered(a) \cup {r.seq}
    BY <1>2, <1>4 DEF Buffered
  <1>6. r.seq \in 0..MaxSeq /\ r.key \in Nat /\ MaxSeq \in Nat /\ Start \in Nat /\ MaxBuffered \in Nat
    BY ReceiptFields, MaxSeqAssumption, OfferedAssumption
  <1>7. a.next \in Nat /\ a.next >= Start
    BY <1>1, <1>6 DEF AggFields
  <1>8. /\ Buffered(a) \subseteq a.next..MaxSeq
        /\ \A n \in Buffered(a) : a.receipts[n] \in acc /\ a.receipts[n].seq = n
        /\ Cardinality(Buffered(a) \ {a.next}) <= MaxBuffered
    BY DEF StateOK, BufferOK
  <1>9. AggFields(a2)
    BY <1>1, <1>4 DEF AggFields
  <1>10. Cardinality(Buffered(a2) \ {a.next}) <= MaxBuffered
    <2>1. IsFiniteSet(Buffered(a)) /\ IsFiniteSet(Buffered(a) \ {a.next})
      BY <1>7, <1>8, BufferIsFinite
    <2>2. CASE r.seq = a.next
      <3>1. Buffered(a2) \ {a.next} = Buffered(a) \ {a.next}
        BY <1>5, <2>2
      <3> QED  BY <1>8, <3>1
    <2>3. CASE r.seq # a.next
      <3>1. Cardinality(Buffered(a)) < MaxBuffered
        BY <1>4, <2>3 DEF HasRoom, IsAggregator
      <3> DEFINE B == Buffered(a) \ {a.next}
      <3>2. Buffered(a2) \ {a.next} = B \cup {r.seq} /\ r.seq \notin B
        BY <1>5, <2>3
      <3>3. Cardinality(B) <= Cardinality(Buffered(a)) /\ Cardinality(B) \in Nat /\ Cardinality(Buffered(a)) \in Nat
        BY <2>1, FS_Subset, FS_CardinalityType
      <3>4. Cardinality(B \cup {r.seq}) = Cardinality(B) + 1
        BY <2>1, <3>2, FS_AddElement
      <3> DEFINE x == Cardinality(B)
                 y == Cardinality(Buffered(a))
      <3> HIDE DEF B, x, y
      <3>5. x + 1 <= MaxBuffered
        <4>1. y < MaxBuffered /\ x <= y /\ x \in Nat /\ y \in Nat
          BY <3>1, <3>3 DEF x, y
        <4> QED  BY <1>6, <4>1
      <3> QED  BY <3>2, <3>4, <3>5 DEF x
    <2> QED  BY <2>2, <2>3
  <1>11. BufferOK(a2, acc2)
    <2>1. Buffered(a2) \subseteq a2.next..MaxSeq
      BY <1>4, <1>5, <1>6, <1>7, <1>8
    <2>2. \A n \in Buffered(a2) : a2.receipts[n] \in acc2 /\ a2.receipts[n].seq = n
      BY <1>2, <1>4, <1>5, <1>8
    <2> QED  BY <1>4, <1>10, <2>1, <2>2 DEF BufferOK
  <1>12. /\ acc \subseteq Offered
         /\ \A q \in acc : q.seq >= Start /\ a.kind = {q.kind}
         /\ \A q \in acc : q.seq >= a.next => q.seq \in Buffered(a) /\ a.receipts[q.seq] = q
         /\ \A q \in acc : q.seq < a.next => q.key <= a.lastKey
         /\ \A q, t \in acc : q.seq = t.seq => q = t
         /\ \A n \in Start..(a.next - 1) : \E q \in acc : q.seq = n
    BY DEF StateOK, AcceptedOK
  <1>13. ASSUME NEW q \in acc PROVE q.seq # r.seq
    <2>1. q.seq >= a.next => q.seq \in Buffered(a)
      BY <1>12
    <2> QED  BY <2>1
  <1>14. AcceptedOK(a2, acc2)
    <2>1. acc2 \subseteq Offered /\ \A q \in acc2 : q.seq >= Start /\ a2.kind = {q.kind}
      BY <1>4, <1>6, <1>7, <1>12
    <2>2. \A q \in acc2 : q.seq >= a2.next => q.seq \in Buffered(a2) /\ a2.receipts[q.seq] = q
      BY <1>2, <1>4, <1>5, <1>12
    <2>3. \A q \in acc2 : q.seq < a2.next => q.key <= a2.lastKey
      BY <1>4, <1>6, <1>7, <1>12
    <2>4. \A q, t \in acc2 : q.seq = t.seq => q = t
      BY <1>12, <1>13
    <2>5. \A n \in Start..(a2.next - 1) : \E q \in acc2 : q.seq = n
      BY <1>4, <1>12
    <2> QED  BY <2>1, <2>2, <2>3, <2>4, <2>5 DEF AcceptedOK
  <1>15. PendingOK(a2)
    <2>1. ASSUME NEW p \in a.pending PROVE a2.pending = {p} /\ IsPending(a2, p)
      <3>1. a.pending = {p} /\ IsPending(a, p)
        BY <2>1 DEF StateOK, PendingOK
      <3>2. p.last \in a.next..p.last
        BY <1>7, <3>1 DEF IsPending
      <3>3. \A i \in a.next..p.last : i \in Buffered(a) /\ a2.receipts[i] = a.receipts[i]
        BY <1>2, <1>4, <3>1 DEF IsPending
      <3> QED  BY <1>4, <1>5, <3>1, <3>2, <3>3 DEF IsPending
    <2> QED  BY <1>4, <2>1 DEF PendingOK
  <1>16. DurableOK(a2, acc2, d)
    <2>1. \A i \in 1..Len(d), q \in acc : q.seq < a.next =>
              IF q.seq <= d[i].last THEN q.key <= d[i].key ELSE Further(a.kind, d[i].key, q.key)
      BY DEF StateOK, DurableOK
    <2>2. ~(r.seq < a.next)
      BY <1>6, <1>7
    <2>3. \A i \in 1..Len(d), q \in acc2 : q.seq < a2.next =>
              IF q.seq <= d[i].last THEN q.key <= d[i].key ELSE Further(a2.kind, d[i].key, q.key)
      BY <1>4, <2>1, <2>2
    <2> QED  BY <1>4, <2>3 DEF StateOK, DurableOK
  <1> QED  BY <1>9, <1>11, <1>14, <1>15, <1>16 DEF StateOK

\* record_receipt, whatever it answers.
LEMMA RecordKeeps ==
    ASSUME NEW a, NEW acc, NEW d, NEW r \in Offered, StateOK(a, acc, d)
    PROVE  StateOK(AfterRecord(a, r), IF RecordOutcome(a, r) = "Buffered" THEN acc \cup {r} ELSE acc, d)
  <1> DEFINE a1 == [a EXCEPT !.kind = {r.kind}]
             a2 == AfterRecord(a, r)
             rs == [n \in Buffered(a) \cup {r.seq} |-> IF n = r.seq THEN r ELSE a.receipts[n]]
             answer == RecordOutcome(a, r)
  <1>1. a.next \in Nat /\ IsAggregator(a)
    BY OfferedAssumption, MaxSeqAssumption DEF StateOK, AggFields
  <1>2. r.seq \in Nat
    BY ReceiptFields, MaxSeqAssumption
  <1>3. /\ IsAggregator(a1) /\ a1.next = a.next /\ a1.kind = {r.kind} /\ a1.receipts = a.receipts /\ a1.max = a.max
    BY <1>1 DEF IsAggregator
  <1>4. Buffered(a1) = Buffered(a)
    BY <1>3 DEF Buffered
  <1>5. ASSUME answer \in {"Buffered", "BufferFull"}
        PROVE  /\ r.seq >= a.next /\ a.kind \in {{}, {r.kind}} /\ r.seq \notin Buffered(a)
               /\ answer = "Buffered" => HasRoom(a, r)
    BY <1>1, <1>2, <1>5 DEF RecordOutcome
  <1>6. CASE answer = "Buffered"
    <2>1. r.seq >= a.next /\ (a.kind = {} \/ a.kind = {r.kind}) /\ r.seq \notin Buffered(a) /\ HasRoom(a, r)
      BY <1>5, <1>6
    <2>2. StateOK(a1, acc, d)
      BY <2>1, RefusedReceipt
    <2>3. a2 = [a EXCEPT !.kind = {r.kind}, !.receipts = rs]
      BY <1>6 DEF AfterRecord
    <2>4. a2 = [a1 EXCEPT !.receipts = rs]
      <3> HIDE DEF a2, rs
      <3> QED  BY <1>1, <2>3 DEF IsAggregator
    <2>5. rs = [n \in Buffered(a1) \cup {r.seq} |-> IF n = r.seq THEN r ELSE a1.receipts[n]]
      BY <1>3, <1>4
    <2>6. HasRoom(a1, r)
      BY <1>3, <1>4, <2>1 DEF HasRoom
    <2> HIDE DEF a1, a2, rs
    <2>7. r.seq >= a1.next /\ r.seq \notin Buffered(a1)
      BY <1>3, <1>4, <2>1
    <2>8. a2 = [a1 EXCEPT !.receipts = [n \in Buffered(a1) \cup {r.seq} |-> IF n = r.seq THEN r ELSE a1.receipts[n]]]
      BY <2>4, <2>5
    <2>9. StateOK(a2, acc \cup {r}, d)
      BY <1>3, <2>2, <2>6, <2>7, <2>8, BufferedReceipt
    <2> QED  BY <1>6, <2>9 DEF a2
  <1>7. CASE answer = "BufferFull"
    <2>1. a2 = a1
      BY <1>7 DEF AfterRecord
    <2>2. a.kind = {} \/ a.kind = {r.kind}
      BY <1>5, <1>7
    <2> QED  BY <1>7, <2>1, <2>2, RefusedReceipt
  <1>8. CASE answer \notin {"Buffered", "BufferFull"}
    <2>1. a2 = a
      BY <1>8 DEF AfterRecord
    <2> QED  BY <1>8, <2>1
  <1> QED  BY <1>6, <1>7, <1>8

\* Nothing but the pending prefix changes.
LEMMA PendingChanged ==
    ASSUME NEW a, NEW acc, NEW d, StateOK(a, acc, d), NEW pending, NEW a2, a2 = [a EXCEPT !.pending = pending],
           \A p \in pending : pending = {p} /\ IsPending(a, p)
    PROVE  StateOK(a2, acc, d)
  <1>1. IsAggregator(a)
    BY DEF StateOK, AggFields
  <1>2. /\ IsAggregator(a2) /\ a2.next = a.next /\ a2.units = a.units /\ a2.kind = a.kind /\ a2.lastKey = a.lastKey
        /\ a2.receipts = a.receipts /\ a2.pending = pending
    BY <1>1 DEF IsAggregator
  <1>3. Buffered(a2) = Buffered(a)
    BY <1>2 DEF Buffered
  <1>4. AggFields(a2) /\ BufferOK(a2, acc) /\ AcceptedOK(a2, acc)
    BY <1>2, <1>3 DEF StateOK, AggFields, BufferOK, AcceptedOK
  <1>5. PendingOK(a2)
    BY <1>2, <1>3 DEF PendingOK, IsPending
  <1>6. DurableOK(a2, acc, d)
    BY <1>2 DEF StateOK, DurableOK
  <1> QED  BY <1>4, <1>5, <1>6 DEF StateOK

\* prepare_checkpoint hands out the whole run at the head of the buffer.
LEMMA PrepareKeeps ==
    ASSUME NEW a, NEW acc, NEW d, StateOK(a, acc, d)
    PROVE  StateOK(AfterPrepare(a), acc, d)
  <1> DEFINE a2 == AfterPrepare(a)
             p == Prefix(a)
             last == Last(Run(a))
  <1>1. CASE a.pending # {} \/ Run(a) = {} \/ Regresses(a)
    BY <1>1 DEF AfterPrepare
  <1>2. CASE ~(a.pending # {} \/ Run(a) = {} \/ Regresses(a))
    <2>1. a2 = [a EXCEPT !.pending = {p}]
      BY <1>2 DEF AfterPrepare
    <2>2. a.next \in Nat /\ a.lastKey \in Nat
      BY OfferedAssumption, MaxSeqAssumption DEF StateOK, AggFields
    <2>3. Buffered(a) \subseteq a.next..MaxSeq /\ \A n \in Buffered(a) : a.receipts[n] \in Offered
      BY DEF StateOK, BufferOK, AcceptedOK
    <2>4. /\ last \in Nat /\ a.next <= last
          /\ Run(a) = a.next..last /\ a.next..last \subseteq Buffered(a)
          /\ Cardinality(Run(a)) = last - a.next + 1
      BY <1>2, <2>2, <2>3, RunIsAnInterval
    <2>5. p = [first |-> a.next, last |-> last, key |-> a.receipts[last].key, units |-> last - a.next + 1]
      BY <2>4 DEF Prefix
    <2> HIDE DEF last, p, a2
    <2>6. \A n \in a.next..last : a.receipts[n].key \in Nat \ {0}
      BY <2>3, <2>4, ReceiptFields
    <2>7. \A i \in a.next..last :
              Further(a.kind, a.lastKey, a.receipts[i].key) /\ a.receipts[i].key <= a.receipts[last].key
      BY <1>2, <2>2, <2>4, <2>6, RunRises
    <2>8. p.last = last /\ p.key = a.receipts[last].key
      BY <2>5
    <2>9. IsPending(a, p)
      BY <2>4, <2>5, <2>7, <2>8 DEF IsPending
    <2>10. StateOK(a2, acc, d)
      BY <2>1, <2>9, PendingChanged
    <2> QED  BY <2>10 DEF a2
  <1> QED  BY <1>1, <1>2

\* acknowledge_checkpoint: the prefix becomes the last of the durable checkpoints.
LEMMA AcknowledgeKeeps ==
    ASSUME NEW a, NEW acc, NEW d, StateOK(a, acc, d), NEW p \in a.pending, Countable(a, p)
    PROVE  StateOK(AfterAcknowledge(a, p), acc, Append(d, p))
  <1> DEFINE a2 == AfterAcknowledge(a, p)
             d2 == Append(d, p)
             rest == {m \in Buffered(a) : m > p.last}
             rs == [n \in rest |-> a.receipts[n]]
             m == Len(d)
  <1>1. IsAggregator(a) /\ a.next \in Start..(MaxSeq + 1) /\ a.units \in Nat /\ a.lastKey \in Nat
        /\ a.kind \in {{}} \cup {{k} : k \in BoundaryKind}
    BY DEF StateOK, AggFields
  <1>2. MaxSeq \in Nat /\ Start \in Nat /\ MaxBuffered \in Nat /\ a.next \in Nat
    BY <1>1, OfferedAssumption, MaxSeqAssumption
  <1>3. /\ p = [first |-> a.next, last |-> p.last, key |-> a.receipts[p.last].key, units |-> p.last - a.next + 1]
        /\ p.last \in Nat /\ a.next <= p.last
        /\ \A i \in a.next..p.last : /\ i \in Buffered(a)
                                     /\ Further(a.kind, a.lastKey, a.receipts[i].key)
                                     /\ a.receipts[i].key <= p.key
    BY DEF StateOK, PendingOK, IsPending
  <1>4. p.first = a.next /\ p.units = p.last - a.next + 1 /\ p.last < MaxSeq /\ p.key = a.receipts[p.last].key
    BY <1>3 DEF Countable
  <1>5. /\ Buffered(a) \subseteq a.next..MaxSeq
        /\ \A n \in Buffered(a) : a.receipts[n] \in acc /\ a.receipts[n].seq = n
        /\ Cardinality(Buffered(a) \ {a.next}) <= MaxBuffered
    BY DEF StateOK, BufferOK
  <1>6. /\ acc \subseteq Offered
        /\ \A r \in acc : r.seq >= Start /\ a.kind = {r.kind}
        /\ \A r \in acc : r.seq >= a.next => r.seq \in Buffered(a) /\ a.receipts[r.seq] = r
        /\ \A r \in acc : r.seq < a.next => r.key <= a.lastKey
        /\ \A r, q \in acc : r.seq = q.seq => r = q
        /\ \A n \in Start..(a.next - 1) : \E r \in acc : r.seq = n
    BY DEF StateOK, AcceptedOK
  <1>7. p.key \in Nat /\ \A r \in acc : r.seq \in Nat /\ r.key \in Nat
    <2>1. \A r \in acc : r.seq \in 0..MaxSeq /\ r.key \in Nat
      BY <1>6, ReceiptFields
    <2>2. p.last \in a.next..p.last
      BY <1>2, <1>3
    <2> QED  BY <1>2, <1>3, <1>4, <1>5, <2>1, <2>2
  <1>8. DOMAIN rs = rest /\ \A n \in rest : rs[n] = a.receipts[n]
    OBVIOUS
  <1>9. a2 = [a EXCEPT !.pending = {}, !.next = p.last + 1, !.units = a.units + p.units, !.lastKey = p.key, !.receipts = rs]
    BY DEF AfterAcknowledge
  <1> HIDE DEF rs, a2
  <1>10. /\ IsAggregator(a2) /\ a2.next = p.last + 1 /\ a2.units = a.units + p.units /\ a2.kind = a.kind
         /\ a2.lastKey = p.key /\ a2.receipts = rs /\ a2.pending = {}
    <2> DEFINE none == {}
               nx == p.last + 1
               us == a.units + p.units
               key == p.key
    <2>1. a2 = [a EXCEPT !.pending = none, !.next = nx, !.units = us, !.lastKey = key, !.receipts = rs]
      BY <1>9
    <2> HIDE DEF none, nx, us, key
    <2>2. /\ IsAggregator(a2) /\ a2.next = nx /\ a2.units = us /\ a2.kind = a.kind
          /\ a2.lastKey = key /\ a2.receipts = rs /\ a2.pending = none
      <3> DEFINE b == [a EXCEPT !.pending = none]
                 c == [b EXCEPT !.next = nx]
                 e == [c EXCEPT !.units = us]
                 f == [e EXCEPT !.lastKey = key]
                 g == [f EXCEPT !.receipts = rs]
      <3>1. IsAggregator(b) /\ b.next = a.next /\ b.units = a.units /\ b.kind = a.kind /\ b.lastKey = a.lastKey /\ b.pending = none
        BY <1>1 DEF IsAggregator
      <3>2. a2 = g
        BY <2>1
      <3> HIDE DEF b
      <3>3. IsAggregator(c) /\ c.next = nx /\ c.kind = b.kind /\ c.pending = b.pending
        BY <3>1 DEF IsAggregator
      <3> HIDE DEF c
      <3>4. IsAggregator(e) /\ e.units = us /\ e.next = c.next /\ e.kind = c.kind /\ e.pending = c.pending
        BY <3>3 DEF IsAggregator
      <3> HIDE DEF e
      <3>5. IsAggregator(f) /\ f.lastKey = key /\ f.units = e.units /\ f.next = e.next /\ f.kind = e.kind /\ f.pending = e.pending
        BY <3>4 DEF IsAggregator
      <3> HIDE DEF f
      <3>6. IsAggregator(g) /\ g.receipts = rs /\ g.lastKey = f.lastKey /\ g.units = f.units /\ g.next = f.next
            /\ g.kind = f.kind /\ g.pending = f.pending
        BY <3>5 DEF IsAggregator
      <3> HIDE DEF g
      <3> QED  BY <3>1, <3>2, <3>3, <3>4, <3>5, <3>6
    <2> QED  BY <2>2 DEF none, nx, us, key
  <1>11. Buffered(a2) = rest
    BY <1>8, <1>10 DEF Buffered
  <1>12. AggFields(a2)
    <2>1. a2.next \in Start..(MaxSeq + 1) /\ a2.units \in Nat
      BY <1>1, <1>2, <1>3, <1>4, <1>10
    <2> QED  BY <1>1, <1>7, <1>10, <2>1 DEF AggFields
  <1>13. BufferOK(a2, acc)
    <2>1. rest \subseteq (p.last + 1)..MaxSeq
      BY <1>2, <1>3, <1>5
    <2>2. IsFiniteSet(Buffered(a) \ {a.next})
      BY <1>2, <1>5, BufferIsFinite
    <2>3. rest \ {p.last + 1} \subseteq Buffered(a) \ {a.next}
      BY <1>2, <1>3
    <2> DEFINE A == Buffered(a) \ {a.next}
               B == rest \ {p.last + 1}
    <2>4. Cardinality(B) <= Cardinality(A) /\ Cardinality(A) \in Nat /\ Cardinality(B) \in Nat
      BY <2>2, <2>3, FS_Subset, FS_CardinalityType
    <2>5. Cardinality(A) <= MaxBuffered
      BY <1>5
    <2> DEFINE x == Cardinality(A)
               y == Cardinality(B)
    <2> HIDE DEF A, B, x, y
    <2>6. y <= MaxBuffered
      <3>1. y <= x /\ x <= MaxBuffered /\ x \in Nat /\ y \in Nat
        BY <2>4, <2>5 DEF x, y
      <3> QED  BY <1>2, <3>1
    <2>7. Cardinality(Buffered(a2) \ {a2.next}) <= MaxBuffered
      BY <1>10, <1>11, <2>6 DEF y, B
    <2>8. \A n \in Buffered(a2) : a2.receipts[n] \in acc /\ a2.receipts[n].seq = n
      BY <1>5, <1>8, <1>10, <1>11
    <2> QED  BY <1>10, <1>11, <2>1, <2>7, <2>8 DEF BufferOK
  <1>14. ASSUME NEW r \in acc, r.seq < p.last + 1, r.seq >= a.next
         PROVE  /\ r.seq \in a.next..p.last /\ a.receipts[r.seq] = r
                /\ Further(a.kind, a.lastKey, r.key) /\ r.key <= p.key
    <2>1. r.seq \in a.next..p.last
      BY <1>2, <1>3, <1>7, <1>14
    <2>2. a.receipts[r.seq] = r
      BY <1>6, <1>14
    <2>3. Further(a.kind, a.lastKey, a.receipts[r.seq].key) /\ a.receipts[r.seq].key <= p.key
      BY <1>3, <2>1
    <2> QED  BY <2>1, <2>2, <2>3
  <1>15. a.lastKey <= p.key
    <2>1. p.last \in a.next..p.last
      BY <1>2, <1>3
    <2>2. Further(a.kind, a.lastKey, p.key)
      BY <1>3, <1>4, <2>1
    <2> QED  BY <2>2 DEF Further
  <1>16. AcceptedOK(a2, acc)
    <2>1. ASSUME NEW r \in acc, r.seq >= p.last + 1 PROVE r.seq \in rest /\ rs[r.seq] = r
      <3>1. r.seq >= a.next /\ r.seq > p.last
        BY <1>2, <1>3, <1>7, <2>1
      <3>2. r.seq \in Buffered(a) /\ a.receipts[r.seq] = r
        BY <1>6, <3>1
      <3> QED  BY <1>8, <3>1, <3>2
    <2>2. ASSUME NEW r \in acc, r.seq < p.last + 1 PROVE r.key <= p.key
      <3>1. CASE r.seq >= a.next
        BY <1>14, <2>2, <3>1
      <3>2. CASE r.seq < a.next
        <4>1. r.key <= a.lastKey
          BY <1>6, <3>2
        <4> QED  BY <1>1, <1>7, <1>15, <4>1
      <3> QED  BY <1>2, <1>7, <3>1, <3>2
    <2>3. ASSUME NEW n \in Start..(p.last + 1 - 1) PROVE \E r \in acc : r.seq = n
      <3>1. CASE n < a.next
        <4>1. n \in Start..(a.next - 1)
          BY <1>2, <1>3, <3>1
        <4> QED  BY <1>6, <4>1
      <3>2. CASE n >= a.next
        <4>1. n \in a.next..p.last
          BY <1>2, <1>3, <3>2
        <4>2. n \in Buffered(a)
          BY <1>3, <4>1
        <4> QED  BY <1>5, <4>2
      <3> QED  BY <1>2, <1>3, <3>1, <3>2
    <2>4. \A r \in acc : r.seq >= Start /\ a2.kind = {r.kind}
      BY <1>6, <1>10
    <2>5. \A r \in acc : r.seq >= a2.next => r.seq \in Buffered(a2) /\ a2.receipts[r.seq] = r
      BY <1>10, <1>11, <2>1
    <2>6. \A r \in acc : r.seq < a2.next => r.key <= a2.lastKey
      BY <1>10, <2>2
    <2>7. \A n \in Start..(a2.next - 1) : \E r \in acc : r.seq = n
      <3>1. a2.next - 1 = p.last + 1 - 1
        BY <1>3, <1>10
      <3> QED  BY <2>3, <3>1
    <2>8. acc \subseteq Offered /\ \A r, q \in acc : r.seq = q.seq => r = q
      BY <1>6
    <2> QED  BY <2>4, <2>5, <2>6, <2>7, <2>8 DEF AcceptedOK
  <1>17. PendingOK(a2)
    BY <1>10 DEF PendingOK
  <1>18. p \in Prefixes /\ d \in Seq(Prefixes)
    <2>1. p.units \in Nat
      BY <1>2, <1>3, <1>4
    <2>2. d \in Seq(Prefixes)
      BY DEF StateOK, DurableOK
    <2> QED  BY <1>2, <1>3, <1>4, <1>7, <2>1, <2>2 DEF Prefixes
  <1>19. /\ m \in Nat /\ d2 \in Seq(Prefixes) /\ Len(d2) = m + 1 /\ d2[m + 1] = p
         /\ \A i \in 1..m : d2[i] = d[i]
    BY <1>18
  <1>20. /\ \A i \in 1..m : /\ d[i].first = EndOf(d, i - 1) + 1
                            /\ d[i].first <= d[i].last
                            /\ d[i].units = d[i].last - d[i].first + 1
                            /\ d[i].last < a.next /\ d[i].key <= a.lastKey
         /\ a.next = EndOf(d, m) + 1
         /\ a.units = a.next - Start
         /\ \A i \in 1..m, r \in acc : r.seq < a.next =>
               IF r.seq <= d[i].last THEN r.key <= d[i].key ELSE Further(a.kind, d[i].key, r.key)
    BY DEF StateOK, DurableOK
  <1>21. \A i \in 1..m : d[i].last \in Nat /\ d[i].key \in Nat
    <2>1. \A i \in 1..m : d[i] \in Prefixes
      BY <1>18
    <2> QED  BY <2>1 DEF Prefixes
  <1> HIDE DEF d2, m, rest
  <1>22. EndOf(d2, m + 1) = p.last /\ \A i \in 0..m : EndOf(d2, i) = EndOf(d, i)
    BY <1>19 DEF EndOf
  <1>23. ASSUME NEW i \in 1..(m + 1)
         PROVE  /\ d2[i].first = EndOf(d2, i - 1) + 1
                /\ d2[i].first <= d2[i].last
                /\ d2[i].units = d2[i].last - d2[i].first + 1
                /\ d2[i].last < p.last + 1 /\ d2[i].key <= p.key
    <2>1. CASE i = m + 1
      <3>1. i - 1 = m /\ m \in 0..m
        BY <1>19, <2>1
      <3> QED  BY <1>2, <1>3, <1>4, <1>7, <1>19, <1>20, <1>22, <2>1, <3>1
    <2>2. CASE i # m + 1
      <3>1. i \in 1..m /\ i - 1 \in 0..m
        BY <1>19, <2>2
      <3>2. d[i].last < p.last + 1 /\ d[i].key <= p.key
        BY <1>1, <1>2, <1>3, <1>7, <1>15, <1>20, <1>21, <3>1
      <3> QED  BY <1>19, <1>20, <1>22, <3>1, <3>2
    <2> QED  BY <2>1, <2>2
  <1>24. a.units + p.units = p.last + 1 - Start
    BY <1>2, <1>3, <1>4, <1>20
  <1>25. ASSUME NEW i \in 1..(m + 1), NEW r \in acc, r.seq < p.last + 1
         PROVE  IF r.seq <= d2[i].last THEN r.key <= d2[i].key ELSE Further(a.kind, d2[i].key, r.key)
    <2>1. CASE i = m + 1
      <3>1. r.seq <= d2[i].last /\ d2[i].key = p.key
        BY <1>3, <1>7, <1>19, <1>25, <2>1
      <3>2. r.key <= p.key
        <4>1. CASE r.seq >= a.next
          BY <1>14, <1>25, <4>1
        <4>2. CASE r.seq < a.next
          <5>1. r.key <= a.lastKey
            BY <1>6, <4>2
          <5> QED  BY <1>1, <1>7, <1>15, <5>1
        <4> QED  BY <1>2, <1>7, <4>1, <4>2
      <3> QED  BY <3>1, <3>2
    <2>2. CASE i # m + 1
      <3>1. i \in 1..m /\ d2[i] = d[i]
        BY <1>19, <2>2
      <3>2. CASE r.seq < a.next
        BY <1>20, <3>1, <3>2
      <3>3. CASE r.seq >= a.next
        <4>1. Further(a.kind, a.lastKey, r.key)
          BY <1>14, <1>25, <3>3
        <4>2. d[i].last < a.next /\ d[i].key <= a.lastKey /\ d[i].last \in Nat /\ d[i].key \in Nat
          BY <1>20, <1>21, <3>1
        <4>3. ~(r.seq <= d[i].last)
          BY <1>2, <1>7, <3>3, <4>2
        <4>4. Further(a.kind, d[i].key, r.key)
          BY <1>1, <1>7, <4>1, <4>2 DEF Further
        <4> QED  BY <3>1, <4>3, <4>4
      <3> QED  BY <1>2, <1>7, <3>2, <3>3
    <2> QED  BY <2>1, <2>2
  <1>26. DurableOK(a2, acc, d2)
    <2>1. d2 \in Seq(Prefixes) /\ Len(d2) = m + 1
      BY <1>19
    <2>2. \A i \in 1..Len(d2) : /\ d2[i].first = EndOf(d2, i - 1) + 1
                                /\ d2[i].first <= d2[i].last
                                /\ d2[i].units = d2[i].last - d2[i].first + 1
                                /\ d2[i].last < a2.next /\ d2[i].key <= a2.lastKey
      BY <1>10, <1>23, <2>1
    <2>3. a2.next = EndOf(d2, Len(d2)) + 1 /\ a2.units = a2.next - Start
      <3>1. EndOf(d2, Len(d2)) = p.last
        BY <1>22, <2>1
      <3>2. a2.next = p.last + 1
        BY <1>10
      <3>3. a2.units = p.last + 1 - Start
        BY <1>10, <1>24
      <3> QED  BY <1>2, <1>3, <3>1, <3>2, <3>3
    <2>4. \A i \in 1..Len(d2), r \in acc : r.seq < a2.next =>
             IF r.seq <= d2[i].last THEN r.key <= d2[i].key ELSE Further(a2.kind, d2[i].key, r.key)
      BY <1>10, <1>25, <2>1
    <2> QED  BY <2>1, <2>2, <2>3, <2>4 DEF DurableOK
  <1> QED  BY <1>12, <1>13, <1>16, <1>17, <1>26 DEF StateOK, a2, d2

\* A fresh aggregator.
LEMMA NewAggregatorOK ==
    StateOK(NewAggregator(Start, MaxBuffered), {}, << >>)
  <1> DEFINE a == NewAggregator(Start, MaxBuffered)
  <1>1. Start \in Nat /\ MaxSeq \in Nat /\ Start <= MaxSeq /\ MaxBuffered \in Nat
    BY OfferedAssumption, MaxSeqAssumption
  <1>2. /\ a.next = Start /\ a.units = 0 /\ a.max = MaxBuffered /\ a.kind = {} /\ a.lastKey = 0
        /\ DOMAIN a.receipts = {} /\ a.pending = {} /\ IsAggregator(a)
    <2> DEFINE no == {}
               zero == 0
               none == NoProgress
               empty == << >>
    <2>1. a = [next |-> Start, units |-> zero, max |-> MaxBuffered, kind |-> no, lastKey |-> none,
               receipts |-> empty, pending |-> no]
      BY DEF NewAggregator
    <2>2. no = {} /\ zero = 0 /\ none = 0 /\ DOMAIN empty = {}
      BY DEF NoProgress
    <2> HIDE DEF a, no, zero, none, empty
    <2>3. a.next = Start /\ a.units = zero /\ a.max = MaxBuffered /\ a.kind = no /\ a.lastKey = none
          /\ a.receipts = empty /\ a.pending = no /\ IsAggregator(a)
      BY <2>1 DEF IsAggregator
    <2> QED  BY <2>2, <2>3
  <1>3. Buffered(a) = {}
    BY <1>2 DEF Buffered
  <1> HIDE DEF a
  <1>4. AggFields(a)
    BY <1>1, <1>2 DEF AggFields
  <1>5. BufferOK(a, {})
    <2>1. Buffered(a) \ {a.next} = {}
      BY <1>3
    <2>2. Cardinality({}) = 0
      BY FS_EmptySet
    <2>3. Cardinality(Buffered(a) \ {a.next}) <= MaxBuffered
      BY <1>1, <2>1, <2>2
    <2> QED  BY <1>3, <2>3 DEF BufferOK
  <1>6. AcceptedOK(a, {})
    BY <1>1, <1>2 DEF AcceptedOK
  <1>7. PendingOK(a)
    BY <1>2 DEF PendingOK
  <1>8. DurableOK(a, {}, << >>)
    <2>1. << >> \in Seq(Prefixes) /\ Len(<< >>) = 0
      OBVIOUS
    <2>2. EndOf(<< >>, 0) = Start - 1
      BY DEF EndOf
    <2> QED  BY <1>1, <1>2, <2>1, <2>2 DEF DurableOK
  <1> QED  BY <1>4, <1>5, <1>6, <1>7, <1>8 DEF StateOK, a

\* Every call of the aggregator keeps the invariant.
LEMMA AggStep ==
    ASSUME AggInv, [AggNext]_aggVars
    PROVE  AggInv'
  <1>1. StateOK(agg, admitted, durable)
    BY DEF AggInv
  <1>2. SUFFICES StateOK(agg', admitted', durable')
    BY DEF AggInv
  <1>3. CASE \E r \in Offered : RecordReceipt(r)
    <2>1. PICK r \in Offered : RecordReceipt(r)
      BY <1>3
    <2> QED  BY <1>1, <2>1, RecordKeeps DEF RecordReceipt
  <1>4. CASE PrepareCheckpoint
    BY <1>1, <1>4, PrepareKeeps DEF PrepareCheckpoint
  <1>5. CASE AcknowledgeCheckpoint
    <2>1. PICK p \in agg.pending : /\ Countable(agg, p)
                                   /\ agg' = AfterAcknowledge(agg, p)
                                   /\ durable' = Append(durable, p)
                                   /\ UNCHANGED admitted
      BY <1>5 DEF AcknowledgeCheckpoint
    <2> QED  BY <1>1, <2>1, AcknowledgeKeeps
  <1>6. CASE DiscardPending
    <2> DEFINE none == {}
    <2>1. agg' = [agg EXCEPT !.pending = none] /\ admitted' = admitted /\ durable' = durable
      BY <1>6 DEF DiscardPending
    <2>2. \A p \in none : none = {p} /\ IsPending(agg, p)
      OBVIOUS
    <2> HIDE DEF none
    <2> QED  BY <1>1, <2>1, <2>2, PendingChanged
  <1>7. CASE UNCHANGED aggVars
    BY <1>1, <1>7 DEF aggVars
  <1> QED  BY <1>3, <1>4, <1>5, <1>6, <1>7 DEF AggNext

\* The aggregator's invariant holds throughout.
LEMMA AggInvariance == AggSpec => []AggInv
  <1>1. AggInit => AggInv
    BY NewAggregatorOK DEF AggInit, AggInv
  <1>2. AggInv /\ [AggNext]_aggVars => AggInv'
    BY AggStep
  <1> QED  BY <1>1, <1>2, PTL DEF AggSpec

\* The aggregator's fields have their types, and the buffer its limit.
LEMMA AggTyped == ASSUME AggInv PROVE AggTypeOK
  <1>1. /\ agg.next \in Start..(MaxSeq + 1) /\ agg.units \in Nat /\ agg.lastKey \in Nat
        /\ agg.kind \in {{}} \cup {{k} : k \in BoundaryKind}
    BY DEF AggInv, StateOK, AggFields
  <1>2. Start \in Nat /\ MaxSeq \in Nat /\ MaxBuffered \in Nat /\ agg.next \in Nat
    BY <1>1, OfferedAssumption, MaxSeqAssumption
  <1>3. /\ Buffered(agg) \subseteq agg.next..MaxSeq
        /\ \A n \in Buffered(agg) : agg.receipts[n] \in admitted
        /\ Cardinality(Buffered(agg) \ {agg.next}) <= MaxBuffered
    BY DEF AggInv, StateOK, BufferOK
  <1>4. admitted \subseteq Offered
    BY DEF AggInv, StateOK, AcceptedOK
  <1>5. Buffered(agg) \subseteq 0..MaxSeq
    BY <1>2, <1>3
  <1>6. Cardinality(agg.pending) <= 1
    <2>1. CASE agg.pending = {}
      BY <2>1, FS_EmptySet
    <2>2. CASE agg.pending # {}
      <3>1. PICK p \in agg.pending : agg.pending = {p}
        BY <2>2 DEF AggInv, StateOK, PendingOK
      <3>2. Cardinality({p}) = 1
        BY FS_Singleton
      <3>3. Cardinality(agg.pending) = 1
        BY <3>1, <3>2, Zenon
      <3> QED  BY <3>3
    <2> QED  BY <2>1, <2>2
  <1>7. Cardinality(Buffered(agg)) <= MaxBuffered + 1
    <2> DEFINE B == Buffered(agg)
               C == Buffered(agg) \ {agg.next}
               x == Cardinality(B)
               y == Cardinality(C)
    <2>1. IsFiniteSet(B) /\ IsFiniteSet(C)
      BY <1>2, <1>3, BufferIsFinite
    <2>2. x \in Nat /\ y \in Nat
      BY <2>1, FS_CardinalityType
    <2>3. x <= y + 1
      <3>1. CASE agg.next \in B
        <4>1. Cardinality(B \ {agg.next}) = Cardinality(B) - 1
          BY <2>1, <3>1, FS_RemoveElement
        <4>2. y = x - 1
          BY <4>1
        <4> HIDE DEF x, y
        <4> QED  BY <2>2, <4>2
      <3>2. CASE agg.next \notin B
        <4>1. C = B
          BY <3>2
        <4>2. y = x
          BY <4>1
        <4> HIDE DEF x, y
        <4> QED  BY <2>2, <4>2
      <3> QED  BY <3>1, <3>2
    <2>4. y <= MaxBuffered
      BY <1>3
    <2> HIDE DEF x, y
    <2>5. x <= MaxBuffered + 1
      BY <1>2, <2>2, <2>3, <2>4
    <2> QED  BY <2>5 DEF x
  <1>8. \A n \in Buffered(agg) : agg.receipts[n] \in Offered
    BY <1>3, <1>4
  <1> QED  BY <1>1, <1>4, <1>5, <1>6, <1>7, <1>8 DEF AggTypeOK

\* The ends of the checkpoints, as CheckpointsTile writes them.
LEMMA EndsOfCheckpoints ==
    ASSUME NEW d \in Seq(Prefixes), NEW ends, ends = <<Start - 1>> \o [i \in DOMAIN d |-> d[i].last]
    PROVE  /\ Len(ends) = Len(d) + 1
           /\ \A i \in 1..(Len(d) + 1) : ends[i] = EndOf(d, i - 1)
  <1> DEFINE t == [i \in DOMAIN d |-> d[i].last]
             s == <<Start - 1>>
             n == Len(d)
  <1>1. n \in Nat /\ DOMAIN d = 1..n /\ \A i \in 1..n : d[i] \in Prefixes
    OBVIOUS
  <1>2. \A i \in 1..n : d[i].last \in Nat
    BY <1>1 DEF Prefixes
  <1> HIDE DEF n
  <1>3. t \in [1..n -> Int]
    BY <1>1, <1>2
  <1>4. t \in Seq(Int)
    BY <1>1, <1>3, IsASeq
  <1>5. s \in Seq(Int) /\ Len(s) = 1 /\ s[1] = Start - 1
    BY OfferedAssumption, MaxSeqAssumption
  <1>6. Len(t) = n
    BY <1>1, <1>3, <1>4, LenProperties
  <1>7. \A i \in 1..n : t[i] = d[i].last
    BY <1>1
  <1> HIDE DEF t, s
  <1>8. ends = s \o t
    BY DEF s, t
  <1>9. Len(ends) = n + 1 /\ ends[1] = s[1] /\ \A i \in 2..(n + 1) : ends[i] = t[i - 1]
    <2>1. /\ Len(s \o t) = Len(s) + Len(t)
          /\ \A i \in 1..(Len(s) + Len(t)) : (s \o t)[i] = IF i <= Len(s) THEN s[i] ELSE t[i - Len(s)]
      BY <1>4, <1>5, ConcatProperties
    <2>2. /\ Len(ends) = 1 + n
          /\ \A i \in 1..(1 + n) : ends[i] = IF i <= 1 THEN s[i] ELSE t[i - 1]
      BY <1>5, <1>6, <1>8, <2>1
    <2>3. n \in Nat
      BY <1>1
    <2>4. Len(ends) = n + 1 /\ 1 \in 1..(1 + n) /\ \A i \in 2..(n + 1) : i \in 1..(1 + n) /\ ~(i <= 1)
      BY <2>2, <2>3
    <2>5. ends[1] = s[1]
      BY <2>2, <2>4
    <2>6. \A i \in 2..(n + 1) : ends[i] = t[i - 1]
      BY <2>2, <2>4
    <2> QED  BY <2>4, <2>5, <2>6
  <1>10. ASSUME NEW i \in 1..(n + 1) PROVE ends[i] = EndOf(d, i - 1)
    <2>1. CASE i = 1
      BY <1>5, <1>9, <2>1 DEF EndOf
    <2>2. CASE i # 1
      <3>1. i \in 2..(n + 1) /\ i - 1 \in 1..n /\ i - 1 # 0
        BY <1>1, <2>2
      <3>2. ends[i] = d[i - 1].last
        BY <1>7, <1>9, <3>1
      <3> QED  BY <3>1, <3>2 DEF EndOf
    <2> QED  BY <2>1, <2>2
  <1> QED  BY <1>9, <1>10 DEF n

\* The checkpoints tile the units from the first.
LEMMA AggTiles == ASSUME AggInv PROVE CheckpointsTile
  <1> DEFINE ends == <<Start - 1>> \o [i \in DOMAIN durable |-> durable[i].last]
             m == Len(durable)
  <1>1. /\ durable \in Seq(Prefixes)
        /\ \A i \in 1..m : /\ durable[i].first = EndOf(durable, i - 1) + 1
                           /\ durable[i].first <= durable[i].last
                           /\ durable[i].units = durable[i].last - durable[i].first + 1
        /\ agg.next = EndOf(durable, m) + 1
        /\ agg.units = agg.next - Start
    BY DEF AggInv, StateOK, DurableOK
  <1>2. m \in Nat /\ DOMAIN durable = 1..m
    BY <1>1
  <1>3. Len(ends) = m + 1 /\ \A i \in 1..(m + 1) : ends[i] = EndOf(durable, i - 1)
    BY <1>1, EndsOfCheckpoints
  <1>4. \A n \in Start..(agg.next - 1) : \E r \in admitted : r.seq = n
    BY DEF AggInv, StateOK, AcceptedOK
  <1> HIDE DEF ends, m
  <1>5. \A i \in DOMAIN durable : /\ durable[i].first = ends[i] + 1
                                  /\ durable[i].first <= durable[i].last
                                  /\ durable[i].units = durable[i].last - durable[i].first + 1
    BY <1>1, <1>2, <1>3
  <1>6. agg.next = ends[Len(ends)] + 1
    <2>1. m + 1 \in 1..(m + 1) /\ m + 1 - 1 = m
      BY <1>2
    <2>2. ends[m + 1] = EndOf(durable, m + 1 - 1)
      BY <1>2, <1>3, <2>1
    <2>3. ends[m + 1] = EndOf(durable, m)
      BY <2>1, <2>2
    <2>4. ends[Len(ends)] = ends[m + 1]
      BY <1>3
    <2> QED  BY <1>1, <2>3, <2>4
  <1> QED  BY <1>1, <1>4, <1>5, <1>6 DEF CheckpointsTile, ends

\* A scan resumed from any checkpoint skips no unit that is not covered.
LEMMA AggResumes == ASSUME AggInv PROVE ResumeSkipsNothing
  <1>1. SUFFICES ASSUME NEW i \in DOMAIN durable, NEW r \in admitted, r.seq < agg.next
                 PROVE  IF r.seq <= durable[i].last
                          THEN r.key <= durable[i].key
                          ELSE IF r.kind = "OrderedContent" THEN r.key > durable[i].key
                                                           ELSE r.key >= durable[i].key
    BY DEF ResumeSkipsNothing
  <1>2. durable \in Seq(Prefixes)
    BY DEF AggInv, StateOK, DurableOK
  <1>3. i \in 1..Len(durable) /\ durable[i] \in Prefixes
    BY <1>2
  <1>4. durable[i].key \in Nat
    BY <1>3 DEF Prefixes
  <1>5. IF r.seq <= durable[i].last THEN r.key <= durable[i].key ELSE Further(agg.kind, durable[i].key, r.key)
    BY <1>1, <1>3 DEF AggInv, StateOK, DurableOK
  <1>6. r \in Offered /\ agg.kind = {r.kind}
    BY DEF AggInv, StateOK, AcceptedOK
  <1>7. r.key \in Nat
    BY <1>6, ReceiptFields
  <1>8. r.kind = "OrderedContent" => agg.kind = {"OrderedContent"}
    BY <1>6
  <1> QED  BY <1>4, <1>5, <1>7, <1>8 DEF Further

\* Whatever receipts a caller offers and in whatever order, the acknowledged
\* checkpoints tile the accepted units and resuming from one skips nothing
\* (record_receipt, build_contiguous_prefix, acknowledge_checkpoint).
THEOREM CheckpointsAreSafe == AggSpec => []AggSafe
  <1>1. ASSUME AggInv PROVE OneReceiptPerUnit
    BY <1>1 DEF AggInv, StateOK, AcceptedOK, OneReceiptPerUnit
  <1>2. AggInv => AggSafe
    BY <1>1, AggTyped, AggTiles, AggResumes DEF AggSafe
  <1> QED  BY <1>2, AggInvariance, PTL

\* What a step may do to the prefix that is handed out.
PrefixKept(p) ==
    \/ agg'.pending \subseteq {p} /\ p.first..p.last \subseteq Buffered(agg')
    \/ agg'.next = p.last + 1 /\ Len(durable') = Len(durable) + 1

\* A call leaves a prefix that is handed out alone, or acknowledges it.
LEMMA PrefixStep ==
    ASSUME AggInv, [AggNext]_aggVars, NEW p \in agg.pending
    PROVE  PrefixKept(p)
  <1>1. StateOK(agg, admitted, durable) /\ IsAggregator(agg)
    BY DEF AggInv, StateOK, AggFields
  <1>2. agg.pending = {p} /\ IsPending(agg, p)
    BY <1>1 DEF StateOK, PendingOK
  <1>3. p.first..p.last \subseteq Buffered(agg)
    <2>1. p.first = agg.next /\ \A i \in agg.next..p.last : i \in Buffered(agg)
      BY <1>2 DEF IsPending
    <2> QED  BY <2>1
  <1>4. CASE \E r \in Offered : RecordReceipt(r)
    <2>1. PICK r \in Offered : agg' = AfterRecord(agg, r)
      BY <1>4 DEF RecordReceipt
    <2> DEFINE rs == [n \in Buffered(agg) \cup {r.seq} |-> IF n = r.seq THEN r ELSE agg.receipts[n]]
               kind == {r.kind}
    <2>2. \/ agg' = agg
          \/ agg' = [agg EXCEPT !.kind = kind]
          \/ agg' = [agg EXCEPT !.kind = kind, !.receipts = rs]
      BY <2>1 DEF AfterRecord
    <2>3. DOMAIN rs = Buffered(agg) \cup {r.seq}
      OBVIOUS
    <2> HIDE DEF rs, kind
    <2>4. agg'.pending = agg.pending /\ agg'.receipts \in {agg.receipts, rs}
      BY <1>1, <2>2 DEF IsAggregator
    <2>5. Buffered(agg) \subseteq Buffered(agg')
      BY <2>3, <2>4 DEF Buffered
    <2> QED  BY <1>2, <1>3, <2>4, <2>5 DEF PrefixKept
  <1>5. CASE PrepareCheckpoint
    <2>1. agg' = agg
      BY <1>2, <1>5 DEF PrepareCheckpoint, AfterPrepare
    <2> QED  BY <1>2, <1>3, <2>1 DEF PrefixKept
  <1>6. CASE AcknowledgeCheckpoint
    <2>1. agg' = AfterAcknowledge(agg, p) /\ durable' = Append(durable, p)
      BY <1>2, <1>6 DEF AcknowledgeCheckpoint
    <2>2. agg'.next = p.last + 1
      <3> DEFINE none == {}
                 nx == p.last + 1
                 us == agg.units + p.units
                 rs == [n \in {m \in Buffered(agg) : m > p.last} |-> agg.receipts[n]]
                 key == p.key
      <3>1. agg' = [agg EXCEPT !.pending = none, !.next = nx, !.units = us, !.lastKey = key, !.receipts = rs]
        BY <2>1 DEF AfterAcknowledge
      <3> HIDE DEF none, nx, us, rs, key
      <3>2. agg'.next = nx
        BY <1>1, <3>1 DEF IsAggregator
      <3> QED  BY <3>2 DEF nx
    <2>3. durable \in Seq(Prefixes) /\ Len(Append(durable, p)) = Len(durable) + 1
      BY <1>1 DEF StateOK, DurableOK
    <2> QED  BY <2>1, <2>2, <2>3 DEF PrefixKept
  <1>7. CASE DiscardPending
    <2> DEFINE none == {}
    <2>1. agg' = [agg EXCEPT !.pending = none]
      BY <1>7 DEF DiscardPending
    <2>2. none \subseteq {p}
      OBVIOUS
    <2> HIDE DEF none
    <2>3. agg'.pending = none /\ agg'.receipts = agg.receipts
      BY <1>1, <2>1 DEF IsAggregator
    <2> QED  BY <1>3, <2>2, <2>3 DEF PrefixKept, Buffered
  <1>8. CASE UNCHANGED aggVars
    BY <1>2, <1>3, <1>8 DEF aggVars, PrefixKept
  <1> QED  BY <1>4, <1>5, <1>6, <1>7, <1>8 DEF AggNext

\* A prefix that prepare_checkpoint has handed out is never widened, and its
\* receipts stay buffered until it is acknowledged.
THEOREM PrefixesAreHeld == AggSpec => PendingHeld
  <1>1. AggInv /\ [AggNext]_aggVars => [\A p \in agg.pending : PrefixKept(p)]_aggVars
    BY PrefixStep
  <1> QED  BY <1>1, AggInvariance, PTL DEF AggSpec, PendingHeld, PrefixKept

-----------------------------------------------------------------------------
(* The order of the writes                                                 *)

\* The durable state keeps its type and nothing is skipped: NothingSkipped is
\* inductive beside the bound on the cursor (page_commit.rs).
THEOREM ScanSkipsNothing ==
    ASSUME N \in Nat
    PROVE  DurableSpec => [](DurableTypeOK /\ NothingSkipped)
<1>1. DurableInit => DurableTypeOK /\ NothingSkipped
  <2> SUFFICES ASSUME DurableInit PROVE DurableTypeOK /\ NothingSkipped
    OBVIOUS
  <2>1. findings \subseteq Items /\ ledger \subseteq Items /\ ledger \subseteq findings
    BY DEF DurableInit
  <2>2. cursor \in 0..N /\ 1..cursor \subseteq ledger
    BY DEF DurableInit
  <2> QED
    BY <2>1, <2>2 DEF DurableInit, DurableTypeOK, NothingSkipped
<1>2. ASSUME DurableTypeOK, NothingSkipped, [DurableNext]_durableVars
      PROVE  DurableTypeOK' /\ NothingSkipped'
  <2>1. ASSUME NEW i \in Items, PersistFindings(i)
        PROVE  DurableTypeOK' /\ NothingSkipped'
    BY <1>2, <2>1 DEF PersistFindings, DurableTypeOK, NothingSkipped, Items
  <2>2. ASSUME NEW i \in Items, PersistDoneRow(i)
        PROVE  DurableTypeOK' /\ NothingSkipped'
    BY <1>2, <2>2 DEF PersistDoneRow, DurableTypeOK, NothingSkipped, Items
  <2>3. ASSUME NEW c \in 0..N, PersistCursor(c)
        PROVE  DurableTypeOK' /\ NothingSkipped'
    BY <1>2, <2>3 DEF PersistCursor, DurableTypeOK, NothingSkipped, Items
  <2>4. ASSUME NEW c \in 0..N, PersistDone(c)
        PROVE  DurableTypeOK' /\ NothingSkipped'
    BY <1>2, <2>4 DEF PersistDone, DurableTypeOK, NothingSkipped, Items
  <2>5. CASE UNCHANGED durableVars
    BY <1>2, <2>5 DEF durableVars, DurableTypeOK, NothingSkipped, Items
  <2> QED
    BY <1>2, <2>1, <2>2, <2>3, <2>4, <2>5 DEF DurableNext
<1> QED
  BY <1>1, <1>2, PTL DEF DurableSpec

-----------------------------------------------------------------------------
(* The merge of done-ledger rows                                           *)

ValidRecord == {r \in LedgerRecord : Valid(r)}

\* The record whose status, provenance and error code survive.
Chosen(a, b) == IF Beats(b, a) THEN b ELSE a

USE DEF FailedRetryable, FailedPermanent, Skipped, ScannedClean, ScannedWithFindings, NoCode

\* The fields of a valid record, and what the status says of the findings and the error code.
LEMMA RecordFields ==
    ASSUME NEW a \in ValidRecord
    PROVE  /\ a.rank \in {1, 2, 3, 10, 11}
           /\ a.bytes \in Nat /\ a.findings \in Nat /\ a.prov \in Nat /\ a.code \in Nat
           /\ a.rank = 10 => a.findings = 0
           /\ a.rank = 11 => a.findings > 0
           /\ a.rank \in {10, 11} <=> a.code = 0
           /\ a = [rank |-> a.rank, bytes |-> a.bytes, findings |-> a.findings, prov |-> a.prov, code |-> a.code]
  BY DEF ValidRecord, LedgerRecord, Rank, Valid, IsScanned

\* The surviving record is one of the two merged.
LEMMA ChosenIsOneOfThem ==
    ASSUME NEW a \in ValidRecord, NEW b \in ValidRecord
    PROVE  Chosen(a, b) \in ValidRecord /\ Chosen(a, b) \in {a, b}
  BY DEF Chosen

\* On valid records the choice by provenance key decides the status and the code too.
LEMMA MergeByChoice ==
    ASSUME NEW a \in ValidRecord, NEW b \in ValidRecord
    PROVE  Merge(a, b) = [rank |-> Chosen(a, b).rank,
                          bytes |-> Greater(a.bytes, b.bytes),
                          findings |-> MergeFindings(Chosen(a, b).rank, a, b),
                          prov |-> Chosen(a, b).prov,
                          code |-> Chosen(a, b).code]
  <1>1. MergeStatus(a.rank, b.rank) = Chosen(a, b).rank
    BY RecordFields DEF MergeStatus, Chosen, Beats
  <1>2. CASE IsScanned(Chosen(a, b).rank)
    <2>1. Chosen(a, b).code = NoCode
      BY <1>2, ChosenIsOneOfThem, RecordFields DEF IsScanned
    <2> QED  BY <1>1, <1>2, <2>1 DEF Merge, Chosen
  <1>3. CASE ~IsScanned(Chosen(a, b).rank)
    <2>1. Chosen(a, b).code # NoCode
      BY <1>3, ChosenIsOneOfThem, RecordFields DEF IsScanned
    <2> QED  BY <1>1, <1>3, <2>1 DEF Merge, Chosen
  <1> QED  BY <1>2, <1>3

\* Which of two records survives does not depend on their order.
LEMMA ChoiceCommutes ==
    ASSUME NEW a \in ValidRecord, NEW b \in ValidRecord
    PROVE  /\ Chosen(a, b).rank = Chosen(b, a).rank
           /\ Chosen(a, b).prov = Chosen(b, a).prov
           /\ Chosen(a, b).code = Chosen(b, a).code
  <1>1. /\ a.rank \in Nat /\ a.prov \in Nat /\ a.code \in Nat
        /\ b.rank \in Nat /\ b.prov \in Nat /\ b.code \in Nat
    BY RecordFields
  <1>2. CASE Beats(b, a)
    <2>1. ~Beats(a, b)
      BY <1>1, <1>2 DEF Beats
    <2> QED  BY <1>2, <2>1 DEF Chosen
  <1>3. CASE Beats(a, b)
    <2>1. ~Beats(b, a)
      BY <1>1, <1>3 DEF Beats
    <2> QED  BY <1>3, <2>1 DEF Chosen
  <1>4. CASE ~Beats(a, b) /\ ~Beats(b, a)
    <2>1. a.rank = b.rank /\ a.prov = b.prov /\ a.code = b.code
      BY <1>1, <1>4 DEF Beats
    <2> QED  BY <1>4, <2>1 DEF Chosen
  <1> QED  BY <1>2, <1>3, <1>4

\* The merged findings count agrees with the surviving status.
LEMMA FindingsTyped ==
    ASSUME NEW a \in ValidRecord, NEW b \in ValidRecord
    PROVE  /\ MergeFindings(Chosen(a, b).rank, a, b) \in Nat
           /\ Chosen(a, b).rank = 10 => MergeFindings(Chosen(a, b).rank, a, b) = 0
           /\ Chosen(a, b).rank = 11 => MergeFindings(Chosen(a, b).rank, a, b) > 0
  BY RecordFields, ChosenIsOneOfThem DEF MergeFindings, SwfFindings, Greater

(***************************************************************************)
(* Merging two valid records gives a valid record: a backend that stores   *)
(* the result may merge it again (DoneLedgerRecord::merge validates both   *)
(* of its operands).                                                       *)
(***************************************************************************)
THEOREM MergeKeepsValid ==
    ASSUME NEW a \in ValidRecord, NEW b \in ValidRecord
    PROVE  Merge(a, b) \in ValidRecord
  <1>1. Greater(a.bytes, b.bytes) \in Nat
    BY RecordFields DEF Greater
  <1>2. /\ Chosen(a, b).rank \in Rank /\ Chosen(a, b).prov \in Nat /\ Chosen(a, b).code \in Nat
        /\ IsScanned(Chosen(a, b).rank) <=> Chosen(a, b).code = NoCode
    BY ChosenIsOneOfThem, RecordFields DEF Rank, IsScanned
  <1> QED  BY <1>1, <1>2, FindingsTyped, MergeByChoice DEF ValidRecord, LedgerRecord, Valid

(***************************************************************************)
(* The order in which two writers' records arrive does not matter.         *)
(***************************************************************************)
THEOREM MergeCommutes ==
    ASSUME NEW a \in ValidRecord, NEW b \in ValidRecord
    PROVE  Merge(a, b) = Merge(b, a)
  <1>1. Greater(a.bytes, b.bytes) = Greater(b.bytes, a.bytes)
    BY RecordFields DEF Greater
  <1>2. ASSUME NEW k PROVE MergeFindings(k, a, b) = MergeFindings(k, b, a)
    BY RecordFields DEF MergeFindings, SwfFindings, Greater
  <1> QED  BY <1>1, <1>2, ChoiceCommutes, MergeByChoice

(***************************************************************************)
(* A redelivered record changes nothing.                                   *)
(***************************************************************************)
THEOREM MergeIdempotent ==
    ASSUME NEW a \in ValidRecord
    PROVE  Merge(a, a) = a
  <1>1. Chosen(a, a) = a
    BY DEF Chosen
  <1>2. Greater(a.bytes, a.bytes) = a.bytes /\ MergeFindings(a.rank, a, a) = a.findings
    BY RecordFields DEF Greater, MergeFindings, SwfFindings
  <1> QED  BY <1>1, <1>2, RecordFields, MergeByChoice

\* How the choices of two merges in a row compose.
LEMMA ChoiceAssociates ==
    ASSUME NEW a \in ValidRecord, NEW b \in ValidRecord, NEW c \in ValidRecord
    PROVE  LET ab == Merge(a, b)
               bc == Merge(b, c)
           IN  /\ Chosen(ab, c).rank = Chosen(a, bc).rank
               /\ Chosen(ab, c).prov = Chosen(a, bc).prov
               /\ Chosen(ab, c).code = Chosen(a, bc).code
  <1>1. /\ Merge(a, b).rank = Chosen(a, b).rank /\ Merge(b, c).rank = Chosen(b, c).rank
        /\ Merge(a, b).prov = Chosen(a, b).prov /\ Merge(b, c).prov = Chosen(b, c).prov
        /\ Merge(a, b).code = Chosen(a, b).code /\ Merge(b, c).code = Chosen(b, c).code
    BY MergeByChoice
  <1>2. /\ a.rank \in Nat /\ a.prov \in Nat /\ a.code \in Nat
        /\ b.rank \in Nat /\ b.prov \in Nat /\ b.code \in Nat
        /\ c.rank \in Nat /\ c.prov \in Nat /\ c.code \in Nat
    BY RecordFields
  <1>3. CASE Beats(b, a) /\ Beats(c, b)
    BY <1>1, <1>2, <1>3 DEF Chosen, Beats
  <1>4. CASE Beats(b, a) /\ ~Beats(c, b)
    BY <1>1, <1>2, <1>4 DEF Chosen, Beats
  <1>5. CASE ~Beats(b, a) /\ Beats(c, b)
    BY <1>1, <1>2, <1>5 DEF Chosen, Beats
  <1>6. CASE ~Beats(b, a) /\ ~Beats(c, b)
    BY <1>1, <1>2, <1>6 DEF Chosen, Beats
  <1> QED  BY <1>3, <1>4, <1>5, <1>6

(***************************************************************************)
(* Nor does the grouping: records deduplicated within a batch and then     *)
(* merged into the row give the row that one-by-one merges give, which is  *)
(* what apply relies on.                                                   *)
(***************************************************************************)
THEOREM MergeAssociates ==
    ASSUME NEW a \in ValidRecord, NEW b \in ValidRecord, NEW c \in ValidRecord
    PROVE  Merge(Merge(a, b), c) = Merge(a, Merge(b, c))
  <1> DEFINE ab == Merge(a, b)
             bc == Merge(b, c)
             top == Chosen(ab, c).rank
  <1>0. ab \in ValidRecord /\ bc \in ValidRecord
    BY MergeKeepsValid
  <1>1. /\ ab.rank = Chosen(a, b).rank /\ ab.bytes = Greater(a.bytes, b.bytes)
        /\ ab.findings = MergeFindings(ab.rank, a, b)
        /\ bc.rank = Chosen(b, c).rank /\ bc.bytes = Greater(b.bytes, c.bytes)
        /\ bc.findings = MergeFindings(bc.rank, b, c)
    BY MergeByChoice
  <1>2. Greater(ab.bytes, c.bytes) = Greater(a.bytes, bc.bytes)
    BY <1>1, RecordFields DEF Greater
  <1>3. top = Chosen(a, bc).rank
    BY ChoiceAssociates
  <1>4. /\ top = MergeStatus(MergeStatus(a.rank, b.rank), c.rank)
        /\ ab.rank = MergeStatus(a.rank, b.rank) /\ bc.rank = MergeStatus(b.rank, c.rank)
    BY <1>0, <1>1, RecordFields DEF Chosen, Beats, MergeStatus
  <1>5. MergeFindings(top, ab, c) = MergeFindings(top, a, bc)
    <2>1. CASE top = ScannedClean
      BY <2>1 DEF MergeFindings
    <2>2. CASE top = ScannedWithFindings
      BY <2>2, <1>1, <1>4, RecordFields DEF MergeFindings, SwfFindings, Greater, MergeStatus
    <2>3. CASE top \notin {ScannedClean, ScannedWithFindings}
      BY <2>3, <1>1, <1>4, RecordFields DEF MergeFindings, Greater, MergeStatus
    <2> QED  BY <2>1, <2>2, <2>3
  <1> HIDE DEF ab, bc, top
  <1>6. Merge(ab, c) = [rank |-> Chosen(ab, c).rank, bytes |-> Greater(ab.bytes, c.bytes),
                        findings |-> MergeFindings(Chosen(ab, c).rank, ab, c),
                        prov |-> Chosen(ab, c).prov, code |-> Chosen(ab, c).code]
    BY <1>0, MergeByChoice
  <1>7. Merge(a, bc) = [rank |-> Chosen(a, bc).rank, bytes |-> Greater(a.bytes, bc.bytes),
                        findings |-> MergeFindings(Chosen(a, bc).rank, a, bc),
                        prov |-> Chosen(a, bc).prov, code |-> Chosen(a, bc).code]
    BY <1>0, MergeByChoice
  <1>8. /\ Chosen(ab, c).rank = Chosen(a, bc).rank /\ Chosen(ab, c).prov = Chosen(a, bc).prov
        /\ Chosen(ab, c).code = Chosen(a, bc).code
    BY ChoiceAssociates DEF ab, bc
  <1> QED  BY <1>2, <1>5, <1>6, <1>7, <1>8 DEF ab, bc, top

(***************************************************************************)
(* "No downgrade": a merge never lowers the status, the bytes or the       *)
(* provenance key, whichever writer comes last, so a scanned row stays     *)
(* scanned.                                                                *)
(***************************************************************************)
THEOREM MergeNeverDowngrades ==
    ASSUME NEW a \in ValidRecord, NEW b \in ValidRecord
    PROVE  /\ Merge(a, b).rank >= a.rank /\ Merge(a, b).bytes >= a.bytes
           /\ ~Beats(a, Merge(a, b))
           /\ IsScanned(a.rank) => IsScanned(Merge(a, b).rank)
  <1>1. /\ Merge(a, b).rank = Chosen(a, b).rank /\ Merge(a, b).bytes = Greater(a.bytes, b.bytes)
        /\ Merge(a, b).prov = Chosen(a, b).prov /\ Merge(a, b).code = Chosen(a, b).code
    BY MergeByChoice
  <1> QED  BY <1>1, RecordFields DEF Chosen, Beats, Greater, IsScanned

-----------------------------------------------------------------------------
(* The row that a set of records comes to                                  *)

\* A finite set of numbers has a greatest one.
LEMMA LargestOf ==
    ASSUME NEW S, S \subseteq Nat, S # {}, IsFiniteSet(S)
    PROVE  Largest(S) \in S /\ \A m \in S : m <= Largest(S)
  <1> DEFINE Topped(t) == \E n \in t : \A m \in t : m <= n
             Bad == {c \in Nat : \E t \in SUBSET S : Cardinality(t) = c /\ t # {} /\ ~Topped(t)}
  <1>1. Topped(S)
    <2> SUFFICES ASSUME ~Topped(S) PROVE FALSE
      OBVIOUS
    <2>1. Cardinality(S) \in Bad
      BY FS_CardinalityType
    <2>2. PICK c \in Bad : \A d \in Bad : c <= d
      <3>1. Bad \subseteq Nat
        OBVIOUS
      <3> HIDE DEF Bad
      <3> QED  BY <2>1, <3>1, LeastNumber
    <2>3. PICK t \in SUBSET S : Cardinality(t) = c /\ t # {} /\ ~Topped(t)
      BY <2>2
    <2>4. PICK x \in t : TRUE
      BY <2>3
    <2>5. Cardinality(t \ {x}) = c - 1 /\ c - 1 \in Nat /\ c \in Nat
      <3>1. IsFiniteSet(t)
        BY FS_Subset
      <3>2. Cardinality(t \ {x}) = c - 1 /\ IsFiniteSet(t \ {x})
        BY <2>3, <2>4, <3>1, FS_RemoveElement
      <3>3. Cardinality(t \ {x}) \in Nat
        BY <3>2, FS_CardinalityType
      <3> QED  BY <2>2, <3>2, <3>3
    <2>6. c - 1 \notin Bad
      BY <2>2, <2>5
    <2>7. t \ {x} = {} \/ Topped(t \ {x})
      BY <2>5, <2>6
    <2>8. CASE t \ {x} = {}
      BY <2>3, <2>4, <2>8
    <2>9. CASE Topped(t \ {x})
      <3>1. PICK n \in t \ {x} : \A m \in t \ {x} : m <= n
        BY <2>9
      <3>2. x \in Nat /\ n \in Nat /\ t \subseteq Nat
        BY <2>4, <3>1
      <3>3. \A m \in t : m <= IF x <= n THEN n ELSE x
        BY <3>1, <3>2
      <3> QED  BY <2>3, <2>4, <3>1, <3>3
    <2> QED  BY <2>7, <2>8, <2>9
  <1> QED  BY <1>1 DEF Largest

\* What makes a record the join of a set.
IsJoin(r, S) ==
    /\ \A x \in S : x.rank <= r.rank
    /\ \E x \in S : x.bytes = r.bytes
    /\ \A x \in S : x.bytes <= r.bytes
    /\ \E x \in S : (IsScanned(r.rank) => x.rank = r.rank) /\ x.findings = r.findings
    /\ \A x \in S : (IsScanned(r.rank) => x.rank = r.rank) => x.findings <= r.findings
    /\ \E x \in S : x.rank = r.rank /\ x.prov = r.prov /\ x.code = r.code
    /\ \A x \in S : x.rank = r.rank => x.prov < r.prov \/ (x.prov = r.prov /\ x.code <= r.code)

\* The records a join is taken of.
Joinable(S) == S \subseteq ValidRecord /\ IsFiniteSet(S) /\ S # {}

\* The values of a function on a finite set are finitely many.
LEMMA FiniteImage ==
    ASSUME NEW S, IsFiniteSet(S), NEW f
    PROVE  IsFiniteSet({f[x] : x \in S})
  <1> DEFINE V == {f[x] : x \in S}
             g == [x \in S |-> f[x]]
  <1>1. g \in [S -> V] /\ \A v \in V : \E x \in S : g[x] = v
    OBVIOUS
  <1> HIDE DEF g, V
  <1>2. g \in Surjection(S, V)
    BY <1>1 DEF Surjection
  <1>3. IsFiniteSet(V)
    BY <1>2, FS_Surjection
  <1> QED  BY <1>3 DEF V

\* A field of finitely many records has a greatest value.
LEMMA GreatestOf ==
    ASSUME NEW S, IsFiniteSet(S), S # {}, NEW f, \A x \in S : f[x] \in Nat,
           NEW V, V = {f[x] : x \in S}
    PROVE  Largest(V) \in V /\ \A x \in S : f[x] <= Largest(V)
  <1>1. V \subseteq Nat /\ V # {} /\ \A x \in S : f[x] \in V
    OBVIOUS
  <1>2. IsFiniteSet(V)
    BY FiniteImage
  <1>3. Largest(V) \in V /\ \A m \in V : m <= Largest(V)
    BY <1>1, <1>2, LargestOf
  <1> QED  BY <1>1, <1>3

\* The reference definition is such a record, and a valid one.
LEMMA JoinIs ==
    ASSUME NEW S, Joinable(S)
    PROVE  IsJoin(Join(S), S) /\ Join(S) \in ValidRecord
  <1> DEFINE rank == Largest({r.rank : r \in S})
             peers == {r \in S : r.rank = rank}
             prov == Largest({r.prov : r \in peers})
             last == {p \in peers : p.prov = prov}
             counted == IF IsScanned(rank) THEN peers ELSE S
             bytes == Largest({r.bytes : r \in S})
             most == Largest({r.findings : r \in counted})
             code == Largest({r.code : r \in last})
  <1>1. /\ IsFiniteSet(S) /\ S # {}
        /\ \A x \in S : x.rank \in Nat /\ x.bytes \in Nat /\ x.findings \in Nat /\ x.prov \in Nat /\ x.code \in Nat
    BY RecordFields DEF Joinable
  <1>2. rank \in {r.rank : r \in S} /\ \A x \in S : x.rank <= rank
    <2> DEFINE V == {r.rank : r \in S}
               f == [r \in S |-> r.rank]
    <2>1. V = {f[x] : x \in S} /\ \A x \in S : f[x] \in Nat /\ f[x] = x.rank
      BY <1>1
    <2> HIDE DEF V, f
    <2>2. Largest(V) \in V /\ \A x \in S : f[x] <= Largest(V)
      BY <1>1, <2>1, GreatestOf
    <2> QED  BY <2>1, <2>2 DEF V
  <1>3. bytes \in {r.bytes : r \in S} /\ \A x \in S : x.bytes <= bytes
    <2> DEFINE V == {r.bytes : r \in S}
               f == [r \in S |-> r.bytes]
    <2>1. V = {f[x] : x \in S} /\ \A x \in S : f[x] \in Nat /\ f[x] = x.bytes
      BY <1>1
    <2> HIDE DEF V, f
    <2>2. Largest(V) \in V /\ \A x \in S : f[x] <= Largest(V)
      BY <1>1, <2>1, GreatestOf
    <2> QED  BY <2>1, <2>2 DEF V
  <1> HIDE DEF rank, bytes
  <1>4. peers # {} /\ IsFiniteSet(peers) /\ peers \subseteq S
    BY <1>1, <1>2, FS_Subset
  <1>5. prov \in {r.prov : r \in peers} /\ \A x \in peers : x.prov <= prov
    <2> DEFINE V == {r.prov : r \in peers}
               f == [r \in peers |-> r.prov]
    <2> HIDE DEF peers
    <2>1. V = {f[x] : x \in peers} /\ \A x \in peers : f[x] \in Nat /\ f[x] = x.prov
      BY <1>1, <1>4
    <2> HIDE DEF V, f
    <2>2. Largest(V) \in V /\ \A x \in peers : f[x] <= Largest(V)
      BY <1>1, <1>4, <2>1, GreatestOf
    <2> QED  BY <2>1, <2>2 DEF V
  <1>6. counted # {} /\ IsFiniteSet(counted) /\ counted \subseteq S
    BY <1>1, <1>4
  <1>7. most \in {r.findings : r \in counted} /\ \A x \in counted : x.findings <= most
    <2> DEFINE V == {r.findings : r \in counted}
               f == [r \in counted |-> r.findings]
    <2> HIDE DEF counted
    <2>1. V = {f[x] : x \in counted} /\ \A x \in counted : f[x] \in Nat /\ f[x] = x.findings
      BY <1>1, <1>6
    <2> HIDE DEF V, f
    <2>2. Largest(V) \in V /\ \A x \in counted : f[x] <= Largest(V)
      BY <1>1, <1>6, <2>1, GreatestOf
    <2> QED  BY <2>1, <2>2 DEF V
  <1> HIDE DEF prov, most
  <1>8. last # {} /\ IsFiniteSet(last) /\ last \subseteq S
    <2> HIDE DEF peers
    <2> QED  BY <1>4, <1>5, FS_Subset
  <1>9. code \in {r.code : r \in last} /\ \A x \in last : x.code <= code
    <2> DEFINE V == {r.code : r \in last}
               f == [r \in last |-> r.code]
    <2> HIDE DEF last
    <2>1. V = {f[x] : x \in last} /\ \A x \in last : f[x] \in Nat /\ f[x] = x.code
      BY <1>1, <1>8
    <2> HIDE DEF V, f
    <2>2. Largest(V) \in V /\ \A x \in last : f[x] <= Largest(V)
      BY <1>1, <1>8, <2>1, GreatestOf
    <2> QED  BY <2>1, <2>2 DEF V
  <1> HIDE DEF code
  <1>10. Join(S) = [rank |-> rank, bytes |-> bytes, findings |-> most, prov |-> prov, code |-> code]
    BY DEF Join, rank, bytes, most, prov, code
  <1>11. IsJoin(Join(S), S)
    <2>1. \E x \in S : x.rank = rank /\ x.prov = prov /\ x.code = code
      BY <1>9
    <2>2. \A x \in S : x.rank = rank => x.prov < prov \/ (x.prov = prov /\ x.code <= code)
      <3>1. prov \in Nat
        BY <1>1, <1>4, <1>5
      <3> QED  BY <1>1, <1>5, <1>9, <3>1
    <2>3. /\ \E x \in S : (IsScanned(rank) => x.rank = rank) /\ x.findings = most
          /\ \A x \in S : (IsScanned(rank) => x.rank = rank) => x.findings <= most
      BY <1>7
    <2>4. (\E x \in S : x.bytes = bytes) /\ (\A x \in S : x.bytes <= bytes) /\ (\A x \in S : x.rank <= rank)
      BY <1>2, <1>3
    <2> HIDE DEF peers, counted, last
    <2> QED  BY <1>10, <2>1, <2>2, <2>3, <2>4 DEF IsJoin
  <1>12. Join(S) \in ValidRecord
    <2>1. PICK x \in S : x.rank = rank /\ x.prov = prov /\ x.code = code
      BY <1>9
    <2>2. PICK y \in S : (IsScanned(rank) => y.rank = rank) /\ y.findings = most
      BY <1>7
    <2>3. x \in ValidRecord /\ y \in ValidRecord /\ bytes \in Nat
      BY <1>1, <1>3 DEF Joinable
    <2>4. /\ rank \in Rank /\ prov \in Nat /\ code \in Nat /\ most \in Nat
          /\ rank = 10 => most = 0
          /\ rank = 11 => most > 0
          /\ IsScanned(rank) <=> code = 0
      BY <2>1, <2>2, <2>3, RecordFields DEF Rank, IsScanned
    <2> HIDE DEF peers, counted, last
    <2> QED  BY <1>10, <2>3, <2>4 DEF ValidRecord, LedgerRecord, Valid
  <1> QED  BY <1>11, <1>12

\* There is one such record.
LEMMA JoinUnique ==
    ASSUME NEW S, S \subseteq ValidRecord, NEW a \in ValidRecord, NEW b \in ValidRecord, IsJoin(a, S), IsJoin(b, S)
    PROVE  a = b
  <1>1. \A x \in S : x.rank \in Nat /\ x.bytes \in Nat /\ x.findings \in Nat /\ x.prov \in Nat /\ x.code \in Nat
    BY RecordFields
  <1>2. /\ a = [rank |-> a.rank, bytes |-> a.bytes, findings |-> a.findings, prov |-> a.prov, code |-> a.code]
        /\ b = [rank |-> b.rank, bytes |-> b.bytes, findings |-> b.findings, prov |-> b.prov, code |-> b.code]
    BY RecordFields
  <1>3. PICK x \in S, y \in S : /\ x.rank = a.rank /\ x.prov = a.prov /\ x.code = a.code
                                /\ y.rank = b.rank /\ y.prov = b.prov /\ y.code = b.code
    BY DEF IsJoin
  <1>4. a.rank = b.rank
    <2>1. x.rank <= b.rank /\ y.rank <= a.rank
      BY DEF IsJoin
    <2> QED  BY <1>1, <1>3, <2>1
  <1>5. a.prov = b.prov /\ a.code = b.code
    <2>1. /\ x.prov < b.prov \/ (x.prov = b.prov /\ x.code <= b.code)
          /\ y.prov < a.prov \/ (y.prov = a.prov /\ y.code <= a.code)
      BY <1>3, <1>4 DEF IsJoin
    <2> QED  BY <1>1, <1>3, <2>1
  <1>6. a.bytes = b.bytes
    <2>1. PICK u \in S, v \in S : u.bytes = a.bytes /\ v.bytes = b.bytes /\ u.bytes <= b.bytes /\ v.bytes <= a.bytes
      BY DEF IsJoin
    <2> QED  BY <1>1, <2>1
  <1>7. a.findings = b.findings
    <2>1. PICK u \in S, v \in S : /\ (IsScanned(a.rank) => u.rank = a.rank) /\ u.findings = a.findings
                                  /\ (IsScanned(b.rank) => v.rank = b.rank) /\ v.findings = b.findings
      BY DEF IsJoin
    <2>2. u.findings <= b.findings /\ v.findings <= a.findings
      BY <1>4, <2>1 DEF IsJoin
    <2> QED  BY <1>1, <2>1, <2>2
  <1> QED  BY <1>2, <1>4, <1>5, <1>6, <1>7

\* Merging two joins is the join of both sets.
LEMMA JoinsMerge ==
    ASSUME NEW S, NEW T, S \subseteq ValidRecord, T \subseteq ValidRecord,
           NEW a \in ValidRecord, NEW b \in ValidRecord, IsJoin(a, S), IsJoin(b, T)
    PROVE  IsJoin(Merge(a, b), S \cup T)
  <1> DEFINE c == Chosen(a, b)
             f == MergeFindings(c.rank, a, b)
             m == Merge(a, b)
  <1>1. /\ m.rank = c.rank /\ m.bytes = Greater(a.bytes, b.bytes) /\ m.findings = f
        /\ m.prov = c.prov /\ m.code = c.code
    BY MergeByChoice
  <1>2. \A x \in S \cup T : /\ x.rank \in {1, 2, 3, 10, 11} /\ x.rank \in Nat
                            /\ x.bytes \in Nat /\ x.findings \in Nat /\ x.prov \in Nat /\ x.code \in Nat
                            /\ x.rank = 10 => x.findings = 0
                            /\ x.rank = 11 => x.findings > 0
    BY RecordFields
  <1>3. /\ a.rank \in {1, 2, 3, 10, 11} /\ a.rank \in Nat /\ a.bytes \in Nat /\ a.findings \in Nat /\ a.prov \in Nat /\ a.code \in Nat
        /\ b.rank \in {1, 2, 3, 10, 11} /\ b.rank \in Nat /\ b.bytes \in Nat /\ b.findings \in Nat /\ b.prov \in Nat /\ b.code \in Nat
        /\ a.rank = 11 => a.findings > 0
        /\ b.rank = 11 => b.findings > 0
    BY RecordFields
  <1>4. /\ c = a \/ c = b
        /\ a.rank <= c.rank /\ b.rank <= c.rank
        /\ a.rank = c.rank => a.prov < c.prov \/ (a.prov = c.prov /\ a.code <= c.code)
        /\ b.rank = c.rank => b.prov < c.prov \/ (b.prov = c.prov /\ b.code <= c.code)
    BY <1>3 DEF Chosen, Beats
  <1> HIDE DEF c, m
  <1>5. \A x \in S \cup T : x.rank <= c.rank
    BY <1>2, <1>3, <1>4 DEF IsJoin
  <1>6. /\ \E x \in S \cup T : x.bytes = Greater(a.bytes, b.bytes)
        /\ \A x \in S \cup T : x.bytes <= Greater(a.bytes, b.bytes)
    <2>1. PICK u \in S, v \in T : u.bytes = a.bytes /\ v.bytes = b.bytes
      BY DEF IsJoin
    <2>2. (\A x \in S : x.bytes <= a.bytes) /\ (\A x \in T : x.bytes <= b.bytes)
      BY DEF IsJoin
    <2> QED  BY <1>2, <1>3, <2>1, <2>2 DEF Greater
  <1>7. \E x \in S \cup T : x.rank = c.rank /\ x.prov = c.prov /\ x.code = c.code
    BY <1>4 DEF IsJoin
  <1>8. \A x \in S \cup T : x.rank = c.rank => x.prov < c.prov \/ (x.prov = c.prov /\ x.code <= c.code)
    <2>1. ASSUME NEW x \in S, x.rank = c.rank PROVE x.prov < c.prov \/ (x.prov = c.prov /\ x.code <= c.code)
      <3>1. x.rank <= a.rank
        BY DEF IsJoin
      <3>2. a.rank = c.rank
        BY <1>2, <1>3, <1>4, <2>1, <3>1
      <3>3. x.prov < a.prov \/ (x.prov = a.prov /\ x.code <= a.code)
        BY <2>1, <3>2 DEF IsJoin
      <3> QED  BY <1>2, <1>3, <1>4, <3>2, <3>3
    <2>2. ASSUME NEW x \in T, x.rank = c.rank PROVE x.prov < c.prov \/ (x.prov = c.prov /\ x.code <= c.code)
      <3>1. x.rank <= b.rank
        BY DEF IsJoin
      <3>2. b.rank = c.rank
        BY <1>2, <1>3, <1>4, <2>2, <3>1
      <3>3. x.prov < b.prov \/ (x.prov = b.prov /\ x.code <= b.code)
        BY <2>2, <3>2 DEF IsJoin
      <3> QED  BY <1>2, <1>3, <1>4, <3>2, <3>3
    <2> QED  BY <2>1, <2>2
  <1>9. /\ \E x \in S \cup T : (IsScanned(c.rank) => x.rank = c.rank) /\ x.findings = f
        /\ \A x \in S \cup T : (IsScanned(c.rank) => x.rank = c.rank) => x.findings <= f
    <2>1. CASE c.rank = 10
      <3>1. f = 0
        BY <2>1 DEF MergeFindings
      <3>2. \A x \in S \cup T : x.rank = 10 => x.findings = 0
        BY <1>2
      <3> QED  BY <1>7, <2>1, <3>1, <3>2 DEF IsScanned
    <2>2. CASE c.rank = 11
      <3>1. f = Greater(Greater(SwfFindings(a), SwfFindings(b)), 1)
        BY <2>2 DEF MergeFindings
      <3>2. /\ a.rank = 11 => /\ \E x \in S : x.rank = 11 /\ x.findings = a.findings
                              /\ \A x \in S : x.rank = 11 => x.findings <= a.findings
            /\ b.rank = 11 => /\ \E x \in T : x.rank = 11 /\ x.findings = b.findings
                              /\ \A x \in T : x.rank = 11 => x.findings <= b.findings
        BY DEF IsJoin, IsScanned
      <3>3. (a.rank # 11 => \A x \in S : x.rank # 11) /\ (b.rank # 11 => \A x \in T : x.rank # 11)
        <4>1. (\A x \in S : x.rank <= a.rank) /\ (\A x \in T : x.rank <= b.rank)
          BY DEF IsJoin
        <4> QED  BY <1>2, <1>3, <4>1
      <3>4. a.rank = 11 \/ b.rank = 11
        BY <1>4, <2>2
      <3>5. CASE a.rank = 11 /\ b.rank = 11
        <4>1. f = Greater(a.findings, b.findings)
          BY <1>3, <3>1, <3>5 DEF SwfFindings, Greater
        <4>2. f = a.findings \/ f = b.findings
          BY <4>1 DEF Greater
        <4>3. \A x \in S \cup T : x.rank = 11 => x.findings <= f
          BY <1>2, <1>3, <3>2, <3>5, <4>1 DEF Greater
        <4> QED  BY <2>2, <3>2, <3>5, <4>2, <4>3 DEF IsScanned
      <3>6. CASE a.rank = 11 /\ b.rank # 11
        <4>1. f = a.findings
          BY <1>3, <3>1, <3>6 DEF SwfFindings, Greater
        <4> QED  BY <2>2, <3>2, <3>3, <3>6, <4>1 DEF IsScanned
      <3>7. CASE a.rank # 11 /\ b.rank = 11
        <4>1. f = b.findings
          BY <1>3, <3>1, <3>7 DEF SwfFindings, Greater
        <4> QED  BY <2>2, <3>2, <3>3, <3>7, <4>1 DEF IsScanned
      <3> QED  BY <3>4, <3>5, <3>6, <3>7
    <2>3. CASE c.rank \notin {10, 11}
      <3>1. ~IsScanned(a.rank) /\ ~IsScanned(b.rank) /\ ~IsScanned(c.rank)
        BY <1>3, <1>4, <2>3 DEF IsScanned
      <3>2. f = Greater(a.findings, b.findings)
        BY <2>3 DEF MergeFindings
      <3>3. /\ \E x \in S : x.findings = a.findings
            /\ \A x \in S : x.findings <= a.findings
            /\ \E x \in T : x.findings = b.findings
            /\ \A x \in T : x.findings <= b.findings
        BY <3>1 DEF IsJoin
      <3>4. f = a.findings \/ f = b.findings
        BY <3>2 DEF Greater
      <3>5. \A x \in S \cup T : x.findings <= f
        BY <1>2, <1>3, <3>2, <3>3 DEF Greater
      <3> HIDE DEF f
      <3> QED  BY <3>1, <3>3, <3>4, <3>5
    <2> QED  BY <2>1, <2>2, <2>3
  <1> HIDE DEF f
  <1>10. IsJoin(m, S \cup T)
    BY <1>1, <1>5, <1>6, <1>7, <1>8, <1>9 DEF IsJoin
  <1> QED  BY <1>10 DEF m

\* The row of a set of records.
Row(S) == IF S = {} THEN {} ELSE {Join(S)}

\* A set of records that could have reached a row.
Recorded(S) == S \subseteq ValidRecord /\ IsFiniteSet(S)

\* The join of one record is that record.
LEMMA JoinOfOne == ASSUME NEW r \in ValidRecord PROVE Join({r}) = r
  <1>1. Joinable({r})
    BY FS_Singleton DEF Joinable
  <1>2. IsJoin(Join({r}), {r}) /\ Join({r}) \in ValidRecord
    BY <1>1, JoinIs
  <1>3. IsJoin(r, {r})
    BY RecordFields DEF IsJoin
  <1> QED  BY <1>2, <1>3, JoinUnique

\* Upserting the join of a batch's records gives the row of all of them.
LEMMA RowsMerge ==
    ASSUME NEW S, Recorded(S), NEW T, Recorded(T), T # {}
    PROVE  Recorded(S \cup T) /\ Upsert(Row(S), Join(T)) = Row(S \cup T)
  <1>1. Recorded(S \cup T) /\ S \cup T # {}
    BY FS_Union DEF Recorded
  <1>2. Joinable(T) /\ Joinable(S \cup T) /\ (S # {} => Joinable(S))
    BY <1>1 DEF Recorded, Joinable
  <1>3. CASE S = {}
    <2>1. S \cup T = T
      BY <1>3
    <2> QED  BY <1>1, <1>3, <2>1 DEF Row, Upsert
  <1>4. CASE S # {}
    <2>1. IsJoin(Join(S), S) /\ Join(S) \in ValidRecord /\ IsJoin(Join(T), T) /\ Join(T) \in ValidRecord
      BY <1>2, <1>4, JoinIs
    <2>2. IsJoin(Merge(Join(S), Join(T)), S \cup T) /\ Merge(Join(S), Join(T)) \in ValidRecord
      BY <2>1, JoinsMerge, MergeKeepsValid DEF Recorded
    <2>3. IsJoin(Join(S \cup T), S \cup T) /\ Join(S \cup T) \in ValidRecord
      BY <1>2, JoinIs
    <2>4. Merge(Join(S), Join(T)) = Join(S \cup T)
      BY <1>1, <2>2, <2>3, JoinUnique DEF Recorded
    <2>5. Row(S) = {Join(S)} /\ Row(S \cup T) = {Join(S \cup T)}
      BY <1>1, <1>4 DEF Row
    <2>6. Upsert({Join(S)}, Join(T)) = {Merge(Join(S), Join(T))}
      BY DEF Upsert
    <2> QED  BY <1>1, <2>4, <2>5, <2>6
  <1> QED  BY <1>3, <1>4

\* Upserting one record.
LEMMA RowAdds ==
    ASSUME NEW S, Recorded(S), NEW r \in ValidRecord
    PROVE  Recorded(S \cup {r}) /\ Upsert(Row(S), r) = Row(S \cup {r})
  <1>1. Recorded({r}) /\ {r} # {}
    BY FS_Singleton DEF Recorded
  <1> QED  BY <1>1, JoinOfOne, RowsMerge

\* A batch that apply accepts.
GoodBatch(batch) == batch \in Batches /\ Accepts(batch)

\* Its rows are valid offers, finitely many.
LEMMA BatchFacts ==
    ASSUME NEW batch, batch \in Batches
    PROVE  /\ Len(batch) \in Nat /\ DOMAIN batch = 1..Len(batch) /\ \A i \in 1..Len(batch) : batch[i] \in Offers
           /\ Range(batch) = {batch[i] : i \in 1..Len(batch)} /\ IsFiniteSet(Range(batch)) /\ Range(batch) \subseteq Offers
           /\ Accepts(batch) => \A i \in 1..Len(batch) : batch[i].rec \in ValidRecord
  <1>1. PICK n \in 1..MaxBatch : batch \in [1..n -> Offers]
    BY DEF Batches
  <1>2. n \in Nat
    BY OffersAssumption
  <1>3. batch \in Seq(Offers) /\ Len(batch) = n /\ DOMAIN batch = 1..n
    BY <1>1, <1>2
  <1>4. Range(batch) = {batch[i] : i \in 1..n}
    BY <1>3 DEF Range
  <1>5. IsFiniteSet(Range(batch))
    <2> DEFINE I == 1..n
    <2>1. IsFiniteSet(I)
      BY <1>2, FS_Interval
    <2>2. Range(batch) = {batch[i] : i \in I}
      BY <1>4
    <2> HIDE DEF I
    <2> QED  BY <2>1, <2>2, FiniteImage
  <1>6. \A i \in 1..n : batch[i] \in Offers
    BY <1>1
  <1>7. ASSUME Accepts(batch), NEW i \in 1..n PROVE batch[i].rec \in ValidRecord
    <2>1. Valid(batch[i].rec)
      BY <1>3, <1>7 DEF Accepts
    <2>2. batch[i].rec \in LedgerRecord
      BY <1>6, OffersAssumption
    <2> QED  BY <2>1, <2>2 DEF ValidRecord
  <1> QED  BY <1>2, <1>3, <1>4, <1>5, <1>6, <1>7

\* What the recursive function behind ByKey satisfies.
FoldsUp(g, batch, k) ==
    g = [n \in 0..Len(batch) |-> IF n = 0 THEN {}
                                 ELSE IF batch[n].key = k THEN Upsert(g[n - 1], batch[n].rec) ELSE g[n - 1]]

\* The records of the first n rows of a batch.
FirstRecords(batch, k, n) == {batch[i].rec : i \in {j \in 1..n : batch[j].key = k}}

\* Deduplicating a batch gives the row of its records, whatever their order.
LEMMA ByKeyIsRow ==
    ASSUME NEW batch, GoodBatch(batch), NEW k
    PROVE  Recorded(RecordsOf(Range(batch), k)) /\ ByKey(batch, k) = Row(RecordsOf(Range(batch), k))
  <1> DEFINE L == Len(batch)
             P(n) == FirstRecords(batch, k, n)
             h == [n \in 0..L |-> Row(P(n))]
             g == CHOOSE g : FoldsUp(g, batch, k)
  <1>1. /\ L \in Nat /\ \A i \in 1..L : batch[i].rec \in ValidRecord
        /\ Range(batch) = {batch[i] : i \in 1..L}
    BY BatchFacts DEF GoodBatch
  <1>2. P(0) = {}
    BY DEF FirstRecords
  <1>3. ASSUME NEW n \in 1..L
        PROVE  P(n) = IF batch[n].key = k THEN P(n - 1) \cup {batch[n].rec} ELSE P(n - 1)
    <2>1. n \in Nat /\ 1..n = (1..(n - 1)) \cup {n}
      BY <1>1, <1>3
    <2> QED  BY <2>1 DEF FirstRecords
  <1>4. ASSUME NEW n \in 0..L PROVE Recorded(P(n))
    <2> DEFINE J == {j \in 1..n : batch[j].key = k}
               r == [i \in 1..L |-> batch[i].rec]
    <2>1. IsFiniteSet(J) /\ J \subseteq 1..L
      <3>1. IsFiniteSet(1..n) /\ 1..n \subseteq 1..L
        BY <1>1, <1>4, FS_Interval
      <3> QED  BY <3>1, FS_Subset
    <2>2. P(n) = {r[i] : i \in J}
      BY <2>1 DEF FirstRecords
    <2>3. IsFiniteSet({r[i] : i \in J})
      <3> HIDE DEF J, r
      <3> QED  BY <2>1, FiniteImage
    <2>4. P(n) \subseteq ValidRecord
      BY <1>1, <2>1 DEF FirstRecords
    <2> QED  BY <2>2, <2>3, <2>4 DEF Recorded
  <1>5. ASSUME NEW n \in 0..L
        PROVE  h[n] = IF n = 0 THEN {} ELSE IF batch[n].key = k THEN Upsert(h[n - 1], batch[n].rec) ELSE h[n - 1]
    <2>1. CASE n = 0
      BY <1>1, <1>2, <2>1 DEF Row
    <2>2. CASE n # 0
      <3>1. n \in 1..L /\ n - 1 \in 0..L
        BY <1>1, <2>2
      <3>2. h[n] = Row(P(n)) /\ h[n - 1] = Row(P(n - 1))
        BY <3>1
      <3>3. CASE batch[n].key = k
        <4>1. P(n) = P(n - 1) \cup {batch[n].rec}
          BY <1>3, <3>1, <3>3
        <4>2. Recorded(P(n - 1)) /\ batch[n].rec \in ValidRecord
          BY <1>1, <1>4, <3>1
        <4>3. Upsert(Row(P(n - 1)), batch[n].rec) = Row(P(n - 1) \cup {batch[n].rec})
          BY <4>2, RowAdds
        <4> HIDE DEF h, P
        <4> QED  BY <2>2, <3>2, <3>3, <4>1, <4>3
      <3>4. CASE batch[n].key # k
        <4>1. P(n) = P(n - 1)
          BY <1>3, <3>1, <3>4
        <4> HIDE DEF h, P
        <4> QED  BY <2>2, <3>2, <3>4, <4>1
      <3> QED  BY <3>3, <3>4
    <2> QED  BY <2>1, <2>2
  <1>6. FoldsUp(h, batch, k)
    <2>1. h = [n \in 0..L |-> h[n]]
      OBVIOUS
    <2> HIDE DEF h
    <2> QED  BY <1>5, <2>1 DEF FoldsUp
  <1>7. FoldsUp(g, batch, k)
    <2> HIDE DEF h
    <2> QED  BY <1>6
  <1>8. h[L] = Row(P(L))
    BY <1>1
  <1> HIDE DEF g, h
  <1>9. ASSUME NEW n \in 0..L
        PROVE  g[n] = IF n = 0 THEN {} ELSE IF batch[n].key = k THEN Upsert(g[n - 1], batch[n].rec) ELSE g[n - 1]
    BY <1>7 DEF FoldsUp
  <1>10. \A n \in 0..L : g[n] = h[n]
    <2> DEFINE Bad == {n \in 0..L : g[n] # h[n]}
    <2> SUFFICES ASSUME Bad # {} PROVE FALSE
      OBVIOUS
    <2>1. PICK n \in Bad : \A m \in Bad : n <= m
      <3>1. Bad \subseteq Nat
        BY <1>1
      <3> HIDE DEF Bad
      <3> QED  BY <3>1, LeastNumber
    <2>2. n \in 0..L /\ g[n] # h[n]
      BY <2>1
    <2>3. n # 0
      BY <1>5, <1>9, <2>2
    <2>4. n - 1 \in 0..L /\ ~(n <= n - 1)
      BY <1>1, <2>2, <2>3
    <2>5. g[n - 1] = h[n - 1]
      BY <2>1, <2>4
    <2> QED  BY <1>5, <1>9, <2>2, <2>3, <2>5
  <1>11. ByKey(batch, k) = g[L]
    BY DEF ByKey, g, FoldsUp
  <1>12. P(L) = RecordsOf(Range(batch), k)
    BY <1>1 DEF FirstRecords, RecordsOf
  <1>13. g[L] = h[L]
    BY <1>1, <1>10
  <1>14. Recorded(P(L))
    BY <1>1, <1>4
  <1> HIDE DEF P
  <1> QED  BY <1>8, <1>11, <1>12, <1>13, <1>14

-----------------------------------------------------------------------------
(* The done ledger                                                         *)

OpRecord == [batch : Batches, state : {"pending", "committed", "failed", "taken"}]

\* What reached the ledger is finite and valid.
ReachedOK ==
    /\ reached \subseteq Offers /\ IsFiniteSet(reached)
    /\ \A o \in reached : o.rec \in ValidRecord

LedgerInv ==
    /\ ReachedOK
    /\ rows = [k \in Keys |-> Row(RecordsOf(reached, k))]
    /\ acked \subseteq reached
    /\ ops \in Seq(OpRecord)
    /\ \A i \in DOMAIN ops : ops[i].state = "committed" => Range(ops[i].batch) \subseteq reached

\* The records of a key among what reached the ledger.
LEMMA ReachedRecords ==
    ASSUME ReachedOK, NEW k
    PROVE  Recorded(RecordsOf(reached, k))
  <1> DEFINE X == {x \in reached : x.key = k}
             f == [x \in X |-> x.rec]
  <1>1. IsFiniteSet(X)
    BY FS_Subset DEF ReachedOK
  <1>2. RecordsOf(reached, k) = {f[x] : x \in X}
    BY DEF RecordsOf
  <1>3. IsFiniteSet({f[x] : x \in X})
    <2> HIDE DEF X, f
    <2> QED  BY <1>1, FiniteImage
  <1>4. RecordsOf(reached, k) \subseteq ValidRecord
    BY DEF RecordsOf, ReachedOK
  <1> QED  BY <1>2, <1>3, <1>4 DEF Recorded

\* A batch is applied, or fails and leaves the rows alone.
LEMMA ApplyKeeps ==
    ASSUME LedgerInv, NEW batch \in Batches, NEW ok \in BOOLEAN, Apply(batch, ok)
    PROVE  /\ ReachedOK' /\ rows' = [k \in Keys |-> Row(RecordsOf(reached', k))]
           /\ reached \subseteq reached' /\ (ok => Range(batch) \subseteq reached')
  <1>1. CASE ~ok
    BY <1>1 DEF Apply, LedgerInv, ReachedOK
  <1>2. CASE ok
    <2>1. GoodBatch(batch) /\ rows' = Applied(batch) /\ reached' = reached \cup Range(batch)
      BY <1>2 DEF Apply, GoodBatch
    <2>2. ReachedOK'
      <3>1. IsFiniteSet(reached \cup Range(batch))
        BY BatchFacts, FS_Union DEF LedgerInv, ReachedOK
      <3>2. Range(batch) \subseteq Offers /\ \A o \in Range(batch) : o.rec \in ValidRecord
        BY <2>1, BatchFacts DEF GoodBatch
      <3> QED  BY <2>1, <3>1, <3>2 DEF LedgerInv, ReachedOK
    <2>3. ASSUME NEW k \in Keys PROVE Applied(batch)[k] = Row(RecordsOf(reached', k))
      <3> DEFINE S == RecordsOf(reached, k)
                 T == RecordsOf(Range(batch), k)
      <3>1. RecordsOf(reached', k) = S \cup T
        BY <2>1 DEF RecordsOf
      <3>2. Recorded(S) /\ rows[k] = Row(S)
        BY ReachedRecords DEF LedgerInv
      <3>3. Recorded(T) /\ ByKey(batch, k) = Row(T)
        BY <2>1, ByKeyIsRow
      <3>4. Applied(batch)[k] = IF ByKey(batch, k) = {} THEN rows[k] ELSE UNION {Upsert(rows[k], r) : r \in ByKey(batch, k)}
        BY DEF Applied
      <3> HIDE DEF S, T
      <3>5. CASE T = {}
        <4>1. ByKey(batch, k) = {} /\ S \cup T = S
          BY <3>3, <3>5 DEF Row
        <4> QED  BY <3>1, <3>2, <3>4, <4>1
      <3>6. CASE T # {}
        <4>1. ByKey(batch, k) = {Join(T)}
          BY <3>3, <3>6 DEF Row
        <4>2. Applied(batch)[k] = Upsert(Row(S), Join(T))
          BY <3>2, <3>4, <4>1
        <4> QED  BY <3>1, <3>2, <3>3, <3>6, <4>2, RowsMerge
      <3> QED  BY <3>5, <3>6
    <2>4. rows' = [k \in Keys |-> Row(RecordsOf(reached', k))]
      <3>1. Applied(batch) = [k \in Keys |-> Applied(batch)[k]]
        BY DEF Applied
      <3> QED  BY <2>1, <2>3, <3>1
    <2> QED  BY <2>1, <2>2, <2>4
  <1> QED  BY <1>1, <1>2

\* A submission.
LEMMA SubmitKeeps == ASSUME LedgerInv, NEW batch \in Batches, Submit(batch) PROVE LedgerInv'
  <1>1. ops \in Seq(OpRecord) /\ acked' = acked /\ acked \subseteq reached
    BY DEF LedgerInv, Submit
  <1>2. ASSUME NEW st \in {"pending", "committed", "failed", "taken"}, ops' = Append(ops, [batch |-> batch, state |-> st]),
               ReachedOK', rows' = [k \in Keys |-> Row(RecordsOf(reached', k))], reached \subseteq reached',
               st = "committed" => Range(batch) \subseteq reached'
        PROVE  LedgerInv'
    <2> DEFINE o == [batch |-> batch, state |-> st]
    <2>1. o \in OpRecord
      BY DEF OpRecord
    <2>2. o.state = st /\ o.batch = batch
      OBVIOUS
    <2> HIDE DEF o
    <2>3. /\ ops' = Append(ops, o) /\ ops' \in Seq(OpRecord) /\ Len(ops) \in Nat
          /\ DOMAIN ops = 1..Len(ops) /\ DOMAIN ops' = 1..(Len(ops) + 1)
          /\ ops'[Len(ops) + 1] = o /\ \A i \in 1..Len(ops) : ops'[i] = ops[i]
      BY <1>1, <1>2, <2>1 DEF o
    <2>4. ASSUME NEW i \in DOMAIN ops', ops'[i].state = "committed" PROVE Range(ops'[i].batch) \subseteq reached'
      <3>1. CASE i = Len(ops) + 1
        BY <1>2, <2>2, <2>3, <2>4, <3>1
      <3>2. CASE i # Len(ops) + 1
        <4>1. i \in DOMAIN ops /\ ops'[i] = ops[i]
          BY <2>3, <2>4, <3>2
        <4> QED  BY <1>2, <2>4, <4>1 DEF LedgerInv
      <3> QED  BY <3>1, <3>2
    <2> QED  BY <1>1, <1>2, <2>3, <2>4 DEF LedgerInv
  <1>3. ASSUME NEW ok \in BOOLEAN, Apply(batch, ok),
               ops' = Append(ops, [batch |-> batch, state |-> IF ok THEN "committed" ELSE "failed"])
        PROVE  LedgerInv'
    <2>1. /\ ReachedOK' /\ rows' = [k \in Keys |-> Row(RecordsOf(reached', k))]
          /\ reached \subseteq reached' /\ (ok => Range(batch) \subseteq reached')
      BY <1>3, ApplyKeeps
    <2>2. CASE ok
      <3>1. ops' = Append(ops, [batch |-> batch, state |-> "committed"])
        BY <1>3, <2>2
      <3> QED  BY <1>2, <2>1, <2>2, <3>1
    <2>3. CASE ~ok
      <3>1. ops' = Append(ops, [batch |-> batch, state |-> "failed"])
        BY <1>3, <2>3
      <3> QED  BY <1>2, <2>1, <3>1
    <2> QED  BY <2>2, <2>3
  <1>4. CASE ops' = Append(ops, [batch |-> batch, state |-> "pending"]) /\ UNCHANGED <<rows, reached>>
    <2>1. ReachedOK' /\ rows' = [k \in Keys |-> Row(RecordsOf(reached', k))] /\ reached \subseteq reached'
      BY <1>4 DEF LedgerInv, ReachedOK
    <2> QED  BY <1>2, <1>4, <2>1
  <1> QED  BY <1>3, <1>4 DEF Submit

\* A submitted batch changes its state.
LEMMA OpMoves ==
    ASSUME LedgerInv, NEW i \in DOMAIN ops, NEW st \in {"pending", "committed", "failed", "taken"},
           ops' = [ops EXCEPT ![i].state = st], st = "committed" => Range(ops[i].batch) \subseteq reached',
           ReachedOK', rows' = [k \in Keys |-> Row(RecordsOf(reached', k))], reached \subseteq reached', acked' \subseteq reached'
    PROVE  LedgerInv'
  <1>1. ops \in Seq(OpRecord) /\ Len(ops) \in Nat /\ DOMAIN ops = 1..Len(ops) /\ ops[i] \in OpRecord
    BY DEF LedgerInv
  <1> DEFINE o == [ops[i] EXCEPT !.state = st]
  <1>2. o \in OpRecord /\ o.state = st /\ o.batch = ops[i].batch
    BY <1>1 DEF OpRecord
  <1>3. ops' = [ops EXCEPT ![i] = o]
    OBVIOUS
  <1> HIDE DEF o
  <1>4. /\ ops' \in Seq(OpRecord) /\ DOMAIN ops' = DOMAIN ops
        /\ ops'[i] = o /\ \A j \in DOMAIN ops : j # i => ops'[j] = ops[j]
    BY <1>1, <1>2, <1>3
  <1>5. ASSUME NEW j \in DOMAIN ops', ops'[j].state = "committed" PROVE Range(ops'[j].batch) \subseteq reached'
    <2>1. CASE j = i
      BY <1>2, <1>4, <1>5, <2>1
    <2>2. CASE j # i
      BY <1>4, <1>5, <2>2 DEF LedgerInv
    <2> QED  BY <2>1, <2>2
  <1> QED  BY <1>4, <1>5 DEF LedgerInv

\* A pending batch is finished, in any order.
LEMMA FinishKeeps == ASSUME LedgerInv, NEW i \in DOMAIN ops, FinishOp(i) PROVE LedgerInv'
  <1>1. ops[i].batch \in Batches /\ acked' = acked /\ acked \subseteq reached
    <2>1. ops[i] \in OpRecord
      BY DEF LedgerInv
    <2> QED  BY <2>1 DEF LedgerInv, FinishOp, OpRecord
  <1>2. PICK ok \in BOOLEAN : /\ Apply(ops[i].batch, ok)
                              /\ ops' = [ops EXCEPT ![i].state = IF ok THEN "committed" ELSE "failed"]
    BY DEF FinishOp
  <1>3. /\ ReachedOK' /\ rows' = [k \in Keys |-> Row(RecordsOf(reached', k))]
        /\ reached \subseteq reached' /\ (ok => Range(ops[i].batch) \subseteq reached')
    BY <1>1, <1>2, ApplyKeeps
  <1>4. CASE ok
    <2>1. ops' = [ops EXCEPT ![i].state = "committed"]
      BY <1>2, <1>4
    <2> QED  BY <1>1, <1>3, <1>4, <2>1, OpMoves
  <1>5. CASE ~ok
    <2>1. ops' = [ops EXCEPT ![i].state = "failed"]
      BY <1>2, <1>5
    <2> QED  BY <1>1, <1>3, <2>1, OpMoves
  <1> QED  BY <1>4, <1>5

\* The result of a batch is taken.
LEMMA WaitKeeps == ASSUME LedgerInv, NEW i \in DOMAIN ops, Wait(i) PROVE LedgerInv'
  <1>1. /\ UNCHANGED <<rows, reached>> /\ ops' = [ops EXCEPT ![i].state = "taken"]
        /\ acked' = IF ops[i].state = "committed" THEN acked \cup Range(ops[i].batch) ELSE acked
    BY DEF Wait
  <1>2. acked' \subseteq reached'
    BY <1>1 DEF LedgerInv
  <1>3. ReachedOK' /\ rows' = [k \in Keys |-> Row(RecordsOf(reached', k))] /\ reached \subseteq reached'
    BY <1>1 DEF LedgerInv, ReachedOK
  <1> QED  BY <1>1, <1>2, <1>3, OpMoves

\* The invariant says what the property does.
LEMMA LedgerInvSafe == LedgerInv => LedgerSafe
  <1> SUFFICES ASSUME LedgerInv PROVE LedgerSafe
    OBVIOUS
  <1>1. ReachedOK /\ acked \subseteq reached /\ \A k \in Keys : rows[k] = Row(RecordsOf(reached, k))
    BY DEF LedgerInv
  <1>2. RowIsJoin
    BY <1>1 DEF RowIsJoin, Row
  <1>3. LedgerTypeOK
    <2> SUFFICES ASSUME NEW k \in Keys, NEW r \in rows[k] PROVE rows[k] = {r} /\ r \in LedgerRecord /\ Valid(r)
      BY DEF LedgerTypeOK
    <2> DEFINE S == RecordsOf(reached, k)
    <2>1. Recorded(S) /\ rows[k] = Row(S)
      BY <1>1, ReachedRecords
    <2> HIDE DEF S
    <2>2. S # {} /\ r = Join(S) /\ rows[k] = {r}
      BY <2>1 DEF Row
    <2>3. r \in ValidRecord
      BY <2>1, <2>2, JoinIs DEF Joinable, Recorded
    <2> QED  BY <2>2, <2>3 DEF ValidRecord
  <1>4. AcknowledgedStays
    <2> SUFFICES ASSUME NEW o \in acked PROVE rows[o.key] = Upsert(rows[o.key], o.rec) /\ rows[o.key] # {}
      BY DEF AcknowledgedStays
    <2> DEFINE S == RecordsOf(reached, o.key)
    <2>1. o \in reached /\ o.rec \in ValidRecord /\ o.key \in Keys
      BY <1>1, OffersAssumption DEF ReachedOK
    <2>2. o.rec \in S
      BY <2>1 DEF RecordsOf
    <2>3. Recorded(S) /\ rows[o.key] = Row(S)
      BY <1>1, <2>1, ReachedRecords
    <2> HIDE DEF S
    <2>4. Upsert(Row(S), o.rec) = Row(S \cup {o.rec}) /\ S \cup {o.rec} = S /\ Row(S) # {}
      BY <2>1, <2>2, <2>3, RowAdds DEF Row
    <2> QED  BY <2>3, <2>4
  <1> QED  BY <1>2, <1>3, <1>4 DEF LedgerSafe

(***************************************************************************)
(* A row is the join of all that was written for its key, however batches  *)
(* grouped and ordered it and however often each was delivered, and what   *)
(* wait() acknowledged is in its row for good (batch_upsert, apply,        *)
(* DoneLedgerRecord::merge).                                               *)
(***************************************************************************)
THEOREM LedgerStaysSafe == LedgerSpec => []LedgerSafe
  <1>1. LedgerInit => LedgerInv
    <2> SUFFICES ASSUME LedgerInit PROVE LedgerInv
      OBVIOUS
    <2>1. ReachedOK
      BY FS_EmptySet DEF LedgerInit, ReachedOK
    <2>2. \A k \in Keys : Row(RecordsOf(reached, k)) = {}
      BY DEF LedgerInit, RecordsOf, Row
    <2> QED  BY <2>1, <2>2 DEF LedgerInit, LedgerInv
  <1>2. LedgerInv /\ [LedgerNext]_ledgerVars => LedgerInv'
    <2> SUFFICES ASSUME LedgerInv, [LedgerNext]_ledgerVars PROVE LedgerInv'
      OBVIOUS
    <2>1. CASE LedgerNext
      BY <2>1, SubmitKeeps, FinishKeeps, WaitKeeps DEF LedgerNext
    <2>2. CASE UNCHANGED ledgerVars
      BY <2>2 DEF ledgerVars, LedgerInv, ReachedOK
    <2> QED  BY <2>1, <2>2
  <1> QED  BY <1>1, <1>2, LedgerInvSafe, PTL DEF LedgerSpec
=============================================================================

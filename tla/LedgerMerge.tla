---------------------------- MODULE LedgerMerge ----------------------------
(***************************************************************************)
(* The merge of two done-ledger records of one key.  The provenance of a   *)
(* record is its place in the order of (finished_at, started_at,           *)
(* fence_epoch, run_id, shard_id); an error code its place in byte order.  *)
(***************************************************************************)
EXTENDS Naturals

FailedRetryable == 1
FailedPermanent == 2
Skipped == 3
ScannedClean == 10
ScannedWithFindings == 11

Rank == {FailedRetryable, FailedPermanent, Skipped, ScannedClean, ScannedWithFindings}

NoCode == 0

LedgerRecord == [rank : Rank, bytes : Nat, findings : Nat, prov : Nat, code : Nat]

IsScanned(rank) == rank \in {ScannedClean, ScannedWithFindings}

\* DoneLedgerRecord::validate
Valid(r) ==
    /\ r.rank = ScannedClean => r.findings = 0
    /\ r.rank = ScannedWithFindings => r.findings > 0
    /\ IsScanned(r.rank) <=> r.code = NoCode

Greater(a, b) == IF a >= b THEN a ELSE b

MergeStatus(a, b) == IF a >= b THEN a ELSE b

SwfFindings(r) == IF r.rank = ScannedWithFindings THEN r.findings ELSE 0

\* Mutation: the count is the greater one, whatever its row's status.
MergeFindingsPlain(rank, a, b) == Greater(a.findings, b.findings)

MergeFindings(rank, a, b) ==
    CASE rank = ScannedClean -> 0
      [] rank = ScannedWithFindings -> Greater(Greater(SwfFindings(a), SwfFindings(b)), 1)
      [] OTHER -> Greater(a.findings, b.findings)

\* Mutation: provenance alone decides between rows of different status.
BeatsByTime(b, a) == b.prov > a.prov \/ (b.prov = a.prov /\ b.code > a.code)

\* provenance_winner_key of b above that of a.
Beats(b, a) ==
    \/ b.rank > a.rank
    \/ b.rank = a.rank /\ (b.prov > a.prov \/ (b.prov = a.prov /\ b.code > a.code))

Merge(existing, incoming) ==
    LET rank == MergeStatus(existing.rank, incoming.rank)
        chosen == IF Beats(incoming, existing) THEN incoming ELSE existing
        fallback == IF Beats(incoming, existing) THEN existing ELSE incoming
    IN  [rank |-> rank,
         bytes |-> Greater(existing.bytes, incoming.bytes),
         findings |-> MergeFindings(rank, existing, incoming),
         prov |-> chosen.prov,
         code |-> CASE IsScanned(rank) -> NoCode
                    [] ~IsScanned(rank) /\ chosen.code # NoCode -> chosen.code
                    [] OTHER -> fallback.code]
=============================================================================

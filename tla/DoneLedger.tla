----------------------------- MODULE DoneLedger -----------------------------
(***************************************************************************)
(* The done ledger as its writers meet it: batches are submitted, become   *)
(* durable later and in any order, are submitted again after a lost answer *)
(* or a restart, fail on submission or on commit; a row is the merge of    *)
(* what reached it.                                                        *)
(***************************************************************************)
EXTENDS LedgerMerge, Sequences, Functions

CONSTANTS
    Keys,      \* (tenant, policy, object version)
    Offers,    \* rows a writer may submit: key, record, whether its times are in order
    MaxBatch,  \* bound: rows of a batch
    MaxOps     \* bound: batches submitted

ASSUME OffersAssumption ==
    /\ Offers \subseteq [key : Keys, rec : LedgerRecord, timely : BOOLEAN]
    /\ MaxBatch \in Nat /\ MaxOps \in Nat

VARIABLES
    rows,     \* durable rows, at most one record per key
    ops,      \* submitted batches: pending, committed or failed, until waited for
    reached,  \* rows of the batches applied so far
    acked     \* rows of the batches whose wait() returned a receipt

ledgerVars == <<rows, ops, reached, acked>>

Batches == UNION {[1..n -> Offers] : n \in 1..MaxBatch}

LedgerInit ==
    /\ rows = [k \in Keys |-> {}]
    /\ ops = << >>
    /\ reached = {} /\ acked = {}

Upsert(row, rec) == IF row = {} THEN {rec} ELSE {Merge(r, rec) : r \in row}

\* The batch folded to one record per key, in its order.
ByKey(batch, k) ==
    LET upTo[n \in 0..Len(batch)] ==
            IF n = 0 THEN {}
            ELSE IF batch[n].key = k THEN Upsert(upTo[n - 1], batch[n].rec) ELSE upTo[n - 1]
    IN  upTo[Len(batch)]

Accepts(batch) == \A i \in DOMAIN batch : Valid(batch[i].rec) /\ batch[i].timely

\* Mutation: a batch replaces the rows it names.
AppliedLastWins(batch) == [k \in Keys |-> IF ByKey(batch, k) = {} THEN rows[k] ELSE ByKey(batch, k)]

Applied(batch) == [k \in Keys |-> IF ByKey(batch, k) = {} THEN rows[k]
                                  ELSE UNION {Upsert(rows[k], r) : r \in ByKey(batch, k)}]

\* A commit failure, injected or real, or an invalid row leaves every row alone.
Apply(batch, ok) ==
    /\ ok => Accepts(batch)
    /\ rows' = IF ok THEN Applied(batch) ELSE rows
    /\ reached' = IF ok THEN reached \cup Range(batch) ELSE reached

\* Applied at once, or queued.
Submit(batch) ==
    /\ Len(ops) < MaxOps
    /\ \/ \E ok \in BOOLEAN :
             /\ Apply(batch, ok)
             /\ ops' = Append(ops, [batch |-> batch, state |-> IF ok THEN "committed" ELSE "failed"])
       \/ /\ ops' = Append(ops, [batch |-> batch, state |-> "pending"])
          /\ UNCHANGED <<rows, reached>>
    /\ UNCHANGED acked

\* release_next, release_specific and release_all finish pending batches, oldest or newest first.
FinishOp(i) ==
    /\ ops[i].state = "pending"
    /\ \E ok \in BOOLEAN :
          /\ Apply(ops[i].batch, ok)
          /\ ops' = [ops EXCEPT ![i].state = IF ok THEN "committed" ELSE "failed"]
    /\ UNCHANGED acked

\* Mutation: a commit is acknowledged as soon as it is submitted.
WaitEager(i) ==
    /\ ops[i].state \in {"pending", "committed"}
    /\ acked' = acked \cup Range(ops[i].batch)
    /\ ops' = [ops EXCEPT ![i].state = "taken"]
    /\ UNCHANGED <<rows, reached>>

\* wait() blocks while the batch is pending and takes the result out.
Wait(i) ==
    /\ ops[i].state \in {"committed", "failed"}
    /\ acked' = IF ops[i].state = "committed" THEN acked \cup Range(ops[i].batch) ELSE acked
    /\ ops' = [ops EXCEPT ![i].state = "taken"]
    /\ UNCHANGED <<rows, reached>>

LedgerNext ==
    \/ \E batch \in Batches : Submit(batch)
    \/ \E i \in DOMAIN ops : FinishOp(i) \/ Wait(i)

LedgerSpec == LedgerInit /\ [][LedgerNext]_ledgerVars

----------------------------------------------------------------------------

(***************************************************************************)
(* The reference: the row that a set of records comes to.                  *)
(***************************************************************************)
Largest(S) == CHOOSE n \in S : \A m \in S : m <= n

Join(S) ==
    LET rank == Largest({r.rank : r \in S})
        peers == {r \in S : r.rank = rank}
        prov == Largest({r.prov : r \in peers})
    IN  [rank |-> rank,
         bytes |-> Largest({r.bytes : r \in S}),
         findings |-> Largest({r.findings : r \in IF IsScanned(rank) THEN peers ELSE S}),
         prov |-> prov,
         code |-> Largest({r.code : r \in {p \in peers : p.prov = prov}})]

RecordsOf(S, k) == {o.rec : o \in {x \in S : x.key = k}}

\* Types: at most one record for every key, and one that the next merge accepts.
LedgerTypeOK ==
    \A k \in Keys : \A r \in rows[k] : rows[k] = {r} /\ r \in LedgerRecord /\ Valid(r)

(***************************************************************************)
(* A row depends on the set of records that reached it and on nothing      *)
(* else: not on their order, on how batches grouped them, or on how often  *)
(* each was delivered.                                                     *)
(***************************************************************************)
RowIsJoin ==
    \A k \in Keys : LET S == RecordsOf(reached, k) IN rows[k] = IF S = {} THEN {} ELSE {Join(S)}

(***************************************************************************)
(* "Submission is not durability": once wait() has returned a receipt the  *)
(* row holds the record for good, so that delivering it again is a no-op.  *)
(***************************************************************************)
AcknowledgedStays == \A o \in acked : rows[o.key] = Upsert(rows[o.key], o.rec) /\ rows[o.key] # {}

\* A row is the join of all that was written for its key, in whatever order, and
\* what wait() acknowledged is in it for good (DoneLedgerRecord::merge, batch_upsert).
LedgerSafe == LedgerTypeOK /\ RowIsJoin /\ AcknowledgedStays
=============================================================================

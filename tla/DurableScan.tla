---------------------------- MODULE DurableScan ----------------------------
(***************************************************************************)
(* What the receipt-driven durability model promises about one shard,      *)
(* whoever scans it and whatever crashes: findings first, then the done    *)
(* ledger, and only then the cursor (page_commit.rs: AwaitingFindings,     *)
(* FindingsDurable, ItemDurable, CheckpointDurable).                       *)
(***************************************************************************)
EXTENDS Integers

CONSTANT N            \* the shard holds the items 1..N, in key order

VARIABLES
    findings,  \* items whose findings are durable
    ledger,    \* items with a terminal done-ledger row
    cursor,    \* the last item the shard's durable cursor covers
    done       \* the shard is Done

durableVars == <<findings, ledger, cursor, done>>

Items == 1..N

DurableInit ==
    /\ findings = {} /\ ledger = {}
    /\ cursor = 0 /\ done = FALSE

PersistFindings(i) ==
    /\ findings' = findings \cup {i}
    /\ UNCHANGED <<ledger, cursor, done>>

PersistDoneRow(i) ==
    /\ i \in findings
    /\ ledger' = ledger \cup {i}
    /\ UNCHANGED <<findings, cursor, done>>

\* A checkpoint moves the cursor forward over items that are all done.
PersistCursor(c) ==
    /\ ~done
    /\ c >= cursor
    /\ 1..c \subseteq ledger
    /\ cursor' = c
    /\ UNCHANGED <<findings, ledger, done>>

\* A shard is completed once nothing in it is left to scan.
PersistDone(c) ==
    /\ ~done
    /\ c >= cursor
    /\ Items \subseteq ledger
    /\ cursor' = c /\ done' = TRUE
    /\ UNCHANGED <<findings, ledger>>

DurableNext ==
    \/ \E i \in Items : PersistFindings(i) \/ PersistDoneRow(i)
    \/ \E c \in 0..N : PersistCursor(c) \/ PersistDone(c)

DurableSpec == DurableInit /\ [][DurableNext]_durableVars

-----------------------------------------------------------------------------
\* The type of the durable state of a shard (findings sink, done ledger, record).
DurableTypeOK ==
    /\ findings \subseteq Items
    /\ ledger \subseteq Items
    /\ cursor \in 0..N
    /\ done \in BOOLEAN

\* page_commit.rs: an item the cursor is past, or any item of a Done shard, has
\* its done row, and an item with a done row has its findings: a crash between
\* the three writes loses nothing that will not be scanned again.
NothingSkipped ==
    /\ ledger \subseteq findings
    /\ 1..cursor \subseteq ledger
    /\ done => Items \subseteq ledger
=============================================================================

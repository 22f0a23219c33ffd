---------------------------- MODULE MCStandalone ----------------------------
(***************************************************************************)
(* Four components that neither call nor are called by one another: the    *)
(* ring between two threads, the permit budget, the resource pool and the  *)
(* done ledger.  A behaviour picks one of them and runs it, so the states  *)
(* of the run are the union of theirs, not the product.                    *)
(***************************************************************************)
EXTENDS SpscQueue, CountBudget, GlobalResourcePool, DoneLedger

VARIABLE part    \* the component this behaviour runs

standaloneVars == <<part, spscVars, budgetVars, poolVars, ledgerVars>>

StandaloneInit ==
    /\ part \in {"spsc", "budget", "pool", "ledger"}
    /\ SpscInit /\ BudgetInit /\ PoolInit /\ LedgerInit

StandaloneNext ==
    /\ \/ part = "spsc" /\ SpscNext /\ UNCHANGED <<budgetVars, poolVars, ledgerVars>>
       \/ part = "budget" /\ BudgetNext /\ UNCHANGED <<spscVars, poolVars, ledgerVars>>
       \/ part = "pool" /\ PoolNext /\ UNCHANGED <<spscVars, budgetVars, ledgerVars>>
       \/ part = "ledger" /\ LedgerNext /\ UNCHANGED <<spscVars, budgetVars, poolVars>>
    /\ UNCHANGED part

StandaloneSpec == StandaloneInit /\ [][StandaloneNext]_standaloneVars

\* Empty, one resource, all of them, and more than the pool has.
SmallRequests == [ring : {0, 1, 3}, cache : {0, 2}, spill : {0, 1}]

Rec(rank, bytes, findings, prov, code) ==
    [rank |-> rank, bytes |-> bytes, findings |-> findings, prov |-> prov, code |-> code]

\* Every status, ties in status and provenance, findings on rows that do not
\* count them; a row with its times reversed and one that fails validation.
SomeOffers ==
    LET good == {Rec(FailedRetryable, 2, 3, 4, 1), Rec(FailedPermanent, 0, 1, 3, 2), Rec(FailedPermanent, 1, 0, 3, 1),
                 Rec(Skipped, 0, 0, 1, 1), Rec(ScannedClean, 1, 0, 2, NoCode), Rec(ScannedClean, 0, 0, 3, NoCode),
                 Rec(ScannedWithFindings, 1, 1, 2, NoCode), Rec(ScannedWithFindings, 0, 2, 1, NoCode)}
    IN  {[key |-> "k", rec |-> r, timely |-> TRUE] : r \in good}
        \cup {[key |-> "k", rec |-> Rec(ScannedClean, 2, 0, 5, NoCode), timely |-> FALSE],
              [key |-> "k", rec |-> Rec(ScannedClean, 0, 1, 5, NoCode), timely |-> TRUE],
              [key |-> "l", rec |-> Rec(Skipped, 0, 0, 2, 1), timely |-> TRUE]}
=============================================================================

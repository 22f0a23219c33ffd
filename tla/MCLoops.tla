------------------------------- MODULE MCLoops -------------------------------
(***************************************************************************)
(* Three components that must make progress on their own and do not call   *)
(* one another: the work-stealing executor, the checkpoint aggregator and  *)
(* the claim loop of the workers.  A behaviour picks one of them and runs  *)
(* it under that component's fairness; the states of the run are the union *)
(* of theirs.                                                              *)
(***************************************************************************)
EXTENDS Executor, CheckpointAggregator, ClaimLoop

VARIABLE part    \* the component this behaviour runs

loopsVars == <<part, execVars, aggVars, claimVars>>

LoopsInit ==
    /\ part \in {"executor", "aggregator", "claims"}
    /\ ExecInit /\ AggInit /\ ClaimInit

LoopsNext ==
    \/ part = "executor" /\ ExecNext /\ UNCHANGED <<part, aggVars, claimVars>>
    \/ part = "aggregator" /\ AggNext /\ UNCHANGED <<part, execVars, claimVars>>
    \/ part = "claims" /\ ClaimNext /\ UNCHANGED <<part, execVars, aggVars>>

\* An action of one part, as a step of the whole.
InExecutor(A) == part = "executor" /\ A /\ UNCHANGED <<part, aggVars, claimVars>>
InAggregator(A) == part = "aggregator" /\ A /\ UNCHANGED <<part, execVars, claimVars>>
InClaims(A) == part = "claims" /\ A /\ UNCHANGED <<part, execVars, aggVars>>

\* ExecFairSpec, AggFairSpec and ClaimFairSpec, each for its own part.
LoopsSpec ==
    /\ LoopsInit /\ [][LoopsNext]_loopsVars
    /\ \A w \in Workers : WF_loopsVars(InExecutor(WorkerStep(w)))
    /\ \A p \in Producers : WF_loopsVars(InExecutor(ProducerStep(p)))
    /\ WF_loopsVars(InExecutor(JoinStep))
    /\ WF_loopsVars(InExecutor(StopStep))
    /\ \A n \in 0..MaxSeq :
          WF_loopsVars(InAggregator(\E r \in Offered : r.seq = n /\ RecordReceipt(r)))
    /\ SF_loopsVars(InAggregator(AcknowledgeCheckpoint))
    /\ WF_loopsVars(InAggregator(PrepareCheckpoint))
    /\ WF_loopsVars(InClaims(Elapse))
    /\ \A w \in ClaimWorkers : WF_loopsVars(InClaims(ClaimCall(w)))
    /\ WF_loopsVars(InClaims(LoopStep(Steady)))

\* EverythingCheckpointed of the aggregator (record_receipt on a full buffer),
\* in the behaviours that run it.
AggregatorProgress == part = "aggregator" => EverythingCheckpointed

\* RunSettles of the claim loop (claim_next, run_worker), in the behaviours that
\* run it.
ClaimsSettle == part = "claims" => RunSettles

\* Receipts of any kind, three keys, and a malformed one.
AnyReceipt ==
    [seq : 0..MaxSeq, valid : {TRUE}, kind : BoundaryKind, key : 1..3]
    \cup {[seq |-> 1, valid |-> FALSE, kind |-> "OrderedContent", key |-> 1]}
=============================================================================

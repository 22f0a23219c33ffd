---- MODULE MCLeaseExecution ----
(* Workers of the lease execution model. *)
EXTENDS LeaseExecution, TLC

Symmetry == Permutations(Worker)
====

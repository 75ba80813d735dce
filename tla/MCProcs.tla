------------------------------ MODULE MCProcs ------------------------------
(* Processes, with the scheduler's fairness.                               *)
EXTENDS Procs

MCCodes == {0}

Spec == ProcsSpec /\ ProcsFair
=============================================================================

---------------------------- MODULE MCRiskWorker ----------------------------
(* Instances of RiskWorker for TLC. *)
EXTENDS RiskWorker

AllMessages == Transactions \X Copies
AllFaults   == FaultKinds
=============================================================================

-------------------------- MODULE MCAnalystWorker --------------------------
(* Instances of AnalystWorker for TLC. *)
EXTENDS AnalystWorker

AllMessages == Transactions \X (Triggers \cup Manuals)
AllFaults   == FaultKinds
=============================================================================

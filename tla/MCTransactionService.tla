---------------------- MODULE MCTransactionService ----------------------
(* Instances of TransactionService for TLC. *)
EXTENDS TransactionService, TLC

AllStatuses == Statuses
AllFaults   == FaultKinds
CallSymmetry == Permutations(Calls)
==========================================================================

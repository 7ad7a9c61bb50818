------------------------- MODULE MCAccountActivity -------------------------
(* Instances of AccountActivity for TLC. *)
EXTENDS AccountActivity

CONSTANTS e1, e2, d1, r1

(* Two payments to one receiver, from one device. *)
Payments ==
  [e \in Evaluations |->
    [device |-> d1, receiver |-> r1, amount |-> IF e = e1 THEN 2 ELSE 5]]

AllFaults == FaultKinds
=============================================================================

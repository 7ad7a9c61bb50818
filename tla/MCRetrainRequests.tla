------------------------- MODULE MCRetrainRequests -------------------------
(* Instances of RetrainRequests for TLC. *)
EXTENDS RetrainRequests

CONSTANTS k1, k2, ta, tb, t1

User(kid, tenant, groups) ==
  [kid |-> kid, tenant |-> tenant, groups |-> groups, expired |-> FALSE]

Input(kind, token, target) == [kind |-> kind, token |-> token, target |-> target]

Analyst == User(k1, ta, {"analyst"})
Other   == User(k2, tb, {"analyst"})
Chief   == User(k2, tb, {"analyst", "admin"})

AllInputs ==
  {Input("create", Analyst, t1),
   Input("create", Other, t1),
   Input("read", Other, t1),
   Input("read", [Analyst EXCEPT !.expired = TRUE], t1),
   Input("reinvestigate", Chief, t1),
   Input("reinvestigate", NoToken, t1),
   Input("retrain", Chief, t1),
   Input("retrain", Analyst, t1)}

NoRows == [t \in Transactions |-> NoTenant]

AllFaults == FaultKinds
NoFaults  == {}
=============================================================================

-------------------------- MODULE RetrainRequests --------------------------
(***************************************************************************)
(* The gateway and the retraining worker, with the queue between them: the *)
(* step of the gateway that sends a retraining request is the step that    *)
(* puts its message into the worker's queue.  Nothing else is shared.      *)
(***************************************************************************)
EXTENDS ApiGateway, ModelRetraining

ASSUME JobsAreRequests == Jobs = Requests

SystemTypeOK == TypeOK /\ RetrainTypeOK

SystemInit == Init /\ RetrainInit

(* The request r reached the worker's queue in this step. *)
Queued(r) == args[r].kind = "retrain" /\ r \in sent' \ sent

GatewayStep(r) ==
  /\ Handle(r)
  /\ IF Queued(r) THEN Enqueue(r) ELSE UNCHANGED retraining

SystemNext ==
  \/ \E r \in Requests : GatewayStep(r)
  \/ Around /\ UNCHANGED retraining
  \/ RetrainNext /\ UNCHANGED vars

SystemSpec == SystemInit /\ [][SystemNext]_<<vars, retraining>>

FairSystem ==
  /\ SystemSpec
  /\ \A r \in Requests : WF_vars(Handle(r))
  /\ RetrainFairness

(* Every request that is let in is answered, whatever fails upstream; and  *)
(* who is told that a retraining was queued sees it decided, as long as    *)
(* there was too little data to retrain on.                                *)
EveryRequestIsSeenThrough ==
  \A r \in Requests :
    pc[r] \in Awaits ~>
      /\ pc[r] = "answered"
      /\ args[r].kind = "retrain" /\ code[r] = 202 => place[r] = "deleted" \/ plenty

(* mlops.py:88 and mlops_consumer.py:116, two services apart: a retraining *)
(* whose caller was told 202 is in the worker's queue, or with a worker,   *)
(* or its workflow came to an end before its message was deleted.          *)
AcceptedIsKept ==
  \A r \in Requests : args[r].kind = "retrain" /\ code[r] = 202 =>
    place[r] \in {"visible", "inFlight"} \/ (place[r] = "deleted" /\ r \in completed)

(* mlops_consumer.py:116 and dependencies.py:84, two services apart: the   *)
(* worker only ever works for a request of an administrator.               *)
OnlyAdministratorsRetrain ==
  \A r \in Requests : place[r] # "absent" =>
    args[r].kind = "retrain" /\ "admin" \in Token(r).groups /\ ~Token(r).expired
=============================================================================

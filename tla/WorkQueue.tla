----------------------------- MODULE WorkQueue -----------------------------
(***************************************************************************)
(* One SQS standard queue with a redrive policy, as its consumers use it.  *)
(* A message that is received becomes invisible for the queue's timeout;   *)
(* if nobody deletes it meanwhile it is handed out again, and once it has  *)
(* been handed out MaxReceives times it moves to the dead letter queue.    *)
(*                                                                         *)
(* The queue itself is external; what is configured here is configured in  *)
(* infra/localstack-init.sh and in the receive_message calls.              *)
(***************************************************************************)
EXTENDS Naturals

CONSTANTS
  Messages,      \* the messages sent in this instance
  MaxReceives    \* maxReceiveCount of the redrive policy

ASSUME QueueAssumption == MaxReceives \in Nat \ {0}

VARIABLES
  place,         \* message -> where it is
  received       \* message -> how often it was handed out, its receive count

queue == <<place, received>>

Places == {"absent", "visible", "inFlight", "deleted", "dead"}

QueueTypeOK ==
  /\ place \in [Messages -> Places]
  /\ received \in [Messages -> 0 .. MaxReceives]

QueueInit ==
  /\ place = [m \in Messages |-> "absent"]
  /\ received = [m \in Messages |-> 0]

Send(m) ==
  /\ place[m] = "absent"
  /\ place' = [place EXCEPT ![m] = "visible"]
  /\ UNCHANGED received

(* Receipt received[m] + 1 of message m. *)
HandOut(m) ==
  /\ place[m] = "visible" /\ received[m] < MaxReceives
  /\ place' = [place EXCEPT ![m] = "inFlight"]
  /\ received' = [received EXCEPT ![m] = @ + 1]

(* The visibility timeout ends before the message is deleted. *)
Reappear(m) ==
  /\ place[m] = "inFlight"
  /\ place' = [place EXCEPT ![m] = "visible"]
  /\ UNCHANGED received

(* Mutant: the queue is created without its redrive policy. *)
WithoutRedrive(m) == FALSE

Redrive(m) ==
  /\ place[m] = "visible" /\ received[m] = MaxReceives
  /\ place' = [place EXCEPT ![m] = "dead"]
  /\ UNCHANGED received

(* delete_message with receipt n.  A receipt that is not the latest may be *)
(* accepted without any effect, and so is one of a message that is gone.   *)
Remove(m, n) ==
  /\ \/ place[m] \in {"visible", "inFlight"} /\ place' = [place EXCEPT ![m] = "deleted"]
     \/ (n # received[m] \/ place[m] \in {"deleted", "dead"}) /\ UNCHANGED place
  /\ UNCHANGED received

Settled(m) == place[m] \in {"deleted", "dead"}
=============================================================================

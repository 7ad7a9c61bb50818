------------------------ MODULE NotificationService ------------------------
(***************************************************************************)
(* The notification service: clients register webhooks, and every          *)
(* RiskCompleted event of aegis-risk-completed is posted to the webhooks   *)
(* its tenant has subscribed to it.  The worker reads the list, posts to   *)
(* one webhook after the other, each time with retries and one UPDATE of   *)
(* the webhook's counters, and deletes the message last.  The              *)
(* SendNotification RPC does the same on demand, without a message.        *)
(*                                                                         *)
(* A job is one receipt of a message or one SendNotification call.  Jobs   *)
(* run concurrently: a batch is gathered, and the retries of one webhook   *)
(* alone (3 times 10 s) last as long as the 30 s visibility timeout.       *)
(***************************************************************************)
EXTENDS WorkQueue

CONSTANTS
  Webhooks,
  Clients,        \* tenants
  Events,         \* the events a webhook may subscribe to
  Subscriptions,  \* the clients and events that webhooks are registered with
  Calls,          \* SendNotification calls
  MaxAttempts,    \* WEBHOOK_MAX_RETRIES
  Faults          \* what may go wrong in this instance, a subset of FaultKinds

RiskCompleted == "risk.completed"
NoClient      == ""

FaultKinds ==
  {"http",        \* a POST times out, raises or is not answered with success
   "db",          \* a session raises, before or after its commit
   "sqs",         \* a delete raises
   "crash",       \* a job is abandoned at an await
   "slow"}        \* a delivery may outlive the visibility timeout

ASSUME NotificationAssumption ==
  /\ RiskCompleted \in Events
  /\ NoClient \notin Clients
  /\ Calls \cap (Messages \X (1 .. MaxReceives)) = {}
  /\ Subscriptions \subseteq [client : Clients, events : SUBSET Events]
  /\ MaxAttempts \in Nat \ {0}
  /\ Faults \subseteq FaultKinds

Deliveries == Messages \X (1 .. MaxReceives)
Jobs       == Deliveries \cup Calls
Notices    == Messages \cup Calls

VARIABLES
  hook,           \* webhook -> its subscription; the row exists if registered
  registered,     \* Postgres: the webhooks with a row
  notice,         \* message or call -> its client and event
  pc,             \* job -> the await it is at
  work,           \* job -> the webhooks it read and has not turned to, the one
                  \* it posts to, and the POSTs made to that one
  delivered,      \* Postgres: webhook -> delivery_count
  failures,       \* Postgres: webhook -> failure_count
  posted,         \* webhook -> the notices whose payload was posted to its URL
  due,            \* history: message -> its subscribers when it was sent
  tried           \* history: message -> the webhooks a delivery has finished with

counters == <<delivered, failures>>
vars     == <<queue, hook, registered, notice, pc, work, counters, posted, due, tried>>

None  == "none"
Idle  == [todo |-> {}, target |-> None, attempts |-> 0]
Steps == {"read", "post", "succeeded", "gaveUp", "delete"}
Ended == {"done", "failed"}

TypeOK ==
  /\ QueueTypeOK
  /\ hook \in [Webhooks -> Subscriptions]
  /\ registered \in SUBSET Webhooks
  /\ notice \in [Notices -> [client : Clients \cup {NoClient}, event : Events]]
  /\ pc \in [Jobs -> Steps \cup Ended \cup {"none"}]
  /\ work \in [Jobs -> [todo : SUBSET Webhooks, target : Webhooks \cup {None},
                        attempts : 0 .. MaxAttempts]]
  /\ \A j \in Jobs : pc[j] \in {"post", "succeeded", "gaveUp"} => work[j].target \in Webhooks
  /\ delivered \in [Webhooks -> Nat]
  /\ failures \in [Webhooks -> Nat]
  /\ posted \in [Webhooks -> SUBSET Notices]
  /\ due \in [Messages -> SUBSET Webhooks]
  /\ tried \in [Messages -> SUBSET Webhooks]

(* A message is about RiskCompleted and may lack its client; a call that   *)
(* lacks one is refused before it starts.                                  *)
Init ==
  /\ QueueInit
  /\ hook \in [Webhooks -> Subscriptions]
  /\ registered = {}
  /\ notice \in [Notices -> [client : Clients \cup {NoClient}, event : Events]]
  /\ \A m \in Messages : notice[m].event = RiskCompleted
  /\ \A c \in Calls : notice[c].client # NoClient
  /\ pc = [j \in Jobs |-> "none"]
  /\ work = [j \in Jobs |-> Idle]
  /\ delivered = [w \in Webhooks |-> 0]
  /\ failures = [w \in Webhooks |-> 0]
  /\ posted = [w \in Webhooks |-> {}]
  /\ due = [m \in Messages |-> {}]
  /\ tried = [m \in Messages |-> {}]

-----------------------------------------------------------------------------
Message(j) == j[1]
Notice(j)  == IF j \in Deliveries THEN Message(j) ELSE j

Goto(j, step) == pc' = [pc EXCEPT ![j] = step]

(* The loop is over: the locals of the job are gone. *)
Leave(j, step) == Goto(j, step) /\ work' = [work EXCEPT ![j] = Idle]

(* The except clauses: a message is left to its visibility timeout, a call *)
(* is aborted with INTERNAL.                                               *)
Fail(j, fault) == fault \in Faults /\ Leave(j, "failed")

(* Mutant: the query does not filter on the client. *)
ActiveForEvent(n) == {w \in registered : notice[n].event \in hook[w].events}

(* get_active_for_client_and_event; nothing ever deactivates a webhook. *)
Subscribed(n) ==
  {w \in registered : /\ hook[w].client = notice[n].client
                      /\ notice[n].event \in hook[w].events}

(* The next webhook of the list, in whichever order the query returned it, *)
(* or the end of the loop: the delete, or the RPC's answer.                *)
TurnTo(j, rest) ==
  \/ \E w \in rest :
       /\ work' = [work EXCEPT ![j] = [todo |-> rest \ {w}, target |-> w, attempts |-> 0]]
       /\ Goto(j, "post")
  \/ rest = {} /\ Leave(j, IF j \in Deliveries THEN "delete" ELSE "done")

-----------------------------------------------------------------------------
RegisterWebhook(w) ==
  /\ w \notin registered
  /\ registered' = registered \cup {w}
  /\ UNCHANGED <<queue, hook, notice, pc, work, counters, posted, due, tried>>

(* The risk worker sends the event. *)
Publish(m) ==
  /\ Send(m)
  /\ due' = [due EXCEPT ![m] = Subscribed(m)]
  /\ UNCHANGED <<hook, registered, notice, pc, work, counters, posted, tried>>

Receive(m) ==
  /\ HandOut(m)
  /\ Goto(<<m, received[m] + 1>>, "read")
  /\ UNCHANGED <<hook, registered, notice, work, counters, posted, due, tried>>

SendNotification(c) ==
  /\ pc[c] = "none"
  /\ Goto(c, "read")
  /\ UNCHANGED <<queue, hook, registered, notice, work, counters, posted, due, tried>>

(* The list of webhooks, in a session of its own.  A message without a     *)
(* client has none, and is deleted.                                        *)
ReadWebhooks(j) ==
  /\ pc[j] = "read"
  /\ \/ TurnTo(j, Subscribed(Notice(j)))
     \/ notice[Notice(j)].client # NoClient /\ Fail(j, "db")
  /\ UNCHANGED <<queue, hook, registered, notice, counters, posted, due, tried>>

(* One POST of the retry loop of deliver. *)
Post(j) ==
  /\ pc[j] = "post"
  /\ work' = [work EXCEPT ![j].attempts = @ + 1]
  /\ posted' = [posted EXCEPT ![work[j].target] = @ \cup {Notice(j)}]
  /\ \/ Goto(j, "succeeded")
     \/ /\ "http" \in Faults
        /\ Goto(j, IF work'[j].attempts < MaxAttempts THEN "post" ELSE "gaveUp")
  /\ UNCHANGED <<queue, hook, registered, notice, counters, due, tried>>

(* increment_delivery: an UPDATE that adds to the row, and its commit. *)
Increment(j) ==
  LET w == work[j].target IN
  \/ /\ pc[j] = "succeeded"
     /\ delivered' = [delivered EXCEPT ![w] = @ + 1]
     /\ UNCHANGED failures
  \/ /\ pc[j] = "gaveUp"
     /\ failures' = [failures EXCEPT ![w] = @ + 1]
     /\ UNCHANGED delivered

Finished(j) ==
  tried' = IF j \in Deliveries
           THEN [tried EXCEPT ![Message(j)] = @ \cup {work[j].target}] ELSE tried

(* Mutant: the rest of the list is given up after a webhook that failed. *)
CountAndStop(j) ==
  /\ pc[j] \in {"succeeded", "gaveUp"}
  /\ Increment(j) /\ TurnTo(j, IF pc[j] = "gaveUp" THEN {} ELSE work[j].todo) /\ Finished(j)
  /\ UNCHANGED <<queue, hook, registered, notice, posted, due>>

(* The counter of the target, and on to the next webhook. *)
CountDelivery(j) ==
  /\ pc[j] \in {"succeeded", "gaveUp"}
  /\ \/ Increment(j) /\ TurnTo(j, work[j].todo) /\ Finished(j)
     \/ /\ Fail(j, "db")
        /\ Increment(j) \/ UNCHANGED counters
        /\ UNCHANGED tried
  /\ UNCHANGED <<queue, hook, registered, notice, posted, due>>

(* The acknowledgement, after the last webhook. *)
Acknowledge(j) ==
  /\ pc[j] = "delete"
  /\ \/ Remove(Message(j), j[2]) /\ (Leave(j, "done") \/ Fail(j, "sqs"))
     \/ Fail(j, "sqs") /\ UNCHANGED queue
  /\ UNCHANGED <<hook, registered, notice, counters, posted, due, tried>>

Crash(j) ==
  /\ pc[j] \in Steps
  /\ Fail(j, "crash")
  /\ UNCHANGED <<queue, hook, registered, notice, counters, posted, due, tried>>

TimeOut(m) ==
  /\ Reappear(m)
  /\ "slow" \in Faults \/ pc[<<m, received[m]>>] \notin Steps
  /\ UNCHANGED <<hook, registered, notice, pc, work, counters, posted, due, tried>>

DeadLetter(m) ==
  /\ Redrive(m)
  /\ UNCHANGED <<hook, registered, notice, pc, work, counters, posted, due, tried>>

Process(j) ==
  ReadWebhooks(j) \/ Post(j) \/ CountDelivery(j) \/ (j \in Deliveries /\ Acknowledge(j))
Deliver(m) == Receive(m) \/ TimeOut(m) \/ DeadLetter(m)

Next ==
  \/ \E w \in Webhooks : RegisterWebhook(w)
  \/ \E m \in Messages : Publish(m) \/ Deliver(m)
  \/ \E c \in Calls : SendNotification(c)
  \/ \E j \in Jobs : Process(j) \/ Crash(j)

Spec == Init /\ [][Next]_vars

(* The event loop runs every ready task, the poll loop receives again and  *)
(* again, and the queue's timer runs.                                      *)
FairSpec ==
  /\ Spec
  /\ \A m \in Messages : WF_vars(Deliver(m))
  /\ \A j \in Jobs : WF_vars(Process(j))

-----------------------------------------------------------------------------
(* NoSubscriberSkipped: an event is deleted only after some delivery was   *)
(* done, answered or out of attempts, with every webhook that its tenant   *)
(* had subscribed to it when it was sent: a webhook that keeps failing, or *)
(* a delivery that ends half way, never costs the others theirs.           *)
NoSubscriberSkipped ==
  \A m \in Messages : place[m] = "deleted" => due[m] \subseteq tried[m]

(* TenantIsolation: a URL only ever receives notices of the tenant that    *)
(* registered it, about events that it subscribed to, from the worker as   *)
(* from the RPC.                                                           *)
TenantIsolation ==
  \A w \in Webhooks : \A n \in posted[w] :
    notice[n].client = hook[w].client /\ notice[n].event \in hook[w].events

(* EveryMessageSettles: an event that was sent is in the end deleted, or   *)
(* moved to the dead letter queue, whatever the webhooks do.               *)
EveryMessageSettles == \A m \in Messages : place[m] = "visible" ~> Settled(m)
=============================================================================

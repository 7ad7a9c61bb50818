--------------------- MODULE NotificationServiceProofs ---------------------
(***************************************************************************)
(* Proofs about NotificationService, for every value of its constants.     *)
(*                                                                         *)
(* The argument: the list that a delivery reads contains everybody who was *)
(* subscribed when its message was sent, since registrations only grow;    *)
(* while it works, each of them is behind it, ahead of it, or its target;  *)
(* and it deletes the message when nobody is ahead of it any more.         *)
(***************************************************************************)
EXTENDS NotificationService, TLAPS

Posting == {"post", "succeeded", "gaveUp"}

Match(w, n) ==
  w \in registered /\ hook[w].client = notice[n].client /\ notice[n].event \in hook[w].events

(* Nothing is known of a message, or done for it, before it is sent; its   *)
(* subscribers stay subscribed.                                            *)
DueAreSubscribed ==
  /\ \A m \in Messages : \A w \in due[m] : Match(w, m)
  /\ \A d \in Deliveries : pc[d] # "none" => place[Message(d)] # "absent"

(* Whoever a delivery owes a POST is behind it, ahead of it or its target. *)
NobodyForgotten ==
  \A d \in Deliveries :
    /\ pc[d] \in Posting =>
         due[Message(d)] \subseteq tried[Message(d)] \cup work[d].todo \cup {work[d].target}
    /\ pc[d] = "delete" => due[Message(d)] \subseteq tried[Message(d)]

(* A job only ever turns to subscribers of its notice. *)
TargetsMatch ==
  \A j \in Jobs : pc[j] \in Posting =>
    /\ Match(work[j].target, Notice(j))
    /\ \A w \in work[j].todo : Match(w, Notice(j))

Inv == DueAreSubscribed /\ NobodyForgotten /\ NoSubscriberSkipped

-----------------------------------------------------------------------------
LEMMA JobType ==
  /\ \A d \in Deliveries : d \in Jobs /\ Message(d) \in Messages
  /\ \A d \in Deliveries : Notice(d) = Message(d)
  /\ \A j \in Jobs : Notice(j) \in Notices
  BY DEF Deliveries, Message, Jobs, Notices, Notice

LEMMA IdleType ==
  Idle \in [todo : SUBSET Webhooks, target : Webhooks \cup {None}, attempts : 0 .. MaxAttempts]
  BY NotificationAssumption DEF Idle

LEMMA QueueStepType ==
  ASSUME QueueTypeOK, NEW m \in Messages,
         Send(m) \/ HandOut(m) \/ Reappear(m) \/ Redrive(m) \/ \E n : Remove(m, n)
  PROVE  QueueTypeOK'
  BY QueueAssumption
     DEF QueueTypeOK, Send, HandOut, Reappear, Redrive, Remove, Places

(* What a job may do to its own locals. *)
LEMMA TurnType ==
  ASSUME TypeOK, NEW j \in Jobs, NEW rest \in SUBSET Webhooks, TurnTo(j, rest)
  PROVE  /\ pc' \in [Jobs -> Steps \cup Ended \cup {"none"}]
         /\ work' \in [Jobs -> [todo : SUBSET Webhooks, target : Webhooks \cup {None},
                                attempts : 0 .. MaxAttempts]]
         /\ \A k \in Jobs : pc'[k] \in Posting => work'[k].target \in Webhooks
<1>1. CASE rest = {} /\ Leave(j, IF j \in Deliveries THEN "delete" ELSE "done")
  BY <1>1, IdleType DEF TypeOK, Leave, Goto, Posting, Steps, Ended
<1>2. ASSUME NEW w \in rest,
             work' = [work EXCEPT ![j] = [todo |-> rest \ {w}, target |-> w, attempts |-> 0]],
             Goto(j, "post")
      PROVE  /\ pc' \in [Jobs -> Steps \cup Ended \cup {"none"}]
             /\ work' \in [Jobs -> [todo : SUBSET Webhooks, target : Webhooks \cup {None},
                                    attempts : 0 .. MaxAttempts]]
             /\ \A k \in Jobs : pc'[k] \in Posting => work'[k].target \in Webhooks
  <2>1. [todo |-> rest \ {w}, target |-> w, attempts |-> 0]
          \in [todo : SUBSET Webhooks, target : Webhooks \cup {None}, attempts : 0 .. MaxAttempts]
    BY NotificationAssumption
  <2> QED
    BY <1>2, <2>1 DEF TypeOK, Goto, Posting, Steps, Ended
<1> QED
  BY <1>1, <1>2 DEF TurnTo

LEMMA LeaveType ==
  ASSUME TypeOK, NEW j \in Jobs, NEW step \in {"delete"} \cup Ended, Leave(j, step)
  PROVE  /\ pc' \in [Jobs -> Steps \cup Ended \cup {"none"}]
         /\ work' \in [Jobs -> [todo : SUBSET Webhooks, target : Webhooks \cup {None},
                                attempts : 0 .. MaxAttempts]]
         /\ \A k \in Jobs : pc'[k] \in Posting => work'[k].target \in Webhooks
  BY IdleType DEF TypeOK, Leave, Goto, Posting, Steps, Ended

(* The retry loop never makes more than MaxAttempts POSTs. *)
Bounded == \A j \in Jobs : pc[j] = "post" => work[j].attempts < MaxAttempts

LEMMA PostType ==
  ASSUME TypeOK, Bounded, NEW j \in Jobs, Post(j)
  PROVE  TypeOK' /\ Bounded'
<1> DEFINE a == work[j].attempts
<1>1. a \in 0 .. MaxAttempts /\ a < MaxAttempts /\ work[j].target \in Webhooks
  BY DEF Post, TypeOK, Bounded
<1>2. a + 1 \in 0 .. MaxAttempts
  BY <1>1, NotificationAssumption
<1>3. work' = [work EXCEPT ![j].attempts = a + 1]
  BY DEF Post
<1>4. /\ work' \in [Jobs -> [todo : SUBSET Webhooks, target : Webhooks \cup {None},
                             attempts : 0 .. MaxAttempts]]
      /\ work'[j].attempts = a + 1
      /\ \A k \in Jobs : work'[k].target = work[k].target /\ (k # j => work'[k] = work[k])
  <2> HIDE DEF a
  <2> QED
    BY <1>2, <1>3 DEF TypeOK
<1>5. /\ pc' \in [Jobs -> Steps \cup Ended \cup {"none"}]
      /\ \A k \in Jobs : k # j => pc'[k] = pc[k]
      /\ pc'[j] \in Posting
      /\ pc'[j] = "post" => a + 1 < MaxAttempts
  BY <1>4 DEF Post, Goto, TypeOK, Posting, Steps
<1>6. posted' \in [Webhooks -> SUBSET Notices]
  BY <1>1, JobType DEF Post, TypeOK
<1>7. Bounded'
  BY <1>4, <1>5 DEF Bounded
<1>8. \A k \in Jobs : pc'[k] \in Posting => work'[k].target \in Webhooks
  BY <1>1, <1>4, <1>5 DEF TypeOK, Posting
<1> QED
  BY <1>4, <1>5, <1>6, <1>7, <1>8
     DEF Post, TypeOK, QueueTypeOK, queue, counters, Posting

LEMMA BoundedTurn ==
  ASSUME TypeOK, Bounded, NEW j \in Jobs, NEW rest, TurnTo(j, rest)
  PROVE  Bounded'
  BY NotificationAssumption DEF TurnTo, Leave, Goto, Bounded, TypeOK

LEMMA BoundedLeave ==
  ASSUME TypeOK, Bounded, NEW j \in Jobs, NEW step \in {"delete"} \cup Ended, Leave(j, step)
  PROVE  Bounded'
  BY DEF Leave, Goto, Bounded, TypeOK, Ended

LEMMA CountType ==
  ASSUME TypeOK, NEW j \in Jobs, pc[j] \in {"succeeded", "gaveUp"},
         Increment(j) \/ UNCHANGED counters
  PROVE  delivered' \in [Webhooks -> Nat] /\ failures' \in [Webhooks -> Nat]
  BY DEF TypeOK, Increment, counters

LEMMA TypeNext == TypeOK /\ Bounded /\ [Next]_vars => TypeOK' /\ Bounded'
<1> SUFFICES ASSUME TypeOK, Bounded, [Next]_vars PROVE TypeOK' /\ Bounded'
  OBVIOUS
<1> USE DEF queue, counters
<1>1. ASSUME NEW w \in Webhooks, RegisterWebhook(w) PROVE TypeOK' /\ Bounded'
  BY <1>1 DEF RegisterWebhook, TypeOK, QueueTypeOK, Bounded
<1>2. ASSUME NEW m \in Messages, Publish(m) PROVE TypeOK' /\ Bounded'
  <2>1. QueueTypeOK'
    BY <1>2, QueueStepType DEF Publish, TypeOK
  <2> QED
    BY <1>2, <2>1 DEF Publish, Subscribed, TypeOK, Bounded
<1>3. ASSUME NEW m \in Messages, Deliver(m) PROVE TypeOK' /\ Bounded'
  <2>1. QueueTypeOK'
    BY <1>3, QueueStepType DEF Deliver, Receive, TimeOut, DeadLetter, TypeOK
  <2>2. /\ pc' \in [Jobs -> Steps \cup Ended \cup {"none"}]
        /\ \A j \in Jobs : pc'[j] = pc[j] \/ pc'[j] = "read"
    BY <1>3 DEF Deliver, Receive, TimeOut, DeadLetter, Goto, TypeOK, Steps
  <2> QED
    BY <1>3, <2>1, <2>2 DEF Deliver, Receive, TimeOut, DeadLetter, TypeOK, Bounded
<1>4. ASSUME NEW c \in Calls, SendNotification(c) PROVE TypeOK' /\ Bounded'
  BY <1>4 DEF SendNotification, Goto, TypeOK, QueueTypeOK, Bounded, Steps, Jobs
<1>5. ASSUME NEW j \in Jobs, ReadWebhooks(j) PROVE TypeOK' /\ Bounded'
  <2>1. Subscribed(Notice(j)) \in SUBSET Webhooks
    BY DEF Subscribed, TypeOK
  <2>2. CASE TurnTo(j, Subscribed(Notice(j)))
    BY <1>5, <2>1, <2>2, TurnType, BoundedTurn
       DEF ReadWebhooks, TypeOK, QueueTypeOK, Posting
  <2>3. CASE Fail(j, "db")
    BY <1>5, <2>3, LeaveType, BoundedLeave
       DEF ReadWebhooks, Fail, TypeOK, QueueTypeOK, Posting, Ended
  <2> QED
    BY <1>5, <2>2, <2>3 DEF ReadWebhooks
<1>6. ASSUME NEW j \in Jobs, Post(j) PROVE TypeOK' /\ Bounded'
  BY <1>6, PostType
<1>7. ASSUME NEW j \in Jobs, CountDelivery(j) PROVE TypeOK' /\ Bounded'
  <2>1. delivered' \in [Webhooks -> Nat] /\ failures' \in [Webhooks -> Nat]
    BY <1>7, CountType DEF CountDelivery
  <2>2. work[j].target \in Webhooks /\ work[j].todo \in SUBSET Webhooks
    BY <1>7 DEF CountDelivery, TypeOK
  <2>3. tried' \in [Messages -> SUBSET Webhooks]
    BY <1>7, <2>2, JobType DEF CountDelivery, Finished, TypeOK
  <2>4. CASE TurnTo(j, work[j].todo)
    BY <1>7, <2>1, <2>2, <2>3, <2>4, TurnType, BoundedTurn
       DEF CountDelivery, TypeOK, QueueTypeOK, Posting
  <2>5. CASE Fail(j, "db")
    BY <1>7, <2>1, <2>3, <2>5, LeaveType, BoundedLeave
       DEF CountDelivery, Fail, TypeOK, QueueTypeOK, Posting, Ended
  <2> QED
    BY <1>7, <2>4, <2>5 DEF CountDelivery
<1>8. ASSUME NEW j \in Deliveries, Acknowledge(j) PROVE TypeOK' /\ Bounded'
  <2>1. QueueTypeOK'
    BY <1>8, JobType, QueueStepType DEF Acknowledge, TypeOK, QueueTypeOK
  <2>2. j \in Jobs /\ \E step \in Ended : Leave(j, step)
    BY <1>8, JobType DEF Acknowledge, Fail, Ended
  <2> QED
    BY <1>8, <2>1, <2>2, LeaveType, BoundedLeave DEF Acknowledge, TypeOK, Posting
<1>9. ASSUME NEW j \in Jobs, Crash(j) PROVE TypeOK' /\ Bounded'
  BY <1>9, LeaveType, BoundedLeave DEF Crash, Fail, TypeOK, QueueTypeOK, Posting, Ended
<1>10. CASE UNCHANGED vars
  BY <1>10 DEF vars, TypeOK, QueueTypeOK, Bounded
<1> QED
  BY <1>1, <1>2, <1>3, <1>4, <1>5, <1>6, <1>7, <1>8, <1>9, <1>10 DEF Next, Process

LEMMA TypeInit == Init => TypeOK /\ Bounded
  BY QueueAssumption, IdleType
     DEF Init, TypeOK, QueueInit, QueueTypeOK, Places, Bounded, Steps, Ended

(* TypeInvariant: the state stays in its sets; the retry loop in its       *)
(* bound.                                                                  *)
THEOREM TypeInvariant == Spec => [](TypeOK /\ Bounded)
  BY TypeInit, TypeNext, PTL DEF Spec

-----------------------------------------------------------------------------
(* A job never takes a subscriber away: matches stay matches. *)
LEMMA MatchStays ==
  ASSUME TypeOK, [Next]_vars, NEW w, NEW n, Match(w, n)
  PROVE  Match(w, n)'
<1>1. hook' = hook /\ notice' = notice /\ registered \subseteq registered'
  BY DEF Next, vars, RegisterWebhook, Publish, Deliver, Receive, TimeOut, DeadLetter,
         SendNotification, Process, ReadWebhooks, Post, CountDelivery, Acknowledge, Crash
<1> QED
  BY <1>1 DEF Match

LEMMA SubscribedMatch ==
  ASSUME NEW n PROVE Subscribed(n) = {w \in registered : Match(w, n)}
  BY DEF Subscribed, Match

(* What the steps of a job do to the queue, to other jobs and to tried. *)
LEMMA JobStep ==
  ASSUME TypeOK, NEW j \in Jobs, Process(j) \/ Crash(j)
  PROVE  /\ pc[j] # "none"
         /\ due' = due
         /\ \A k \in Jobs : k # j => pc'[k] = pc[k] /\ work'[k] = work[k]
         /\ \A m \in Messages : tried[m] \subseteq tried'[m]
<1>1. /\ pc[j] # "none" /\ due' = due
      /\ \A k \in Jobs : k # j => pc'[k] = pc[k] /\ work'[k] = work[k]
  BY DEF Process, Crash, ReadWebhooks, Post, CountDelivery, Acknowledge, Fail, TurnTo,
         Leave, Goto, Steps, TypeOK
<1>2. tried' = tried \/ Finished(j)
  BY DEF Process, Crash, ReadWebhooks, Post, CountDelivery, Acknowledge
<1> QED
  BY <1>1, <1>2 DEF Finished, TypeOK

(* Where a delivery's step leaves those it owes a POST. *)
LEMMA DeliveryStep ==
  ASSUME TypeOK, Inv, NEW d \in Deliveries, Process(d) \/ Crash(d)
  PROVE  /\ pc'[d] \in Posting =>
              due[Message(d)] \subseteq tried'[Message(d)] \cup work'[d].todo \cup {work'[d].target}
         /\ pc'[d] = "delete" => due[Message(d)] \subseteq tried'[Message(d)]
<1> DEFINE m == Message(d)
           Owed == /\ pc'[d] \in Posting =>
                        due[m] \subseteq tried'[m] \cup work'[d].todo \cup {work'[d].target}
                   /\ pc'[d] = "delete" => due[m] \subseteq tried'[m]
<1>0. d \in Jobs /\ m \in Messages /\ Notice(d) = m
  BY JobType
<1>1. ASSUME NEW rest \in SUBSET Webhooks, TurnTo(d, rest), due[m] \subseteq tried'[m] \cup rest
      PROVE  Owed
  <2>1. CASE rest = {} /\ Leave(d, "delete")
    BY <1>0, <1>1, <2>1 DEF Leave, Goto, TypeOK, Posting
  <2>2. ASSUME NEW w \in rest,
               work' = [work EXCEPT ![d] = [todo |-> rest \ {w}, target |-> w, attempts |-> 0]],
               Goto(d, "post")
        PROVE  Owed
    <3>1. work'[d].todo = rest \ {w} /\ work'[d].target = w /\ pc'[d] = "post"
      BY <1>0, <2>2 DEF TypeOK, Goto
    <3> QED
      BY <1>1, <3>1
  <2> QED
    BY <1>1, <2>1, <2>2 DEF TurnTo
<1>2. CASE ReadWebhooks(d)
  <2>1. due[m] \subseteq Subscribed(m) /\ Subscribed(m) \in SUBSET Webhooks
    BY <1>0, SubscribedMatch DEF Inv, DueAreSubscribed, Match, TypeOK
  <2>2. CASE TurnTo(d, Subscribed(m))
    BY <1>1, <2>1, <2>2
  <2>3. CASE Fail(d, "db")
    BY <1>0, <2>3 DEF Fail, Leave, Goto, TypeOK, Posting
  <2> QED
    BY <1>0, <1>2, <2>2, <2>3 DEF ReadWebhooks
<1>3. CASE Post(d)
  <2>1. /\ pc[d] = "post" /\ tried' = tried /\ pc'[d] \in Posting
        /\ work'[d].todo = work[d].todo /\ work'[d].target = work[d].target
    BY <1>0, <1>3 DEF Post, Goto, TypeOK, Posting
  <2> QED
    BY <2>1 DEF Inv, NobodyForgotten, Posting
<1>4. CASE CountDelivery(d)
  <2>1. CASE TurnTo(d, work[d].todo) /\ Finished(d)
    <3>1. tried'[m] = tried[m] \cup {work[d].target} /\ work[d].todo \in SUBSET Webhooks
      BY <1>0, <2>1 DEF Finished, TypeOK
    <3>2. due[m] \subseteq tried[m] \cup work[d].todo \cup {work[d].target}
      BY <1>4 DEF CountDelivery, Inv, NobodyForgotten, Posting
    <3> QED
      BY <1>1, <2>1, <3>1, <3>2
  <2>2. CASE Fail(d, "db")
    BY <1>0, <2>2 DEF Fail, Leave, Goto, TypeOK, Posting
  <2> QED
    BY <1>4, <2>1, <2>2 DEF CountDelivery
<1>5. CASE Acknowledge(d) \/ Crash(d)
  BY <1>0, <1>5 DEF Acknowledge, Crash, Fail, Leave, Goto, TypeOK, Posting, Steps
<1> QED
  BY <1>2, <1>3, <1>4, <1>5 DEF Process

LEMMA InvNext == TypeOK /\ Inv /\ [Next]_vars => Inv'
<1> SUFFICES ASSUME TypeOK, Inv, [Next]_vars PROVE Inv'
  OBVIOUS
<1> USE DEF queue
<1>1. \A w, n : Match(w, n) => Match(w, n)'
  BY MatchStays
<1>2. ASSUME UNCHANGED <<place, pc, work, due, tried>> PROVE Inv'
  BY <1>1, <1>2 DEF Inv, DueAreSubscribed, NobodyForgotten, NoSubscriberSkipped
<1>3. ASSUME NEW m \in Messages, Publish(m) PROVE Inv'
  <2>1. /\ place[m] = "absent"
        /\ \A n \in Messages : n # m => place'[n] = place[n] /\ due'[n] = due[n]
        /\ place'[m] = "visible" /\ due'[m] = Subscribed(m)
        /\ UNCHANGED <<pc, work, tried>>
    BY <1>3 DEF Publish, Send, TypeOK, QueueTypeOK
  <2>2. \A d \in Deliveries : Message(d) = m => pc[d] = "none"
    BY <2>1 DEF Inv, DueAreSubscribed
  <2>3. \A w \in due'[m] : Match(w, m)
    BY <2>1, SubscribedMatch
  <2> QED
    BY <1>1, <2>1, <2>2, <2>3, JobType
       DEF Inv, DueAreSubscribed, NobodyForgotten, NoSubscriberSkipped, Posting
<1>4. ASSUME NEW m \in Messages, Deliver(m) PROVE Inv'
  <2>1. /\ \A n \in Messages : place'[n] = "absent" <=> place[n] = "absent"
        /\ \A n \in Messages : place'[n] = "deleted" => place[n] = "deleted"
        /\ place[m] # "absent"
        /\ UNCHANGED <<work, due, tried>>
    BY <1>4 DEF Deliver, Receive, TimeOut, DeadLetter, HandOut, Reappear, Redrive,
                TypeOK, QueueTypeOK
  <2>2. \A d \in Deliveries : pc'[d] = pc[d] \/ (Message(d) = m /\ pc'[d] = "read")
    <3>1. pc' = pc \/ Goto(<<m, received[m] + 1>>, "read")
      BY <1>4 DEF Deliver, Receive, TimeOut, DeadLetter
    <3>2. ASSUME NEW d \in Deliveries, NEW e, pc' = [pc EXCEPT ![e] = "read"]
          PROVE  pc'[d] = pc[d] \/ (d = e /\ pc'[d] = "read")
      BY <3>2, JobType DEF TypeOK
    <3> QED
      BY <3>1, <3>2 DEF Goto, Message
  <2> QED
    BY <1>1, <2>1, <2>2, JobType
       DEF Inv, DueAreSubscribed, NobodyForgotten, NoSubscriberSkipped, Posting
<1>5. ASSUME NEW c \in Calls, SendNotification(c) PROVE Inv'
  <2>1. /\ \A d \in Deliveries : pc'[d] = pc[d]
        /\ UNCHANGED <<place, work, due, tried>>
    BY <1>5, NotificationAssumption
       DEF SendNotification, Goto, TypeOK, Jobs, Deliveries
  <2> QED
    BY <1>1, <2>1 DEF Inv, DueAreSubscribed, NobodyForgotten, NoSubscriberSkipped
<1>6. ASSUME NEW c \in Calls, Process(c) \/ Crash(c), c \notin Deliveries PROVE Inv'
  <2>1. /\ \A d \in Deliveries : pc'[d] = pc[d] /\ work'[d] = work[d]
        /\ due' = due /\ \A m \in Messages : tried[m] \subseteq tried'[m]
    BY <1>6, JobStep, JobType DEF Jobs
  <2>2. place' = place
    BY <1>6 DEF Process, Crash, ReadWebhooks, Post, CountDelivery
  <2> QED
    BY <1>1, <2>1, <2>2, JobType
       DEF Inv, DueAreSubscribed, NobodyForgotten, NoSubscriberSkipped
<1>7. ASSUME NEW d \in Deliveries, Process(d) \/ Crash(d) PROVE Inv'
  <2>1. d \in Jobs /\ Message(d) \in Messages
    BY JobType
  <2>2. /\ pc[d] # "none" /\ due' = due
        /\ \A e \in Deliveries : e # d => pc'[e] = pc[e] /\ work'[e] = work[e]
        /\ \A m \in Messages : tried[m] \subseteq tried'[m]
    BY <1>7, <2>1, JobStep, JobType
  <2>3. /\ \A m \in Messages : place'[m] = "absent" <=> place[m] = "absent"
        /\ \A m \in Messages : place'[m] = "deleted" /\ place[m] # "deleted" =>
             m = Message(d) /\ pc[d] = "delete"
    BY <1>7, <2>1 DEF Process, Crash, ReadWebhooks, Post, CountDelivery, Acknowledge,
                      Remove, TypeOK, QueueTypeOK
  <2>4. DueAreSubscribed'
    BY <1>1, <2>2, <2>3, JobType DEF Inv, DueAreSubscribed
  <2>5. NobodyForgotten'
    BY <1>7, <2>2, DeliveryStep, JobType DEF Inv, NobodyForgotten
  <2>6. NoSubscriberSkipped'
    BY <2>2, <2>3 DEF Inv, NobodyForgotten, NoSubscriberSkipped
  <2> QED
    BY <2>4, <2>5, <2>6 DEF Inv
<1>8. ASSUME NEW w \in Webhooks, RegisterWebhook(w) PROVE UNCHANGED <<place, pc, work, due, tried>>
  BY <1>8 DEF RegisterWebhook
<1>9. CASE UNCHANGED vars
  BY <1>2, <1>9 DEF vars
<1> QED
  BY <1>2, <1>3, <1>4, <1>5, <1>6, <1>7, <1>8, <1>9 DEF Next, Jobs

LEMMA InvInit == Init => Inv
  BY JobType DEF Init, QueueInit, Inv, DueAreSubscribed, NobodyForgotten, NoSubscriberSkipped,
                 Posting

(* EverySubscriberTried: however deliveries fail, overlap and are          *)
(* repeated, and however many webhooks fail, an event is deleted only      *)
(* after all of its subscribers had their attempts.                        *)
THEOREM EverySubscriberTried == Spec => []NoSubscriberSkipped
<1>1. Init => TypeOK /\ Bounded /\ Inv
  BY TypeInit, InvInit
<1>2. TypeOK /\ Bounded /\ Inv /\ [Next]_vars => TypeOK' /\ Bounded' /\ Inv'
  BY TypeNext, InvNext
<1>3. Inv => NoSubscriberSkipped
  BY DEF Inv
<1> QED
  BY <1>1, <1>2, <1>3, PTL DEF Spec

-----------------------------------------------------------------------------
LEMMA TargetStep ==
  ASSUME TypeOK, TargetsMatch, NEW j \in Jobs, Process(j) \/ Crash(j)
  PROVE  pc'[j] \in Posting =>
           /\ Match(work'[j].target, Notice(j))
           /\ \A w \in work'[j].todo : Match(w, Notice(j))
<1> DEFINE n == Notice(j)
           Goal == pc'[j] \in Posting =>
                     Match(work'[j].target, n) /\ \A w \in work'[j].todo : Match(w, n)
<1>1. ASSUME NEW rest, TurnTo(j, rest), \A w \in rest : Match(w, n) PROVE Goal
  BY <1>1 DEF TurnTo, Leave, Goto, TypeOK, Posting
<1>2. CASE ReadWebhooks(j)
  <2>1. CASE TurnTo(j, Subscribed(n))
    BY <1>1, <2>1, SubscribedMatch
  <2>2. CASE Fail(j, "db")
    BY <2>2 DEF Fail, Leave, Goto, TypeOK, Posting
  <2> QED
    BY <1>2, <2>1, <2>2 DEF ReadWebhooks
<1>3. CASE Post(j)
  <2>1. /\ pc[j] \in Posting
        /\ work'[j].todo = work[j].todo /\ work'[j].target = work[j].target
    BY <1>3 DEF Post, TypeOK, Posting
  <2> QED
    BY <2>1 DEF TargetsMatch
<1>4. CASE CountDelivery(j)
  <2>1. \A w \in work[j].todo : Match(w, n)
    BY <1>4 DEF CountDelivery, TargetsMatch, Posting
  <2>2. CASE TurnTo(j, work[j].todo)
    BY <1>1, <2>1, <2>2
  <2>3. CASE Fail(j, "db")
    BY <2>3 DEF Fail, Leave, Goto, TypeOK, Posting
  <2> QED
    BY <1>4, <2>2, <2>3 DEF CountDelivery
<1>5. CASE Acknowledge(j) \/ Crash(j)
  BY <1>5 DEF Acknowledge, Crash, Fail, Leave, Goto, TypeOK, Posting
<1> QED
  BY <1>2, <1>3, <1>4, <1>5 DEF Process

LEMMA IsolationNext ==
  TypeOK /\ TargetsMatch /\ TenantIsolation /\ [Next]_vars => TargetsMatch' /\ TenantIsolation'
<1> SUFFICES ASSUME TypeOK, TargetsMatch, TenantIsolation, [Next]_vars
             PROVE  TargetsMatch' /\ TenantIsolation'
  OBVIOUS
<1>1. /\ \A w, n : Match(w, n) => Match(w, n)'
      /\ hook' = hook /\ notice' = notice
  BY MatchStays
     DEF Next, vars, RegisterWebhook, Publish, Deliver, Receive, TimeOut, DeadLetter,
         SendNotification, Process, ReadWebhooks, Post, CountDelivery, Acknowledge, Crash
<1>2. ASSUME NEW j \in Jobs, Process(j) \/ Crash(j) PROVE TargetsMatch'
  BY <1>1, <1>2, TargetStep, JobStep DEF TargetsMatch
<1>3. ASSUME work' = work, \A j \in Jobs : pc'[j] = pc[j] \/ pc'[j] = "read"
      PROVE  TargetsMatch'
  BY <1>1, <1>3 DEF TargetsMatch, Posting
<1>4. ASSUME NEW j \in Jobs, Post(j) PROVE TenantIsolation'
  <2>1. Match(work[j].target, Notice(j))
    BY <1>4 DEF Post, TargetsMatch, Posting
  <2>2. \A w \in Webhooks : \A n \in posted'[w] :
          n \in posted[w] \/ (w = work[j].target /\ n = Notice(j))
    BY <1>4 DEF Post, TypeOK
  <2> QED
    BY <1>1, <2>1, <2>2 DEF TenantIsolation, Match
<1>5. ASSUME posted' = posted PROVE TenantIsolation'
  BY <1>1, <1>5 DEF TenantIsolation
<1>6. ASSUME NEW m \in Messages, Publish(m) \/ Deliver(m)
      PROVE  work' = work /\ posted' = posted /\ \A j \in Jobs : pc'[j] = pc[j] \/ pc'[j] = "read"
  BY <1>6 DEF Publish, Deliver, Receive, TimeOut, DeadLetter, Goto, TypeOK
<1>7. ASSUME NEW c \in Calls, SendNotification(c)
      PROVE  work' = work /\ posted' = posted /\ \A j \in Jobs : pc'[j] = pc[j] \/ pc'[j] = "read"
  BY <1>7 DEF SendNotification, Goto, TypeOK
<1>8. ASSUME NEW j \in Jobs,
             Crash(j) \/ ReadWebhooks(j) \/ CountDelivery(j) \/ Acknowledge(j)
      PROVE  posted' = posted
  BY <1>8 DEF Crash, ReadWebhooks, CountDelivery, Acknowledge
<1>9. ASSUME NEW w \in Webhooks, RegisterWebhook(w)
      PROVE  work' = work /\ posted' = posted /\ pc' = pc
  BY <1>9 DEF RegisterWebhook
<1>10. CASE UNCHANGED vars
  BY <1>3, <1>5, <1>10 DEF vars
<1> QED
  BY <1>2, <1>3, <1>4, <1>5, <1>6, <1>7, <1>8, <1>9, <1>10 DEF Next, Process

(* TenantsAreIsolated: no payload is ever posted to a URL of another       *)
(* tenant, or of one that did not subscribe to the event.                  *)
THEOREM TenantsAreIsolated == Spec => []TenantIsolation
<1>1. Init => TargetsMatch /\ TenantIsolation
  BY DEF Init, TargetsMatch, TenantIsolation, Posting
<1>2. TypeOK /\ TargetsMatch /\ TenantIsolation /\ [Next]_vars
        => TargetsMatch' /\ TenantIsolation'
  BY IsolationNext
<1> QED
  BY <1>1, <1>2, TypeInvariant, PTL DEF Spec
=============================================================================

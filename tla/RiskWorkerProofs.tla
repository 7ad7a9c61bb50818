-------------------------- MODULE RiskWorkerProofs --------------------------
(***************************************************************************)
(* Proofs about RiskWorker, for every value of its constants.              *)
(*                                                                         *)
(* The argument: what a delivery has behind it, it has done for good: a    *)
(* commit is never undone.  So a delivery that is about to publish or to   *)
(* delete finds the records of its own steps, whoever else interferes.     *)
(***************************************************************************)
EXTENDS RiskWorker, FiniteSetTheorems, TLAPS

AfterCommit == {"invalidate", "incr", "expire", "save", "trigger", "complete", "delete"}
AfterSave   == {"trigger", "complete", "delete"}

(* What a delivery has behind it is recorded. *)
BehindIsRecorded ==
  \A d \in Deliveries :
    /\ pc[d] \in AfterCommit => Counted(Transaction(d))
    /\ pc[d] \in AfterSave   => Transaction(d) \in results

Inv == BehindIsRecorded /\ AcknowledgedIsRecorded /\ PublishedIsRecorded

-----------------------------------------------------------------------------
LEMMA DeliveryType ==
  ASSUME TypeOK, NEW d \in Deliveries
  PROVE  /\ Message(d) \in Messages
         /\ Transaction(d) \in Transactions
         /\ Sender(d) \in Accounts
         /\ event[Transaction(d)].decision \in Decisions
  BY WorkerAssumption DEF TypeOK, Deliveries, Message, Transaction, Sender

LEMMA UpsertedType ==
  ASSUME NEW p \in Profiles, NEW decision \in Decisions
  PROVE  Upserted(p, decision) \in Profiles
  BY DEF Upserted, Profiles

LEMMA BlankType == \A b \in BOOLEAN : Blank(b) \in Profiles
  BY DEF Blank, Profiles

LEMMA CommitType ==
  ASSUME TypeOK, NEW d \in Deliveries, NEW p \in Profiles, CommitProfile(d, p)
  PROVE  /\ profile' \in [Accounts -> Profiles]
         /\ commits' \in SUBSET Deliveries
         /\ Counted(Transaction(d))'
         /\ \A t \in Transactions : Counted(t) => Counted(t)'
<1>1. Sender(d) \in Accounts /\ event[Transaction(d)].decision \in Decisions
  BY DeliveryType
<1>2. Upserted(p, event[Transaction(d)].decision) \in Profiles
  BY <1>1, UpsertedType
<1>3. profile' \in [Accounts -> Profiles]
  BY <1>1, <1>2 DEF CommitProfile, TypeOK
<1>4. commits' = commits \cup {d}
  BY DEF CommitProfile
<1> QED
  BY <1>3, <1>4 DEF TypeOK, Counted, Transaction, Message

LEMMA GotoType ==
  ASSUME TypeOK, NEW d, NEW step \in Steps \cup {"none", "done", "failed"}, Goto(d, step)
  PROVE  pc' \in [Deliveries -> Steps \cup {"none", "done", "failed"}]
  BY DEF TypeOK, Goto

LEMMA QueueStepType ==
  ASSUME QueueTypeOK, NEW m \in Messages,
         Send(m) \/ HandOut(m) \/ Reappear(m) \/ Redrive(m) \/ \E n : Remove(m, n)
  PROVE  QueueTypeOK'
  BY QueueAssumption
     DEF QueueTypeOK, Send, HandOut, Reappear, Redrive, Remove, Places

-----------------------------------------------------------------------------
(* A step of a delivery. *)
LEMMA ProcessType ==
  ASSUME TypeOK, NEW d \in Deliveries, Process(d) \/ Crash(d)
  PROVE  TypeOK'
<1> USE DEF redis, outbox, queue
<1>0. /\ Message(d) \in Messages /\ Transaction(d) \in Transactions /\ Sender(d) \in Accounts
      /\ profile[Sender(d)] \in Profiles
  BY DeliveryType DEF TypeOK
<1>p. pc' \in [Deliveries -> Steps \cup {"none", "done", "failed"}]
  <2>1. \E step \in Steps \cup {"none", "done", "failed"} : Goto(d, step)
    BY DEF Process, Crash, SelectProfile, CreateProfile, InvalidateCache, CountFailed,
           SetExpiry, SaveResult, SendTrigger, SendCompletion, Acknowledge, Fail, Steps
  <2> QED
    BY <2>1, GotoType
<1>1. CASE SelectProfile(d)
  <2>1. PICK p \in Profiles : p = profile[Sender(d)]
    BY <1>0
  <2>2. profile' \in [Accounts -> Profiles] /\ commits' \in SUBSET Deliveries
    BY <1>1, <2>1, CommitType DEF SelectProfile, CommitProfile, TypeOK
  <2> QED
    BY <1>1, <1>p, <2>2 DEF SelectProfile, TypeOK, QueueTypeOK
<1>2. CASE CreateProfile(d)
  <2>1. profile' \in [Accounts -> Profiles] /\ commits' \in SUBSET Deliveries
    BY <1>0, <1>2, CommitType, BlankType DEF CreateProfile, TypeOK
  <2> QED
    BY <1>2, <1>p, <2>1 DEF CreateProfile, TypeOK, QueueTypeOK
<1>3. CASE InvalidateCache(d)
  BY <1>3, <1>p DEF InvalidateCache, TypeOK, QueueTypeOK, WithoutEntry
<1>4. CASE CountFailed(d)
  BY <1>0, <1>4, <1>p DEF CountFailed, TypeOK, QueueTypeOK
<1>5. CASE SetExpiry(d)
  BY <1>0, <1>5, <1>p DEF SetExpiry, TypeOK, QueueTypeOK
<1>6. CASE SaveResult(d)
  BY <1>0, <1>6, <1>p DEF SaveResult, TypeOK, QueueTypeOK
<1>7. CASE SendTrigger(d)
  BY <1>0, <1>7, <1>p DEF SendTrigger, TypeOK, QueueTypeOK
<1>8. CASE SendCompletion(d)
  BY <1>0, <1>8, <1>p DEF SendCompletion, TypeOK, QueueTypeOK
<1>9. CASE Acknowledge(d)
  <2>1. QueueTypeOK'
    BY <1>0, <1>9, QueueStepType DEF Acknowledge, TypeOK, QueueTypeOK
  <2> QED
    BY <1>9, <1>p, <2>1 DEF Acknowledge, TypeOK
<1>10. CASE Crash(d)
  BY <1>10, <1>p DEF Crash, TypeOK, QueueTypeOK
<1> QED
  BY <1>1, <1>2, <1>3, <1>4, <1>5, <1>6, <1>7, <1>8, <1>9, <1>10 DEF Process

LEMMA QueueType ==
  ASSUME TypeOK, NEW m \in Messages, Publish(m) \/ Deliver(m)
  PROVE  TypeOK'
<1> USE DEF redis, outbox
<1>1. QueueTypeOK'
  BY QueueStepType DEF TypeOK, Publish, Deliver, Receive, TimeOut, DeadLetter
<1>2. pc' \in [Deliveries -> Steps \cup {"none", "done", "failed"}]
  BY GotoType DEF TypeOK, Publish, Deliver, Receive, TimeOut, DeadLetter, Steps
<1> QED
  BY <1>1, <1>2 DEF TypeOK, Publish, Deliver, Receive, TimeOut, DeadLetter

LEMMA LoadType ==
  ASSUME TypeOK, NEW e \in Evaluations, Evaluate(e)
  PROVE  TypeOK'
<1> USE DEF redis, outbox, queue, QueueTypeOK
<1>1. /\ load[e].account \in Accounts /\ load[e].read \in Profiles
      /\ profile[load[e].account] \in Profiles
      /\ \A c \in cache : c.profile \in Profiles
  BY DEF TypeOK
<1>2. ASSUME NEW step \in {"get", "create", "setex", "done"}, NEW p \in Profiles,
             At(e, step, p)
      PROVE  load' \in [Evaluations -> [at : {"get", "create", "setex", "done"},
                                        account : Accounts, read : Profiles]]
  BY ZenonT(60), <1>2 DEF At, TypeOK
<1>3. load' \in [Evaluations -> [at : {"get", "create", "setex", "done"},
                                 account : Accounts, read : Profiles]]
  BY <1>1, <1>2, BlankType DEF Evaluate, LoadProfile, CreateBlank, StoreEntry
<1>4. CASE LoadProfile(e)
  BY <1>3, <1>4 DEF LoadProfile, TypeOK
<1>5. CASE CreateBlank(e)
  <2>1. Blank(TRUE) \in Profiles
    BY BlankType
  <2>2. profile' \in [Accounts -> Profiles]
    BY <1>1, <1>5, <2>1 DEF CreateBlank, TypeOK
  <2> QED
    BY <1>3, <1>5, <2>2 DEF CreateBlank, TypeOK
<1>6. CASE StoreEntry(e)
  <2>1. [account |-> load[e].account, profile |-> load[e].read]
          \in [account : Accounts, profile : Profiles]
    BY <1>1
  <2> QED
    BY <1>3, <1>6, <2>1 DEF StoreEntry, WithoutEntry, TypeOK
<1> QED
  BY <1>4, <1>5, <1>6 DEF Evaluate

LEMMA TypeNext == TypeOK /\ [Next]_vars => TypeOK'
<1> SUFFICES ASSUME TypeOK, [Next]_vars PROVE TypeOK'
  OBVIOUS
<1>1. ASSUME NEW a \in Accounts, ExpireEntry(a) \/ ExpireCounter(a) PROVE TypeOK'
  BY <1>1 DEF ExpireEntry, ExpireCounter, WithoutEntry, TypeOK, QueueTypeOK, queue, outbox
<1>2. CASE UNCHANGED vars
  BY <1>2 DEF vars, TypeOK, QueueTypeOK, queue, outbox, redis
<1> QED
  BY <1>1, <1>2, ProcessType, QueueType, LoadType DEF Next

LEMMA TypeInit == Init => TypeOK
<1> SUFFICES ASSUME Init PROVE TypeOK
  OBVIOUS
<1>1. Blank(FALSE) \in Profiles
  BY BlankType
<1>2. QueueTypeOK
  BY QueueAssumption DEF Init, QueueInit, QueueTypeOK, Places
<1>3. load \in [Evaluations -> [at : {"get", "create", "setex", "done"},
                                account : Accounts, read : Profiles]]
  BY <1>1 DEF Init
<1> QED
  BY <1>1, <1>2, <1>3 DEF Init, TypeOK

(* TypeInvariant: the state stays in its sets, and no message is handed    *)
(* out more often than the redrive policy allows.                          *)
THEOREM TypeInvariant == Spec => []TypeOK
  BY TypeInit, TypeNext, PTL DEF Spec

-----------------------------------------------------------------------------
(* The step of a delivery that leaves what is recorded as it is, and may   *)
(* only move within, or out of, what the delivery has behind it.           *)
LEMMA MoveKeepsInv ==
  ASSUME TypeOK, Inv, NEW d \in Deliveries, NEW step, Goto(d, step),
         step \in AfterCommit => pc[d] \in AfterCommit,
         step \in AfterSave => pc[d] \in AfterSave,
         UNCHANGED <<event, place, commits, results, triggers, completions>>
  PROVE  Inv'
<1>1. /\ \A e \in Deliveries : e # d => pc'[e] = pc[e]
      /\ pc'[d] = step
  BY DEF Goto, TypeOK
<1>2. BehindIsRecorded'
  BY <1>1 DEF Inv, Counted, BehindIsRecorded, Transaction, Message
<1> QED
  BY <1>2 DEF Inv, Counted, AcknowledgedIsRecorded, PublishedIsRecorded

(* The commit of a profile. *)
LEMMA CommitKeepsInv ==
  ASSUME TypeOK, Inv, NEW d \in Deliveries, NEW p \in Profiles, CommitProfile(d, p),
         Goto(d, "invalidate") \/ Goto(d, "failed"),
         UNCHANGED <<event, place, results, triggers, completions>>
  PROVE  Inv'
<1>1. /\ \A e \in Deliveries : e # d => pc'[e] = pc[e]
      /\ pc'[d] \in {"invalidate", "failed"}
  BY DEF Goto, TypeOK
<1>2. /\ Counted(Transaction(d))'
      /\ \A t \in Transactions : Counted(t) => Counted(t)'
  BY CommitType
<1>3. BehindIsRecorded'
  <2>1. \A e \in Deliveries : Transaction(e) \in Transactions
    BY DeliveryType
  <2> QED
    BY <1>1, <1>2, <2>1
       DEF Inv, BehindIsRecorded, Transaction, Message, AfterCommit, AfterSave
<1>4. AcknowledgedIsRecorded'
  <2>1. \A m \in Messages : m[1] \in Transactions
    BY WorkerAssumption
  <2> QED
    BY <1>2, <2>1 DEF Inv, AcknowledgedIsRecorded
<1> QED
  BY <1>3, <1>4 DEF Inv, PublishedIsRecorded

(* The save of a result. *)
LEMMA SaveKeepsInv ==
  ASSUME TypeOK, Inv, NEW d \in Deliveries, pc[d] = "save",
         results' = results \cup {Transaction(d)},
         Goto(d, "trigger") \/ Goto(d, "complete") \/ Goto(d, "failed"),
         UNCHANGED <<event, place, commits, triggers, completions>>
  PROVE  Inv'
<1>1. /\ \A e \in Deliveries : e # d => pc'[e] = pc[e]
      /\ pc'[d] \in {"trigger", "complete", "failed"}
  BY DEF Goto, TypeOK
<1>2. BehindIsRecorded'
  BY <1>1 DEF Inv, Counted, BehindIsRecorded, Transaction, Message, AfterCommit, AfterSave
<1> QED
  BY <1>2 DEF Inv, Counted, AcknowledgedIsRecorded, PublishedIsRecorded

(* The publication of a transaction whose result is saved. *)
LEMMA PublishKeepsInv ==
  ASSUME TypeOK, Inv, NEW d \in Deliveries, SendTrigger(d) \/ SendCompletion(d)
  PROVE  Inv'
<1>1. /\ pc[d] \in AfterSave
      /\ \A e \in Deliveries : e # d => pc'[e] = pc[e]
      /\ pc'[d] \in {"complete", "delete"}
      /\ UNCHANGED <<event, place, commits, results>>
  BY DEF SendTrigger, SendCompletion, Goto, TypeOK, AfterSave, queue
<1>2. /\ Transaction(d) \in results
      /\ Counted(Transaction(d))
  BY <1>1 DEF Inv, BehindIsRecorded, AfterCommit, AfterSave
<1>3. BehindIsRecorded'
  BY <1>1, <1>2 DEF Inv, Counted, BehindIsRecorded, Transaction, Message, AfterCommit, AfterSave
<1>4. PublishedIsRecorded'
  <2>1. \A t \in Transactions \ {Transaction(d)} :
          triggers'[t] = triggers[t] /\ completions'[t] = completions[t]
    BY DEF SendTrigger, SendCompletion, TypeOK
  <2> QED
    BY <1>1, <1>2, <2>1 DEF Inv, PublishedIsRecorded
<1> QED
  BY <1>1, <1>3, <1>4 DEF Inv, Counted, AcknowledgedIsRecorded

(* The deletion of a message whose work is done. *)
LEMMA AcknowledgeKeepsInv ==
  ASSUME TypeOK, Inv, NEW d \in Deliveries, Acknowledge(d)
  PROVE  Inv'
<1>1. /\ pc[d] = "delete"
      /\ \A e \in Deliveries : e # d => pc'[e] = pc[e]
      /\ pc'[d] \in {"done", "failed"}
      /\ UNCHANGED <<event, commits, results, triggers, completions>>
  BY DEF Acknowledge, Fail, Goto, TypeOK, outbox
<1>2. Counted(Transaction(d)) /\ Transaction(d) \in results
  BY <1>1 DEF Inv, BehindIsRecorded, AfterCommit, AfterSave
<1>3. BehindIsRecorded'
  BY <1>1 DEF Inv, Counted, BehindIsRecorded, Transaction, Message, AfterCommit, AfterSave
<1>4. AcknowledgedIsRecorded'
  <2>1. \A m \in Messages : m # Message(d) => place'[m] = place[m]
    BY DEF Acknowledge, Remove, TypeOK, QueueTypeOK, queue
  <2> QED
    BY <1>1, <1>2, <2>1 DEF Inv, Counted, AcknowledgedIsRecorded, Transaction
<1> QED
  BY <1>1, <1>3, <1>4 DEF Inv, PublishedIsRecorded

(* The queue hands a message out, or moves it, but never deletes it. *)
LEMMA QueueKeepsInv ==
  ASSUME TypeOK, Inv, NEW m \in Messages, Publish(m) \/ Deliver(m)
  PROVE  Inv'
<1>1. /\ \A n \in Messages : place'[n] = "deleted" => place[n] = "deleted"
      /\ \A d \in Deliveries : pc'[d] \in AfterCommit => pc'[d] = pc[d]
      /\ UNCHANGED <<event, commits, results, triggers, completions>>
  BY DEF Publish, Deliver, Receive, TimeOut, DeadLetter, Send, HandOut, Reappear, Redrive,
         Goto, TypeOK, QueueTypeOK, outbox, AfterCommit
<1> QED
  BY <1>1 DEF Inv, Counted, BehindIsRecorded, AcknowledgedIsRecorded, PublishedIsRecorded,
              Transaction, Message, AfterCommit, AfterSave

LEMMA InvNext == TypeOK /\ Inv /\ [Next]_vars => Inv'
<1> SUFFICES ASSUME TypeOK, Inv, [Next]_vars PROVE Inv'
  OBVIOUS
<1> USE DEF AfterCommit, AfterSave
<1>1. ASSUME NEW d \in Deliveries, SelectProfile(d) PROVE Inv'
  <2>1. PICK p \in Profiles : p = profile[Sender(d)]
    BY DeliveryType DEF TypeOK
  <2>2. CASE CommitProfile(d, p) /\ (Goto(d, "invalidate") \/ Fail(d, "db"))
    BY <1>1, <2>2, CommitKeepsInv DEF SelectProfile, Fail, queue, outbox
  <2>3. CASE commits' = commits /\ (Goto(d, "create") \/ Goto(d, "failed"))
    BY <1>1, <2>3, MoveKeepsInv DEF SelectProfile, queue, outbox
  <2> QED
    BY <1>1, <2>1, <2>2, <2>3 DEF SelectProfile, Fail, CommitProfile
<1>2. ASSUME NEW d \in Deliveries, CreateProfile(d) PROVE Inv'
  <2>1. CASE CommitProfile(d, Blank(FALSE))
    BY <1>2, <2>1, BlankType, CommitKeepsInv DEF CreateProfile, Fail, queue, outbox
  <2>2. CASE commits' = commits /\ Goto(d, "failed")
    BY <1>2, <2>2, MoveKeepsInv DEF CreateProfile, queue, outbox
  <2> QED
    BY <1>2, <2>1, <2>2 DEF CreateProfile, Fail
<1>3. ASSUME NEW d \in Deliveries,
             InvalidateCache(d) \/ CountFailed(d) \/ SetExpiry(d) \/ Crash(d)
      PROVE  Inv'
  BY <1>3, MoveKeepsInv
     DEF InvalidateCache, CountFailed, SetExpiry, Crash, Fail, queue, outbox
<1>4. ASSUME NEW d \in Deliveries, SaveResult(d) PROVE Inv'
  <2>1. CASE results' = results \cup {Transaction(d)}
    BY <1>4, <2>1, SaveKeepsInv DEF SaveResult, Fail, queue, outbox
  <2>2. CASE results' = results /\ Goto(d, "failed")
    BY <1>4, <2>2, MoveKeepsInv DEF SaveResult, queue, outbox
  <2> QED
    BY <1>4, <2>1, <2>2 DEF SaveResult, Fail
<1>5. ASSUME UNCHANGED <<event, place, pc, commits, results, triggers, completions>>
      PROVE  Inv'
  BY <1>5 DEF Inv, Counted, BehindIsRecorded, AcknowledgedIsRecorded, PublishedIsRecorded,
              Transaction, Message
<1>6. ASSUME NEW e \in Evaluations, Evaluate(e) PROVE Inv'
  BY <1>5, <1>6 DEF Evaluate, LoadProfile, CreateBlank, StoreEntry, queue, outbox
<1>7. ASSUME NEW a \in Accounts, ExpireEntry(a) \/ ExpireCounter(a) PROVE Inv'
  BY <1>5, <1>7 DEF ExpireEntry, ExpireCounter, queue, outbox
<1>8. CASE UNCHANGED vars
  BY <1>5, <1>8 DEF vars, queue, outbox
<1> QED
  BY <1>1, <1>2, <1>3, <1>4, <1>6, <1>7, <1>8, PublishKeepsInv, AcknowledgeKeepsInv,
     QueueKeepsInv DEF Next, Process

LEMMA InvInit == Init => Inv
  BY WorkerAssumption
     DEF Init, QueueInit, Inv, BehindIsRecorded, AcknowledgedIsRecorded,
         PublishedIsRecorded, AfterCommit, AfterSave

LEMMA Invariance == Spec => []Inv
  BY TypeInit, TypeNext, InvInit, InvNext, PTL DEF Spec

(* NoAcknowledgedWorkLost: a message is deleted only when its transaction  *)
(* is counted in the profile and its risk result is saved, whatever        *)
(* crashes, fails, overlaps or is delivered again, for any number of       *)
(* messages, workers and redeliveries.                                     *)
THEOREM NoAcknowledgedWorkLost == Spec => []AcknowledgedIsRecorded
  BY Invariance, PTL DEF Inv

(* NothingPublishedUnrecorded: no trigger and no RiskCompleted event runs  *)
(* ahead of the risk result it speaks of.                                  *)
THEOREM NothingPublishedUnrecorded == Spec => []PublishedIsRecorded
  BY Invariance, PTL DEF Inv

-----------------------------------------------------------------------------
(* The counters.  A delivery commits its profile update once: it passes    *)
(* its SELECT once, and it does not start before its receipt.              *)
Receipts ==
  \A d \in Deliveries :
    /\ d[2] > received[Message(d)] => pc[d] = "none"
    /\ d \in commits => pc[d] \notin {"none", "select", "create"}

(* The counters are the commits, and an account without a row has none.    *)
Tallied ==
  /\ IsFiniteSet(commits)
  /\ NoLostUpdate
  /\ \A a \in Accounts : ~profile[a].exists => profile[a].total = 0 /\ profile[a].blocked = 0

LEMMA ReceiptsNext ==
  ASSUME TypeOK, Receipts, [Next]_vars
  PROVE  Receipts'
<1>1. ASSUME NEW d \in Deliveries, Process(d) \/ Crash(d) PROVE Receipts'
  <2>1. /\ \A e \in Deliveries : e # d => pc'[e] = pc[e]
        /\ pc[d] \in Steps
        /\ pc'[d] \notin {"none", "select"}
        /\ pc'[d] = "create" => pc[d] = "select" /\ commits' = commits
        /\ commits' \subseteq commits \cup {d}
        /\ commits' # commits => pc'[d] # "create"
        /\ received' = received
    BY <1>1 DEF Process, Crash, SelectProfile, CreateProfile, InvalidateCache, CountFailed,
                SetExpiry, SaveResult, SendTrigger, SendCompletion, Acknowledge, Fail,
                Goto, CommitProfile, Remove, TypeOK, Steps, queue, outbox, redis
  <2> QED
    BY <2>1 DEF Receipts, Message, Steps
<1>2. ASSUME NEW m \in Messages, Receive(m) PROVE Receipts'
  <2> DEFINE n == received[m] + 1
  <2>1. /\ n \in 1 .. MaxReceives
        /\ received' = [received EXCEPT ![m] = n]
        /\ pc' = [pc EXCEPT ![<<m, n>>] = "select"]
        /\ commits' = commits
    BY <1>2, QueueAssumption DEF Receive, HandOut, Goto, TypeOK, QueueTypeOK
  <2>2. <<m, n>> \in Deliveries
    BY <2>1 DEF Deliveries
  <2>3. pc[<<m, n>>] = "none" /\ <<m, n>> \notin commits
    BY <2>1, <2>2 DEF Receipts, Message, TypeOK, QueueTypeOK
  <2>4. \A d \in Deliveries : Message(d) = m /\ d[2] = n => d = <<m, n>>
    BY DEF Deliveries, Message
  <2> QED
    <3> SUFFICES ASSUME NEW d \in Deliveries
                 PROVE  /\ d[2] > received'[Message(d)] => pc'[d] = "none"
                        /\ d \in commits' => pc'[d] \notin {"none", "select", "create"}
      BY DEF Receipts, Message
    <3>1. d[2] \in Nat /\ Message(d) \in Messages /\ received[Message(d)] \in Nat /\ received[m] \in Nat
      BY DEF Deliveries, Message, TypeOK, QueueTypeOK
    <3>2. CASE d = <<m, n>>
      BY <2>1, <2>3, <3>1, <3>2 DEF TypeOK, QueueTypeOK, Message
    <3>3. CASE d # <<m, n>>
      <4>1. pc'[d] = pc[d]
        BY <2>1, <3>3 DEF TypeOK
      <4>2. d[2] > received'[Message(d)] => d[2] > received[Message(d)]
        BY <2>1, <3>1 DEF TypeOK, QueueTypeOK
      <4> QED
        BY <2>1, <4>1, <4>2 DEF Receipts
    <3> QED
      BY <3>2, <3>3
<1>3. ASSUME UNCHANGED <<received, pc, commits>> PROVE Receipts'
  BY <1>3 DEF Receipts
<1>4. ASSUME NEW m \in Messages, Publish(m) \/ TimeOut(m) \/ DeadLetter(m) PROVE Receipts'
  BY <1>3, <1>4 DEF Publish, TimeOut, DeadLetter, Send, Reappear, Redrive
<1>5. ASSUME NEW e \in Evaluations, Evaluate(e) PROVE Receipts'
  BY <1>3, <1>5 DEF Evaluate, LoadProfile, CreateBlank, StoreEntry, queue
<1>6. ASSUME NEW a \in Accounts, ExpireEntry(a) \/ ExpireCounter(a) PROVE Receipts'
  BY <1>3, <1>6 DEF ExpireEntry, ExpireCounter, queue
<1>7. CASE UNCHANGED vars
  BY <1>3, <1>7 DEF vars, queue
<1> QED
  BY <1>1, <1>2, <1>4, <1>5, <1>6, <1>7 DEF Next, Deliver

(* A commit that starts from the account's counters adds itself to them.   *)
LEMMA CommitTallies ==
  ASSUME TypeOK, Tallied, NEW d \in Deliveries, d \notin commits,
         NEW p \in Profiles, CommitProfile(d, p), event' = event,
         p.total = profile[Sender(d)].total, p.blocked = profile[Sender(d)].blocked
  PROVE  Tallied'
<1> DEFINE b == Sender(d)
           blocks == event[Transaction(d)].decision = "BLOCK"
<1>1. b \in Accounts /\ p.total \in Nat /\ p.blocked \in Nat
  BY DeliveryType DEF Profiles
<1>2. /\ commits' = commits \cup {d}
      /\ \A a \in Accounts : a # b => profile'[a] = profile[a]
      /\ profile'[b].exists
      /\ profile'[b].total = p.total + 1
      /\ profile'[b].blocked = p.blocked + IF blocks THEN 1 ELSE 0
  BY <1>1 DEF CommitProfile, Upserted, TypeOK
<1>3. /\ \A a : CommitsOf(a)' = IF a = b THEN CommitsOf(a) \cup {d} ELSE CommitsOf(a)
      /\ \A a : BlockingCommitsOf(a)' =
           IF a = b /\ blocks THEN BlockingCommitsOf(a) \cup {d} ELSE BlockingCommitsOf(a)
  BY <1>2 DEF CommitsOf, BlockingCommitsOf, Sender, Transaction, Message
<1>4. IsFiniteSet(commits)' /\ IsFiniteSet(CommitsOf(b)) /\ IsFiniteSet(BlockingCommitsOf(b))
  <2>1. CommitsOf(b) \in SUBSET commits /\ BlockingCommitsOf(b) \in SUBSET commits
    BY DEF CommitsOf, BlockingCommitsOf
  <2> QED
    BY <1>2, <2>1, FS_AddElement, FS_Subset DEF Tallied
<1>5. d \notin CommitsOf(b) /\ d \notin BlockingCommitsOf(b)
  BY DEF CommitsOf, BlockingCommitsOf
<1>6. /\ Cardinality(CommitsOf(b) \cup {d}) = Cardinality(CommitsOf(b)) + 1
      /\ Cardinality(BlockingCommitsOf(b) \cup {d}) = Cardinality(BlockingCommitsOf(b)) + 1
  BY <1>4, <1>5, FS_AddElement
<1>7. p.total = Cardinality(CommitsOf(b)) /\ p.blocked = Cardinality(BlockingCommitsOf(b))
  BY <1>1 DEF Tallied, NoLostUpdate
<1> HIDE DEF b, blocks
<1>8. ASSUME NEW a \in Accounts
      PROVE  /\ profile'[a].total = Cardinality(CommitsOf(a)')
             /\ profile'[a].blocked = Cardinality(BlockingCommitsOf(a)')
             /\ ~profile'[a].exists => profile'[a].total = 0 /\ profile'[a].blocked = 0
  <2>1. CASE a = b
    <3>1. /\ profile'[a].total = Cardinality(CommitsOf(a)')
          /\ profile'[a].exists
      BY <1>2, <1>3, <1>6, <1>7, <2>1
    <3>2. CASE blocks
      BY <1>2, <1>3, <1>6, <1>7, <2>1, <3>1, <3>2
    <3>3. CASE ~blocks
      BY <1>1, <1>2, <1>3, <1>7, <2>1, <3>1, <3>3
    <3> QED
      BY <3>2, <3>3
  <2>2. CASE a # b
    BY <1>2, <1>3, <2>2 DEF Tallied, NoLostUpdate
  <2> QED
    BY <2>1, <2>2
<1> QED
  BY <1>4, <1>8 DEF Tallied, NoLostUpdate

LEMMA TalliedNext ==
  ASSUME TypeOK, Receipts, Tallied, [Next]_vars
  PROVE  Tallied'
<1> USE DEF queue, outbox, redis
<1>1. ASSUME UNCHANGED <<profile, commits, event>> PROVE Tallied'
  BY <1>1 DEF Tallied, NoLostUpdate, CommitsOf, BlockingCommitsOf, Sender, Transaction, Message
<1>2. ASSUME NEW d \in Deliveries, SelectProfile(d) PROVE Tallied'
  <2>1. profile[Sender(d)] \in Profiles /\ d \notin commits
    BY <1>2, DeliveryType DEF TypeOK, SelectProfile, Receipts
  <2>2. CASE CommitProfile(d, profile[Sender(d)])
    BY <1>2, <2>1, <2>2, CommitTallies DEF SelectProfile
  <2>3. CASE UNCHANGED <<profile, commits>>
    BY <1>1, <1>2, <2>3 DEF SelectProfile
  <2> QED
    BY <1>2, <2>2, <2>3 DEF SelectProfile
<1>3. ASSUME NEW d \in Deliveries, CreateProfile(d) PROVE Tallied'
  <2>1. Sender(d) \in Accounts /\ d \notin commits
    BY <1>3, DeliveryType DEF CreateProfile, Receipts
  <2>2. CASE ~profile[Sender(d)].exists /\ CommitProfile(d, Blank(FALSE))
    <3>1. Blank(FALSE) \in Profiles /\ Blank(FALSE).total = 0 /\ Blank(FALSE).blocked = 0
      BY DEF Blank, Profiles
    <3>2. profile[Sender(d)].total = 0 /\ profile[Sender(d)].blocked = 0
      BY <2>1, <2>2 DEF Tallied
    <3> QED
      BY <1>3, <2>1, <2>2, <3>1, <3>2, CommitTallies DEF CreateProfile
  <2>3. CASE UNCHANGED <<profile, commits>>
    BY <1>1, <1>3, <2>3 DEF CreateProfile
  <2> QED
    BY <1>3, <2>2, <2>3 DEF CreateProfile
<1>4. ASSUME NEW d \in Deliveries,
             \/ InvalidateCache(d) \/ CountFailed(d) \/ SetExpiry(d) \/ SaveResult(d)
             \/ SendTrigger(d) \/ SendCompletion(d) \/ Acknowledge(d) \/ Crash(d)
      PROVE  Tallied'
  BY <1>1, <1>4 DEF InvalidateCache, CountFailed, SetExpiry, SaveResult, SendTrigger,
                    SendCompletion, Acknowledge, Crash
<1>5. ASSUME NEW m \in Messages, Publish(m) \/ Deliver(m) PROVE Tallied'
  BY <1>1, <1>5 DEF Publish, Deliver, Receive, TimeOut, DeadLetter
<1>6. ASSUME NEW e \in Evaluations, CreateBlank(e) PROVE Tallied'
  <2> DEFINE b == load[e].account
  <2>1. CASE ~profile[b].exists /\ profile' = [profile EXCEPT ![b] = Blank(TRUE)]
    <3>1. b \in Accounts
      BY DEF TypeOK
    <3>2. profile[b].total = 0 /\ profile[b].blocked = 0
      BY <2>1, <3>1 DEF Tallied
    <3>3. \A a \in Accounts :
            /\ profile'[a].total = profile[a].total
            /\ profile'[a].blocked = profile[a].blocked
            /\ ~profile'[a].exists => ~profile[a].exists
      BY <2>1, <3>1, <3>2 DEF Blank, TypeOK
    <3>4. \A a : CommitsOf(a)' = CommitsOf(a) /\ BlockingCommitsOf(a)' = BlockingCommitsOf(a)
      BY <1>6 DEF CreateBlank, CommitsOf, BlockingCommitsOf, Sender, Transaction, Message
    <3>5. commits' = commits
      BY <1>6 DEF CreateBlank
    <3> QED
      BY <3>3, <3>4, <3>5 DEF Tallied, NoLostUpdate
  <2>2. CASE UNCHANGED profile
    BY <1>1, <1>6, <2>2 DEF CreateBlank
  <2> QED
    BY <1>6, <2>1, <2>2 DEF CreateBlank
<1>7. ASSUME NEW e \in Evaluations, LoadProfile(e) \/ StoreEntry(e) PROVE Tallied'
  BY <1>1, <1>7 DEF LoadProfile, StoreEntry
<1>8. ASSUME NEW a \in Accounts, ExpireEntry(a) \/ ExpireCounter(a) PROVE Tallied'
  BY <1>1, <1>8 DEF ExpireEntry, ExpireCounter
<1>9. CASE UNCHANGED vars
  BY <1>1, <1>9 DEF vars
<1> QED
  BY <1>2, <1>3, <1>4, <1>5, <1>6, <1>7, <1>8, <1>9 DEF Next, Process, Evaluate

LEMMA TalliedInit == Init => Receipts /\ Tallied
<1> SUFFICES ASSUME Init PROVE Receipts /\ Tallied
  OBVIOUS
<1>1. Receipts
  BY DEF Init, Receipts
<1>2. \A a : CommitsOf(a) = {} /\ BlockingCommitsOf(a) = {}
  BY DEF Init, CommitsOf, BlockingCommitsOf
<1>3. \A a \in Accounts : profile[a].total = 0 /\ profile[a].blocked = 0
  BY DEF Init, Blank
<1>4. commits = {}
  BY DEF Init
<1> QED
  BY <1>1, <1>2, <1>3, <1>4, FS_EmptySet DEF Tallied, NoLostUpdate

(* EveryUpdateCounts: for any number of deliveries and evaluations that    *)
(* meet on an account, redelivered, overlapping or crashed, its counters   *)
(* are the number of updates committed for it: none overwrites another.    *)
THEOREM EveryUpdateCounts == Spec => []NoLostUpdate
<1>1. Init => TypeOK /\ Receipts /\ Tallied
  BY TypeInit, TalliedInit
<1>2. TypeOK /\ Receipts /\ Tallied /\ [Next]_vars => (TypeOK /\ Receipts /\ Tallied)'
  BY TypeNext, ReceiptsNext, TalliedNext
<1>3. Tallied => NoLostUpdate
  BY DEF Tallied
<1> QED
  BY <1>1, <1>2, <1>3, PTL DEF Spec

-----------------------------------------------------------------------------
(* The guarantees of an instance in which nothing but Redis fails.         *)

(* Nothing outlives its timeout, and no committed update is followed by a  *)
(* failure of its delivery.                                                *)
Undisturbed == Faults \cap {"db", "sqs", "crash", "slow"} = {}

(* A transaction's event is in the queue once. *)
SingleEvents == \A m, n \in Messages : m[1] = n[1] => m = n

(* A delivery at work is the latest receipt of a message that nobody else  *)
(* can receive, and one that committed is at work or has deleted it.       *)
Steady ==
  \A d \in Deliveries :
    /\ pc[d] \in Steps => d[2] = received[Message(d)] /\ place[Message(d)] = "inFlight"
    /\ pc[d] = "done"  => d[2] = received[Message(d)] /\ place[Message(d)] = "deleted"
    /\ d \in commits   => pc[d] \in AfterCommit \cup {"done"}

LEMMA SteadyNext ==
  ASSUME TypeOK, Receipts, Steady, Undisturbed, [Next]_vars
  PROVE  Steady'
<1> USE DEF Undisturbed
<1>1. ASSUME NEW d \in Deliveries, Process(d), ~Acknowledge(d) PROVE Steady'
  <2>1. /\ \A e \in Deliveries : e # d => pc'[e] = pc[e]
        /\ pc[d] \in Steps
        /\ pc'[d] \in Steps \cup {"failed"}
        /\ d \in commits' => pc'[d] \in AfterCommit
        /\ commits' \subseteq commits \cup {d}
        /\ UNCHANGED <<received, place>>
    <3>1. CASE SelectProfile(d)
      BY <3>1 DEF SelectProfile, Fail, Receipts, Goto, CommitProfile, TypeOK, Steps,
                  AfterCommit, queue
    <3>2. CASE CreateProfile(d)
      BY <3>2 DEF CreateProfile, Fail, Receipts, Goto, CommitProfile, TypeOK, Steps,
                  AfterCommit, queue
    <3>3. CASE InvalidateCache(d) \/ CountFailed(d) \/ SetExpiry(d)
      BY <3>3 DEF InvalidateCache, CountFailed, SetExpiry, Goto, TypeOK, Steps,
                  AfterCommit, queue
    <3>4. CASE SaveResult(d) \/ SendTrigger(d) \/ SendCompletion(d)
      BY <3>4 DEF SaveResult, SendTrigger, SendCompletion, Fail, Goto, TypeOK, Steps,
                  AfterCommit, queue
    <3> QED
      BY <1>1, <3>1, <3>2, <3>3, <3>4 DEF Process
  <2> QED
    BY <2>1 DEF Steady, Message, Steps
<1>2. ASSUME NEW d \in Deliveries, Acknowledge(d) PROVE Steady'
  <2>1. /\ pc[d] = "delete" /\ pc'[d] = "done"
        /\ \A e \in Deliveries : e # d => pc'[e] = pc[e]
        /\ Remove(Message(d), d[2])
        /\ commits' = commits
    BY <1>2 DEF Acknowledge, Fail, Goto, TypeOK, Steps
  <2>2. d[2] = received[Message(d)] /\ place[Message(d)] = "inFlight" /\ Message(d) \in Messages
    BY <2>1, DeliveryType DEF Steady, Steps
  <2>3. /\ place' = [place EXCEPT ![Message(d)] = "deleted"]
        /\ received' = received
    BY <2>1, <2>2 DEF Remove
  <2>4. ASSUME NEW e \in Deliveries, e # d, Message(e) = Message(d)
        PROVE  pc[e] \notin Steps \cup {"done"} /\ e \notin commits
    <3>1. e[2] # d[2]
      BY <2>4 DEF Deliveries, Message
    <3> QED
      BY <2>2, <2>4, <3>1 DEF Steady, AfterCommit, Steps
  <2> QED
    <3> SUFFICES ASSUME NEW e \in Deliveries
                 PROVE  /\ pc'[e] \in Steps => e[2] = received'[Message(e)] /\ place'[Message(e)] = "inFlight"
                        /\ pc'[e] = "done"  => e[2] = received'[Message(e)] /\ place'[Message(e)] = "deleted"
                        /\ e \in commits'   => pc'[e] \in AfterCommit \cup {"done"}
      BY DEF Steady, Message
    <3>1. CASE e = d
      BY <2>1, <2>2, <2>3, <3>1 DEF TypeOK, QueueTypeOK, Steps
    <3>2. CASE e # d /\ Message(e) = Message(d)
      BY <2>1, <2>4, <3>2
    <3>3. CASE Message(e) # Message(d)
      <4>1. place'[Message(e)] = place[Message(e)] /\ received'[Message(e)] = received[Message(e)]
        BY <2>3, <3>3, DeliveryType DEF TypeOK, QueueTypeOK
      <4> QED
        BY <2>1, <3>3, <4>1 DEF Steady
    <3> QED
      BY <3>1, <3>2, <3>3
<1>3. ASSUME NEW m \in Messages, Receive(m) PROVE Steady'
  <2> DEFINE n == received[m] + 1
  <2>1. /\ place[m] = "visible"
        /\ n \in 1 .. MaxReceives
        /\ place' = [place EXCEPT ![m] = "inFlight"]
        /\ received' = [received EXCEPT ![m] = n]
        /\ pc' = [pc EXCEPT ![<<m, n>>] = "select"]
        /\ commits' = commits
    BY <1>3, QueueAssumption DEF Receive, HandOut, Goto, TypeOK, QueueTypeOK
  <2>2. \A d \in Deliveries : Message(d) = m => pc[d] \notin Steps \cup {"done"} /\ d \notin commits
    BY <2>1 DEF Steady, AfterCommit, Steps
  <2> SUFFICES ASSUME NEW d \in Deliveries
               PROVE  /\ pc'[d] \in Steps => d[2] = received'[Message(d)] /\ place'[Message(d)] = "inFlight"
                      /\ pc'[d] = "done"  => d[2] = received'[Message(d)] /\ place'[Message(d)] = "deleted"
                      /\ d \in commits'   => pc'[d] \in AfterCommit \cup {"done"}
    BY DEF Steady, Message
  <2>3. CASE d = <<m, n>>
    <3>1. Message(d) = m /\ d[2] = n
      BY <2>3 DEF Message
    <3>2. received'[m] = n /\ place'[m] = "inFlight" /\ pc'[d] = "select"
      BY <2>1, <2>3 DEF TypeOK, QueueTypeOK
    <3> QED
      BY <2>1, <2>2, <3>1, <3>2
  <2>4. CASE d # <<m, n>> /\ Message(d) = m
    BY <2>1, <2>2, <2>4 DEF TypeOK
  <2>5. CASE Message(d) # m
    <3>1. pc'[d] = pc[d]
      BY <2>1, <2>5 DEF Message, TypeOK
    <3>2. place'[Message(d)] = place[Message(d)] /\ received'[Message(d)] = received[Message(d)]
      BY <2>1, <2>5, DeliveryType DEF TypeOK, QueueTypeOK
    <3> QED
      BY <2>1, <3>1, <3>2 DEF Steady
  <2> QED
    BY <2>3, <2>4, <2>5
<1>4. ASSUME NEW m \in Messages, Publish(m) \/ TimeOut(m) \/ DeadLetter(m) PROVE Steady'
  <2>1. /\ UNCHANGED <<pc, received, commits>>
        /\ \A k \in Messages : k # m => place'[k] = place[k]
        /\ place[m] # "deleted"
        /\ place[m] = "inFlight" => pc[<<m, received[m]>>] \notin Steps
    BY <1>4 DEF Publish, TimeOut, DeadLetter, Send, Reappear, Redrive, TypeOK, QueueTypeOK
  <2>2. \A d \in Deliveries : Message(d) = m => pc[d] \notin Steps \cup {"done"}
    <3> SUFFICES ASSUME NEW d \in Deliveries, Message(d) = m, pc[d] \in Steps \cup {"done"}
                 PROVE  FALSE
      OBVIOUS
    <3>1. pc[d] \in Steps
      BY <2>1 DEF Steady
    <3>2. d[2] = received[m] /\ place[m] = "inFlight"
      BY <3>1 DEF Steady
    <3>3. d = <<m, received[m]>>
      BY <3>2 DEF Deliveries, Message
    <3> QED
      BY <2>1, <3>1, <3>2, <3>3
  <2> QED
    BY <2>1, <2>2, DeliveryType DEF Steady, Message
<1>5. ASSUME UNCHANGED <<place, received, pc, commits>> PROVE Steady'
  BY <1>5 DEF Steady, Message
<1>6. ASSUME NEW e \in Evaluations, Evaluate(e) PROVE Steady'
  BY <1>5, <1>6 DEF Evaluate, LoadProfile, CreateBlank, StoreEntry, queue
<1>7. ASSUME NEW a \in Accounts, ExpireEntry(a) \/ ExpireCounter(a) PROVE Steady'
  BY <1>5, <1>7 DEF ExpireEntry, ExpireCounter, queue
<1>8. ASSUME NEW d \in Deliveries, Crash(d) PROVE Steady'
  BY <1>8 DEF Crash, Fail
<1>9. CASE UNCHANGED vars
  BY <1>5, <1>9 DEF vars, queue
<1> QED
  BY <1>1, <1>2, <1>3, <1>4, <1>6, <1>7, <1>8, <1>9 DEF Next, Deliver

LEMMA SteadyInit == Init => Steady
  BY DEF Init, Steady, Steps

LEMMA SteadyCountsOnce ==
  ASSUME TypeOK, Steady, SingleEvents
  PROVE  CountedOnce
<1> SUFFICES ASSUME NEW d \in commits, NEW e \in commits, Transaction(d) = Transaction(e)
             PROVE  d = e
  BY DEF CountedOnce
<1>1. d \in Deliveries /\ e \in Deliveries
  BY DEF TypeOK
<1>2. Message(d) = Message(e)
  BY <1>1, DeliveryType DEF SingleEvents, Transaction
<1>3. d[2] = received[Message(d)] /\ e[2] = received[Message(e)]
  BY <1>1 DEF Steady, AfterCommit, Steps
<1> QED
  BY <1>1, <1>2, <1>3 DEF Deliveries, Message

(* HealthyCountsOnce: if a transaction's event is sent once, no database   *)
(* session, send or delete fails, and no delivery crashes or outlives its  *)
(* timeout, a profile counts each transaction at most once, for any number *)
(* of transactions of an account and with Redis failing: the race for a    *)
(* new account's row fails a delivery, but only before it counted.         *)
THEOREM HealthyCountsOnce ==
  ASSUME Undisturbed, SingleEvents
  PROVE  Spec => []CountedOnce
<1>1. Init => TypeOK /\ Receipts /\ Steady
  BY TypeInit, TalliedInit, SteadyInit
<1>2. TypeOK /\ Receipts /\ Steady /\ [Next]_vars => (TypeOK /\ Receipts /\ Steady)'
  BY TypeNext, ReceiptsNext, SteadyNext
<1>3. TypeOK /\ Steady => CountedOnce
  BY SteadyCountsOnce
<1> QED
  BY <1>1, <1>2, <1>3, PTL DEF Spec

-----------------------------------------------------------------------------
(* What a delivery at its last steps has sent, if sends do not fail. *)
SentBehind ==
  \A d \in Deliveries :
    /\ pc[d] \in {"complete", "delete"} /\ Risky(d) => triggers[Transaction(d)] > 0
    /\ pc[d] = "delete" => completions[Transaction(d)] > 0

LEMMA SentNext ==
  ASSUME TypeOK, SentBehind, DeletedAfterEverything, "sqs" \notin Faults, [Next]_vars
  PROVE  SentBehind' /\ DeletedAfterEverything'
<1> USE DEF queue, outbox, redis
<1>0. \A m \in Messages : m[1] \in Transactions
  BY WorkerAssumption
<1>1. ASSUME NEW d \in Deliveries, SendTrigger(d) \/ SendCompletion(d)
      PROVE  SentBehind' /\ DeletedAfterEverything'
  <2>1. Transaction(d) \in Transactions
    BY DeliveryType
  <2>2. /\ \A e \in Deliveries : e # d => pc'[e] = pc[e]
        /\ pc'[d] = IF SendTrigger(d) THEN "complete" ELSE "delete"
        /\ pc[d] \in {"trigger", "complete"}
        /\ pc[d] = IF SendTrigger(d) THEN "trigger" ELSE "complete"
        /\ UNCHANGED <<place, event>>
    BY <1>1 DEF SendTrigger, SendCompletion, Goto, TypeOK
  <2>3. /\ \A t \in Transactions : triggers'[t] >= triggers[t] /\ completions'[t] >= completions[t]
        /\ triggers \in [Transactions -> Nat] /\ triggers' \in [Transactions -> Nat]
        /\ completions \in [Transactions -> Nat] /\ completions' \in [Transactions -> Nat]
        /\ SendTrigger(d) => triggers'[Transaction(d)] > 0
        /\ ~SendTrigger(d) => completions'[Transaction(d)] > 0 /\ triggers' = triggers
    <3>1. CASE SendTrigger(d)
      <4>1. triggers' = [triggers EXCEPT ![Transaction(d)] = @ + 1] /\ completions' = completions
        BY <3>1 DEF SendTrigger
      <4> QED
        BY <2>1, <3>1, <4>1 DEF TypeOK
    <3>2. CASE SendCompletion(d)
      <4>1. completions' = [completions EXCEPT ![Transaction(d)] = @ + 1] /\ triggers' = triggers
        BY <3>2 DEF SendCompletion
      <4>2. ~SendTrigger(d)
        BY <3>2 DEF SendTrigger, SendCompletion
      <4> QED
        BY <2>1, <4>1, <4>2 DEF TypeOK
    <3> QED
      BY <1>1, <3>1, <3>2
  <2>4. \A e \in Deliveries : Transaction(e) \in Transactions /\ (Risky(e)' <=> Risky(e))
    BY <2>2, DeliveryType DEF Risky, Transaction, Message
  <2>5. SentBehind'
    <3> SUFFICES ASSUME NEW e \in Deliveries
                 PROVE  /\ pc'[e] \in {"complete", "delete"} /\ Risky(e) => triggers'[Transaction(e)] > 0
                        /\ pc'[e] = "delete" => completions'[Transaction(e)] > 0
      BY <2>4 DEF SentBehind, Transaction, Message
    <3>1. CASE e = d
      BY <2>1, <2>2, <2>3, <3>1 DEF SentBehind
    <3>2. CASE e # d
      BY <2>2, <2>3, <2>4, <3>2 DEF SentBehind
    <3> QED
      BY <3>1, <3>2
  <2>6. DeletedAfterEverything'
    BY <1>0, <2>2, <2>3 DEF DeletedAfterEverything
  <2> QED
    BY <2>5, <2>6
<1>2. ASSUME NEW d \in Deliveries, Acknowledge(d)
      PROVE  SentBehind' /\ DeletedAfterEverything'
  <2>1. /\ pc[d] = "delete"
        /\ \A e \in Deliveries : e # d => pc'[e] = pc[e]
        /\ pc'[d] = "done"
        /\ Remove(Message(d), d[2])
        /\ UNCHANGED <<event, triggers, completions>>
    BY <1>2 DEF Acknowledge, Fail, Goto, TypeOK
  <2>2. SentBehind'
    BY <2>1 DEF SentBehind, Risky, Transaction, Message
  <2>3. /\ completions[Transaction(d)] > 0
        /\ event[Transaction(d)].decision # "APPROVE" => triggers[Transaction(d)] > 0
    BY <2>1, DeliveryType DEF SentBehind, Risky, Decisions
  <2>4. \A m \in Messages : m # Message(d) => place'[m] = place[m]
    BY <2>1 DEF Remove, TypeOK, QueueTypeOK
  <2> QED
    BY <2>1, <2>2, <2>3, <2>4 DEF DeletedAfterEverything, Transaction
<1>3. ASSUME \A m \in Messages : place'[m] = "deleted" => place[m] = "deleted",
             \A d \in Deliveries : pc'[d] = "delete" => pc[d] = "delete",
             \A d \in Deliveries : pc'[d] = "complete" /\ Risky(d) => pc[d] = "complete",
             UNCHANGED <<event, triggers, completions>>
      PROVE  SentBehind' /\ DeletedAfterEverything'
  <2>1. SentBehind'
    BY <1>3 DEF SentBehind, Risky, Transaction, Message
  <2> QED
    BY <1>3, <2>1 DEF DeletedAfterEverything
<1>4. ASSUME NEW d \in Deliveries,
             \/ SelectProfile(d) \/ CreateProfile(d) \/ InvalidateCache(d) \/ CountFailed(d)
             \/ SetExpiry(d) \/ SaveResult(d) \/ Crash(d)
      PROVE  SentBehind' /\ DeletedAfterEverything'
  <2>1. /\ \A e \in Deliveries : e # d => pc'[e] = pc[e]
        /\ pc'[d] # "delete"
        /\ Risky(d) => pc'[d] # "complete"
        /\ UNCHANGED <<event, place, triggers, completions>>
    BY <1>4 DEF SelectProfile, CreateProfile, InvalidateCache, CountFailed, SetExpiry,
                SaveResult, Crash, Fail, Goto, TypeOK
  <2> QED
    BY <1>3, <2>1
<1>5. ASSUME NEW m \in Messages, Publish(m) \/ Deliver(m)
      PROVE  SentBehind' /\ DeletedAfterEverything'
  <2>1. /\ \A k \in Messages : place'[k] = "deleted" => place[k] = "deleted"
        /\ \A d \in Deliveries : pc'[d] = pc[d] \/ pc'[d] = "select"
        /\ UNCHANGED <<event, triggers, completions>>
    BY <1>5 DEF Publish, Deliver, Receive, TimeOut, DeadLetter, Send, HandOut, Reappear,
                Redrive, Goto, TypeOK, QueueTypeOK
  <2> QED
    BY <1>3, <2>1
<1>6. ASSUME NEW e \in Evaluations, Evaluate(e) PROVE SentBehind' /\ DeletedAfterEverything'
  BY <1>3, <1>6 DEF Evaluate, LoadProfile, CreateBlank, StoreEntry
<1>7. ASSUME NEW a \in Accounts, ExpireEntry(a) \/ ExpireCounter(a)
      PROVE  SentBehind' /\ DeletedAfterEverything'
  BY <1>3, <1>7 DEF ExpireEntry, ExpireCounter
<1>8. CASE UNCHANGED vars
  BY <1>3, <1>8 DEF vars
<1> QED
  BY <1>1, <1>2, <1>4, <1>5, <1>6, <1>7, <1>8 DEF Next, Process

(* SentBeforeDeleted: as long as sends to SQS do not fail, and whatever    *)
(* else crashes, overlaps or fails, a message is deleted only after its    *)
(* RiskCompleted event and, if it was not approved, its trigger were sent. *)
THEOREM SentBeforeDeleted ==
  ASSUME "sqs" \notin Faults
  PROVE  Spec => []DeletedAfterEverything
<1>1. Init => SentBehind /\ DeletedAfterEverything
  BY WorkerAssumption DEF Init, QueueInit, SentBehind, DeletedAfterEverything
<1>2. TypeOK /\ SentBehind /\ DeletedAfterEverything /\ [Next]_vars
        => SentBehind' /\ DeletedAfterEverything'
  BY SentNext
<1> QED
  BY <1>1, <1>2, TypeInit, TypeNext, PTL DEF Spec

-----------------------------------------------------------------------------
(* The refinement: the book's variables as functions of the state. *)
Tallies   == [a \in Accounts |-> [total   |-> profile[a].total,
                                  blocked |-> profile[a].blocked]]
Flagged   == {a \in Accounts : profile[a].flagged}
InTally   == {t \in Transactions : Counted(t)}
Announced == {t \in Transactions : triggers[t] + completions[t] > 0}
Dismissed == {m[1] : m \in {n \in Messages : place[n] = "deleted"}}

(* What the worker finds where an account has no row is what it creates. *)
Unborn == \A a \in Accounts : ~profile[a].exists => profile[a] = Blank(FALSE)

LEMMA UnbornNext ==
  ASSUME TypeOK, Unborn, [Next]_vars
  PROVE  Unborn'
<1>1. ASSUME UNCHANGED profile PROVE Unborn'
  BY <1>1 DEF Unborn
<1>2. ASSUME NEW a \in Accounts, NEW row, row.exists, profile' = [profile EXCEPT ![a] = row]
      PROVE  Unborn'
  BY <1>2 DEF Unborn, TypeOK
<1>3. ASSUME NEW d \in Deliveries, NEW p, CommitProfile(d, p) PROVE Unborn'
  <2>1. Sender(d) \in Accounts
    BY DeliveryType
  <2>2. Upserted(p, event[Transaction(d)].decision).exists
    BY DEF Upserted
  <2> QED
    BY <1>2, <1>3, <2>1, <2>2 DEF CommitProfile
<1>4. ASSUME NEW d \in Deliveries, Process(d) \/ Crash(d) PROVE Unborn'
  BY <1>1, <1>3, <1>4
     DEF Process, Crash, SelectProfile, CreateProfile, InvalidateCache, CountFailed,
         SetExpiry, SaveResult, SendTrigger, SendCompletion, Acknowledge
<1>5. ASSUME NEW m \in Messages, Publish(m) \/ Deliver(m) PROVE Unborn'
  BY <1>1, <1>5 DEF Publish, Deliver, Receive, TimeOut, DeadLetter
<1>6. ASSUME NEW e \in Evaluations, Evaluate(e) PROVE Unborn'
  <2>1. load[e].account \in Accounts /\ Blank(TRUE).exists
    BY DEF TypeOK, Blank
  <2> QED
    BY <1>1, <1>2, <1>6, <2>1 DEF Evaluate, LoadProfile, CreateBlank, StoreEntry
<1>7. ASSUME NEW a \in Accounts, ExpireEntry(a) \/ ExpireCounter(a) PROVE Unborn'
  BY <1>1, <1>7 DEF ExpireEntry, ExpireCounter
<1>8. CASE UNCHANGED vars
  BY <1>1, <1>8 DEF vars
<1> QED
  BY <1>4, <1>5, <1>6, <1>7, <1>8 DEF Next

LEMMA UnbornInit == Init => Unborn
  BY DEF Init, Unborn

(* A commit that starts from the account's row enters its transaction.     *)
LEMMA CommitCounts ==
  ASSUME TypeOK, NEW d \in Deliveries, NEW t \in Transactions, t = Transaction(d),
         CommitProfile(d, profile[Sender(d)]),
         UNCHANGED <<event, results, triggers, completions, place>>
  PROVE  Book!Count(t)
<1> DEFINE s == Sender(d)
           old == profile[s]
           decision == event[t].decision
           blocked == Tallies[s].blocked + IF decision = "BLOCK" THEN 1 ELSE 0
           entry == [total |-> Tallies[s].total + 1, blocked |-> blocked]
<1>1. /\ s \in Accounts /\ s = event[t].sender
      /\ old \in Profiles
      /\ profile' = [profile EXCEPT ![s] = Upserted(old, decision)]
      /\ commits' = commits \cup {d}
  BY DeliveryType DEF TypeOK, CommitProfile, Sender
<1>2. /\ Upserted(old, decision).total = entry.total
      /\ Upserted(old, decision).blocked = entry.blocked
      /\ Upserted(old, decision).flagged <=> old.flagged \/ Book!Suspicious(entry)
  BY <1>1 DEF Upserted, Tallies, Book!Suspicious
<1>3. profile'[s] = Upserted(old, decision)
  BY <1>1 DEF TypeOK
<1>4. \A a \in Accounts : a # s => profile'[a] = profile[a]
  BY <1>1 DEF TypeOK
<1> HIDE DEF old
<1>5. Tallies' = [Tallies EXCEPT ![s] = entry]
  <2>1. Tallies'[s] = entry
    BY <1>1, <1>2, <1>3 DEF Tallies
  <2>2. \A a \in Accounts : a # s => Tallies'[a] = Tallies[a]
    BY <1>4 DEF Tallies
  <2>3. Tallies' = [a \in Accounts |-> Tallies'[a]] /\ Tallies = [a \in Accounts |-> Tallies[a]]
    BY DEF Tallies
  <2> HIDE DEF entry, s
  <2> QED
    BY <1>1, <2>1, <2>2, <2>3
<1>6. Flagged' = IF Book!Suspicious(entry) THEN Flagged \cup {s} ELSE Flagged
  <2> HIDE DEF entry, s
  <2> QED
    BY <1>1, <1>2, <1>3, <1>4 DEF Flagged, old
<1>7. InTally' = InTally \cup {t}
  BY <1>1 DEF InTally, Counted, Transaction, Message
<1>8. UNCHANGED <<event, results, Announced, Dismissed>>
  BY DEF Announced, Dismissed
<1> QED
  BY <1>1, <1>5, <1>6, <1>7, <1>8 DEF Book!Count, Tallies, Flagged, InTally, Announced, Dismissed

LEMMA CommitStepCounts ==
  ASSUME TypeOK, Unborn, NEW d \in Deliveries, NEW t \in Transactions, t = Transaction(d),
         SelectProfile(d) \/ CreateProfile(d)
  PROVE  Book!Count(t) \/ UNCHANGED <<profile, commits>>
<1>1. CASE CommitProfile(d, profile[Sender(d)])
  BY <1>1, CommitCounts DEF SelectProfile, CreateProfile, queue, outbox
<1>2. CASE ~profile[Sender(d)].exists /\ CommitProfile(d, Blank(FALSE))
  BY <1>1, <1>2, DeliveryType DEF Unborn
<1> QED
  BY <1>1, <1>2 DEF SelectProfile, CreateProfile

LEMMA SendAnnounces ==
  ASSUME TypeOK, Inv, NEW d \in Deliveries, NEW t \in Transactions, t = Transaction(d),
         SendTrigger(d) \/ SendCompletion(d)
  PROVE  Book!Announce(t) \/ UNCHANGED Book!vars
<1>1. t \in results
  BY DEF SendTrigger, SendCompletion, Inv, BehindIsRecorded, AfterSave
<1>2. Announced' = Announced \cup {t} \/ Announced' = Announced
  <2>1. CASE triggers' = [triggers EXCEPT ![t] = triggers[t] + 1] /\ completions' = completions
    BY <2>1 DEF Announced, TypeOK
  <2>2. CASE completions' = [completions EXCEPT ![t] = completions[t] + 1] /\ triggers' = triggers
    BY <2>2 DEF Announced, TypeOK
  <2>3. CASE UNCHANGED <<triggers, completions>>
    BY <2>3 DEF Announced
  <2> QED
    BY <2>1, <2>2, <2>3 DEF SendTrigger, SendCompletion
<1>3. UNCHANGED <<event, Tallies, Flagged, InTally, results, Dismissed>>
  BY DEF SendTrigger, SendCompletion, queue, Tallies, Flagged, InTally, Counted, Dismissed
<1> QED
  BY <1>1, <1>2, <1>3
     DEF Book!Announce, Book!vars, Tallies, Flagged, InTally, Announced, Dismissed

LEMMA DeletionDismisses ==
  ASSUME TypeOK, Inv, NEW d \in Deliveries, NEW t \in Transactions, t = Transaction(d),
         Acknowledge(d)
  PROVE  Book!Dismiss(t) \/ UNCHANGED Book!vars
<1>1. t \in results
  BY DEF Acknowledge, Inv, BehindIsRecorded, AfterSave
<1>2. Dismissed' = Dismissed \cup {t} \/ Dismissed' = Dismissed
  <2>1. CASE UNCHANGED place
    BY <2>1 DEF Dismissed
  <2>2. CASE place' = [place EXCEPT ![Message(d)] = "deleted"]
    <3>1. /\ Message(d) \in Messages
          /\ Message(d)[1] = t
          /\ place'[Message(d)] = "deleted"
          /\ \A m \in Messages : m # Message(d) => place'[m] = place[m]
      BY <2>2, DeliveryType DEF TypeOK, QueueTypeOK, Transaction
    <3> QED
      BY <3>1 DEF Dismissed
  <2> QED
    BY <2>1, <2>2 DEF Acknowledge, Remove, queue
<1>3. UNCHANGED <<event, Tallies, Flagged, InTally, results, Announced>>
  BY DEF Acknowledge, outbox, Tallies, Flagged, InTally, Counted, Announced
<1> QED
  BY <1>1, <1>2, <1>3
     DEF Book!Dismiss, Book!vars, Tallies, Flagged, InTally, Announced, Dismissed

(* A blank row is, in the book, what no row is. *)
LEMMA BlankStutters ==
  ASSUME TypeOK, Unborn, NEW e \in Evaluations, CreateBlank(e)
  PROVE  UNCHANGED <<Tallies, Flagged>>
<1>1. CASE UNCHANGED profile
  BY <1>1 DEF Tallies, Flagged
<1>2. CASE /\ ~profile[load[e].account].exists
           /\ profile' = [profile EXCEPT ![load[e].account] = Blank(TRUE)]
  <2> DEFINE b == load[e].account
  <2>1. b \in Accounts /\ profile[b] = Blank(FALSE) /\ profile'[b] = Blank(TRUE)
    BY <1>2 DEF Unborn, TypeOK
  <2>2. /\ profile'[b].total = profile[b].total
        /\ profile'[b].blocked = profile[b].blocked
        /\ profile'[b].flagged <=> profile[b].flagged
    BY <2>1 DEF Blank
  <2>3. \A a \in Accounts : a # b => profile'[a] = profile[a]
    BY <1>2 DEF TypeOK
  <2> HIDE DEF b
  <2>4. \A a \in Accounts : /\ profile'[a].total = profile[a].total
                            /\ profile'[a].blocked = profile[a].blocked
                            /\ profile'[a].flagged <=> profile[a].flagged
    BY <2>2, <2>3
  <2> QED
    BY <2>4 DEF Tallies, Flagged
<1> QED
  BY <1>1, <1>2 DEF CreateBlank

LEMMA StepRefines ==
  ASSUME TypeOK, Inv, Unborn, [Next]_vars
  PROVE  [Book!Next]_(Book!vars)
<1> USE DEF queue, outbox, redis
<1>0. \A m \in Messages : m[1] \in Transactions
  BY WorkerAssumption
<1>1. ASSUME UNCHANGED <<event, Tallies, Flagged, commits, results, triggers, completions>>,
             \A m \in Messages : place'[m] = "deleted" <=> place[m] = "deleted"
      PROVE  UNCHANGED Book!vars
  <2>1. InTally' = InTally /\ Announced' = Announced /\ Dismissed' = Dismissed
    BY <1>1 DEF InTally, Counted, Announced, Dismissed
  <2> QED
    BY <1>1, <2>1 DEF Book!vars, Tallies, Flagged, InTally, Announced, Dismissed
<1>2. ASSUME UNCHANGED <<event, profile, commits, results, triggers, completions>>,
             \A m \in Messages : place'[m] = "deleted" <=> place[m] = "deleted"
      PROVE  UNCHANGED Book!vars
  BY <1>1, <1>2 DEF Tallies, Flagged
<1>3. ASSUME NEW d \in Deliveries, Process(d) PROVE [Book!Next]_(Book!vars)
  <2> PICK t \in Transactions : t = Transaction(d)
    BY DeliveryType
  <2>1. CASE SelectProfile(d) \/ CreateProfile(d)
    BY <1>2, <2>1, CommitStepCounts DEF SelectProfile, CreateProfile, Book!Next
  <2>2. CASE InvalidateCache(d) \/ CountFailed(d) \/ SetExpiry(d)
    BY <1>2, <2>2 DEF InvalidateCache, CountFailed, SetExpiry
  <2>3. CASE SaveResult(d)
    <3>1. CASE results' = results
      BY <1>2, <2>3, <3>1 DEF SaveResult
    <3>2. CASE results' = results \cup {t}
      <4>1. Counted(t)
        BY <2>3 DEF SaveResult, Inv, BehindIsRecorded, AfterCommit
      <4>2. UNCHANGED <<event, Tallies, Flagged, InTally, Announced, Dismissed>>
        BY <2>3 DEF SaveResult, Tallies, Flagged, InTally, Counted, Announced, Dismissed
      <4>3. Book!Record(t)
        BY <3>2, <4>1, <4>2
           DEF Book!Record, Tallies, Flagged, InTally, Announced, Dismissed
      <4> QED
        BY <4>3 DEF Book!Next
    <3> QED
      BY <2>3, <3>1, <3>2 DEF SaveResult
  <2>4. CASE SendTrigger(d) \/ SendCompletion(d)
    BY <2>4, SendAnnounces DEF Book!Next
  <2>5. CASE Acknowledge(d)
    BY <2>5, DeletionDismisses DEF Book!Next
  <2> QED
    BY <1>3, <2>1, <2>2, <2>3, <2>4, <2>5 DEF Process
<1>4. ASSUME NEW d \in Deliveries, Crash(d) PROVE UNCHANGED Book!vars
  BY <1>2, <1>4 DEF Crash
<1>5. ASSUME NEW m \in Messages, Publish(m) \/ Deliver(m) PROVE UNCHANGED Book!vars
  <2>1. \A n \in Messages : place'[n] = "deleted" <=> place[n] = "deleted"
    BY <1>5 DEF Publish, Deliver, Receive, TimeOut, DeadLetter, Send, HandOut, Reappear,
                Redrive, TypeOK, QueueTypeOK
  <2> QED
    BY <1>2, <1>5, <2>1 DEF Publish, Deliver, Receive, TimeOut, DeadLetter
<1>6. ASSUME NEW e \in Evaluations, Evaluate(e) PROVE UNCHANGED Book!vars
  <2>1. CASE CreateBlank(e)
    BY <1>1, <2>1, BlankStutters DEF CreateBlank
  <2>2. CASE LoadProfile(e) \/ StoreEntry(e)
    BY <1>2, <2>2 DEF LoadProfile, StoreEntry
  <2> QED
    BY <1>6, <2>1, <2>2 DEF Evaluate
<1>7. ASSUME NEW a \in Accounts, ExpireEntry(a) \/ ExpireCounter(a) PROVE UNCHANGED Book!vars
  BY <1>2, <1>7 DEF ExpireEntry, ExpireCounter
<1>8. CASE UNCHANGED vars
  BY <1>2, <1>8 DEF vars
<1> QED
  BY <1>3, <1>4, <1>5, <1>6, <1>7, <1>8 DEF Next

(* WorkerImplementsBook: whatever fails, crashes, overlaps or is delivered *)
(* again, the deliveries and evaluations together enter one thing at a     *)
(* time: a transaction is counted, then recorded, and only then announced  *)
(* and its event dismissed, and nothing that was entered is taken back.    *)
THEOREM WorkerImplementsBook == Spec => ImplementsBook
<1>1. Init => Book!Init
  <2> SUFFICES ASSUME Init PROVE Book!Init
    OBVIOUS
  <2>1. /\ \A a \in Accounts : profile[a] = Blank(FALSE)
        /\ commits = {}
        /\ \A t \in Transactions : triggers[t] = 0 /\ completions[t] = 0
        /\ \A m \in Messages : place[m] # "deleted"
    BY DEF Init, QueueInit
  <2>2. Tallies = [a \in Accounts |-> [total |-> 0, blocked |-> 0]]
    BY <2>1 DEF Tallies, Blank
  <2>3. Flagged = {} /\ InTally = {} /\ Announced = {} /\ Dismissed = {}
    BY <2>1 DEF Flagged, InTally, Announced, Dismissed, Blank, Counted
  <2> QED
    BY <2>2, <2>3 DEF Init, Book!Init, Tallies, Flagged, InTally, Announced, Dismissed
<1> QED
  BY <1>1, StepRefines, UnbornInit, UnbornNext, TypeInit, TypeNext, InvInit, InvNext, PTL
     DEF Spec, ImplementsBook, Book!Spec
=============================================================================

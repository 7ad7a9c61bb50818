------------------------ MODULE AnalystWorkerProofs ------------------------
(***************************************************************************)
(* Proofs about AnalystWorker, for every value of its constants.           *)
(*                                                                         *)
(* The argument: the risk worker sends a trigger only for a row that       *)
(* exists, so an UPDATE for a trigger always finds its row; rows keep the  *)
(* reports they hold; and a delivery that deletes its message has written  *)
(* or seen a report, or its receipt is beyond MaxRetries.  While one       *)
(* delivery at a time works on a transaction, what its guard read is still *)
(* true when it writes.                                                    *)
(***************************************************************************)
EXTENDS AnalystWorker, TLAPS

(* A trigger that was sent has its row, and a message that is being        *)
(* processed was sent, and received at least as often.                     *)
TriggersHaveRows ==
  /\ \A m \in Messages : m[2] \in Triggers /\ place[m] # "absent" => m[1] \in results
  /\ \A d \in Deliveries : pc[d] # "none" =>
       place[Message(d)] # "absent" /\ d[2] <= received[Message(d)]

(* A delivery that is about to delete a trigger answered it, or found it   *)
(* answered, or drops it.                                                  *)
DeletersAreAnswered ==
  \A d \in Deliveries : pc[d] = "delete" /\ Message(d)[2] \in Triggers =>
    report[Transaction(d)] # {} \/ d[2] > MaxRetries

ReportsMatch == \A t \in Transactions : \A d \in report[t] : Transaction(d) = t

(* Where no two deliveries ever met, the one at work is alone, its guard's *)
(* answer still holds, and what was written is in the row.                 *)
GuardStillHolds ==
  /\ \A d, e \in Deliveries :
       /\ pc[d] \in Steps /\ pc[e] \in Steps
       /\ Transaction(d) = Transaction(e) /\ Transaction(d) \notin shared
       => d = e
  /\ \A d \in Deliveries : pc[d] \in {"investigate", "write"} /\ Transaction(d) \notin shared =>
       report[Transaction(d)] = {}
  /\ \A d \in written : report[Transaction(d)] # {}

Inv == TriggersHaveRows /\ DeletersAreAnswered

-----------------------------------------------------------------------------
LEMMA DeliveryType ==
  ASSUME NEW d \in Deliveries
  PROVE  Message(d) \in Messages /\ Transaction(d) \in Transactions
  BY AnalystAssumption DEF Deliveries, Message, Transaction

LEMMA QueueStepType ==
  ASSUME QueueTypeOK, NEW m \in Messages,
         Send(m) \/ HandOut(m) \/ Reappear(m) \/ Redrive(m) \/ \E n : Remove(m, n)
  PROVE  QueueTypeOK'
  BY QueueAssumption
     DEF QueueTypeOK, Send, HandOut, Reappear, Redrive, Remove, Places

LEMMA GotoType ==
  ASSUME TypeOK, NEW d, NEW step \in Steps \cup {"none", "over"}, Goto(d, step)
  PROVE  pc' \in [Deliveries -> Steps \cup {"none", "over"}]
  BY DEF TypeOK, Goto

LEMMA WriteType ==
  ASSUME TypeOK, NEW d \in Deliveries, WriteReport(d)
  PROVE  /\ report' \in [Transactions -> SUBSET Deliveries]
         /\ \A t \in Transactions : \A e, f \in report'[t] : e = f
         /\ written' \in SUBSET Deliveries
  BY DEF TypeOK, WriteReport

LEMMA TypeNext == TypeOK /\ [Next]_vars => TypeOK'
<1> SUFFICES ASSUME TypeOK, [Next]_vars PROVE TypeOK'
  OBVIOUS
<1> USE DEF queue
<1>1. ASSUME NEW t \in Transactions, SaveResult(t) PROVE TypeOK'
  BY <1>1 DEF SaveResult, TypeOK, QueueTypeOK
<1>2. ASSUME NEW m \in Messages, SendTrigger(m) \/ Reinvestigate(m) \/ Deliver(m)
      PROVE  TypeOK'
  <2>1. QueueTypeOK'
    BY <1>2, QueueStepType
       DEF TypeOK, SendTrigger, Reinvestigate, Deliver, Receive, TimeOut, DeadLetter
  <2>2. pc' \in [Deliveries -> Steps \cup {"none", "over"}]
    BY <1>2, GotoType
       DEF TypeOK, SendTrigger, Reinvestigate, Deliver, Receive, TimeOut, DeadLetter, Steps
  <2>3. shared' \in SUBSET Transactions
    BY <1>2, AnalystAssumption
       DEF TypeOK, SendTrigger, Reinvestigate, Deliver, Receive, TimeOut, DeadLetter
  <2>4. UNCHANGED <<results, report, written>>
    BY <1>2 DEF SendTrigger, Reinvestigate, Deliver, Receive, TimeOut, DeadLetter
  <2> QED
    BY <2>1, <2>2, <2>3, <2>4 DEF TypeOK
<1>3. ASSUME NEW d \in Deliveries, Process(d) \/ Crash(d) PROVE TypeOK'
  <2>1. \E step \in Steps \cup {"none", "over"} : Goto(d, step)
    BY <1>3 DEF Process, Crash, CheckReport, Investigate, WriteReport, Acknowledge, Fail,
                Steps
  <2>2. pc' \in [Deliveries -> Steps \cup {"none", "over"}]
    BY <2>1, GotoType
  <2>3. CASE WriteReport(d)
    BY <2>2, <2>3, WriteType DEF WriteReport, TypeOK, QueueTypeOK
  <2>4. CASE Acknowledge(d)
    <3>1. QueueTypeOK'
      BY <2>4, DeliveryType, QueueStepType DEF Acknowledge, TypeOK, QueueTypeOK
    <3> QED
      BY <2>2, <2>4, <3>1 DEF Acknowledge, TypeOK
  <2>5. CASE CheckReport(d) \/ Investigate(d) \/ Crash(d)
    BY <2>2, <2>5 DEF CheckReport, Investigate, Crash, TypeOK, QueueTypeOK
  <2> QED
    BY <1>3, <2>3, <2>4, <2>5 DEF Process
<1>4. CASE UNCHANGED vars
  BY <1>4 DEF vars, TypeOK, QueueTypeOK
<1> QED
  BY <1>1, <1>2, <1>3, <1>4 DEF Next

LEMMA TypeInit == Init => TypeOK
  BY QueueAssumption DEF Init, TypeOK, QueueInit, QueueTypeOK, Places

(* TypeInvariant: the state stays in its sets, and a row never holds two   *)
(* reports.                                                                *)
THEOREM TypeInvariant == Spec => []TypeOK
  BY TypeInit, TypeNext, PTL DEF Spec

-----------------------------------------------------------------------------
(* Every step keeps what the invariants say of the rows. *)
LEMMA ReportsGrow ==
  ASSUME TypeOK, [Next]_vars
  PROVE  /\ results \subseteq results'
         /\ \A t \in Transactions : report[t] # {} => report'[t] # {}
         /\ \A t \in Transactions : \A d \in report'[t] :
              d \in report[t] \/ Transaction(d) = t
<1>1. ASSUME NEW d \in Deliveries, WriteReport(d)
      PROVE  /\ results \subseteq results'
             /\ \A t \in Transactions : report[t] # {} => report'[t] # {}
             /\ \A t \in Transactions : \A e \in report'[t] :
                  e \in report[t] \/ Transaction(e) = t
  BY <1>1 DEF WriteReport, TypeOK
<1>2. ASSUME results \subseteq results', report' = report
      PROVE  /\ results \subseteq results'
             /\ \A t \in Transactions : report[t] # {} => report'[t] # {}
             /\ \A t \in Transactions : \A e \in report'[t] :
                  e \in report[t] \/ Transaction(e) = t
  BY <1>2
<1>3. (\E d \in Deliveries : WriteReport(d)) \/ (results \subseteq results' /\ report' = report)
  BY DEF Next, vars, SaveResult, SendTrigger, Reinvestigate, Deliver, Receive, TimeOut,
         DeadLetter, Process, CheckReport, Investigate, Acknowledge, Crash
<1> QED
  BY <1>1, <1>2, <1>3

LEMMA InvNext == TypeOK /\ Inv /\ [Next]_vars => Inv'
<1> SUFFICES ASSUME TypeOK, Inv, [Next]_vars PROVE Inv'
  OBVIOUS
<1> USE DEF queue
<1>1. /\ results \subseteq results'
      /\ \A t \in Transactions : report[t] # {} => report'[t] # {}
      /\ \A d \in Deliveries : Message(d) \in Messages /\ Transaction(d) \in Transactions
      /\ \A d \in Deliveries : d[2] \in Nat
      /\ \A m \in Messages : received[m] \in Nat
  <2>1. \A d \in Deliveries : d[2] \in Nat
    BY QueueAssumption DEF Deliveries
  <2>2. \A m \in Messages : received[m] \in Nat
    BY QueueAssumption DEF TypeOK, QueueTypeOK
  <2> QED
    BY <2>1, <2>2, ReportsGrow, DeliveryType
<1>2. ASSUME UNCHANGED <<place, received, pc>> PROVE Inv'
  BY <1>1, <1>2 DEF Inv, TriggersHaveRows, DeletersAreAnswered
<1>3. ASSUME NEW m \in Messages, SendTrigger(m) \/ Reinvestigate(m) PROVE Inv'
  <2>1. /\ \A n \in Messages : place'[n] = place[n] \/ (n = m /\ place'[n] = "visible")
        /\ m[2] \in Triggers => m[1] \in results
        /\ pc' = pc /\ received' = received
    BY <1>3, AnalystAssumption
       DEF SendTrigger, Reinvestigate, Send, TypeOK, QueueTypeOK
  <2> QED
    BY <1>1, <2>1 DEF Inv, TriggersHaveRows, DeletersAreAnswered
<1>4. ASSUME NEW m \in Messages, Deliver(m) PROVE Inv'
  <2>1. /\ \A n \in Messages : place'[n] = "absent" <=> place[n] = "absent"
        /\ place[m] # "absent"
        /\ \A n \in Messages : received[n] <= received'[n]
    BY <1>1, <1>4 DEF Deliver, Receive, TimeOut, DeadLetter, HandOut, Reappear, Redrive,
                      TypeOK, QueueTypeOK
  <2>2. \A d \in Deliveries :
          \/ pc'[d] = pc[d]
          \/ /\ Message(d) = m /\ d[2] = received'[m]
             /\ pc'[d] = "delete" => d[2] > MaxRetries
    <3>1. CASE Receive(m)
      BY <1>1, <3>1 DEF Receive, HandOut, Goto, TypeOK, QueueTypeOK, Message
    <3>2. CASE TimeOut(m) \/ DeadLetter(m)
      BY <3>2 DEF TimeOut, DeadLetter
    <3> QED
      BY <1>4, <3>1, <3>2 DEF Deliver
  <2>3. \A n \in Messages : received'[n] \in Nat
    BY <1>1, <1>4 DEF Deliver, Receive, TimeOut, DeadLetter, HandOut, Reappear, Redrive,
                      TypeOK, QueueTypeOK
  <2>4. TriggersHaveRows'
    BY <1>1, <2>1, <2>2, <2>3 DEF Inv, TriggersHaveRows
  <2>5. DeletersAreAnswered'
    BY <1>1, <2>2 DEF Inv, DeletersAreAnswered
  <2> QED
    BY <2>4, <2>5 DEF Inv
<1>5. ASSUME NEW d \in Deliveries, Process(d) \/ Crash(d) PROVE Inv'
  <2>1. /\ \A n \in Messages : place'[n] = "absent" <=> place[n] = "absent"
        /\ \A e \in Deliveries : e # d => pc'[e] = pc[e]
        /\ pc[d] # "none"
        /\ received' = received
    BY <1>1, <1>5 DEF Process, Crash, CheckReport, Investigate, WriteReport, Acknowledge,
                      Fail, Goto, Remove, Steps, TypeOK, QueueTypeOK
  <2>2. TriggersHaveRows'
    BY <1>1, <2>1 DEF Inv, TriggersHaveRows
  <2>3. Message(d)[2] \in Triggers => Transaction(d) \in results
    BY <1>1, <2>1 DEF Inv, TriggersHaveRows, Transaction
  <2>4. pc'[d] = "delete" /\ Message(d)[2] \in Triggers => report'[Transaction(d)] # {}
    <3>1. CASE CheckReport(d)
      BY <1>1, <3>1 DEF CheckReport, Fail, Goto, TypeOK
    <3>2. CASE WriteReport(d)
      BY <1>1, <2>3, <3>2 DEF WriteReport, Fail, Goto, TypeOK
    <3>3. CASE Investigate(d) \/ Acknowledge(d) \/ Crash(d)
      BY <3>3 DEF Investigate, Acknowledge, Crash, Fail, Goto, TypeOK
    <3> QED
      BY <1>5, <3>1, <3>2, <3>3 DEF Process
  <2>5. DeletersAreAnswered'
    BY <1>1, <2>1, <2>4 DEF Inv, DeletersAreAnswered
  <2> QED
    BY <2>2, <2>5 DEF Inv
<1> QED
  BY <1>2, <1>3, <1>4, <1>5 DEF Next, SaveResult, vars

LEMMA InvInit == Init => Inv
  BY AnalystAssumption
     DEF Init, QueueInit, Inv, TriggersHaveRows, DeletersAreAnswered, Deliveries, Message

-----------------------------------------------------------------------------
LEMMA AnswerNext ==
  ASSUME TypeOK, Inv, TriggerIsAnswered, [Next]_vars
  PROVE  TriggerIsAnswered'
<1>1. \A m \in Messages : m[1] \in Transactions
  BY AnalystAssumption
<1>2. \A t \in Transactions : report[t] # {} => report'[t] # {}
  BY ReportsGrow
<1>3. ASSUME NEW d \in Deliveries, Acknowledge(d) PROVE TriggerIsAnswered'
  <2>1. d[2] \in Nat /\ received[Message(d)] \in Nat /\ d[2] <= received[Message(d)]
    BY <1>3, DeliveryType, QueueAssumption
       DEF Acknowledge, Inv, TriggersHaveRows, Deliveries, TypeOK, QueueTypeOK
  <2>2. Message(d)[2] \in Triggers =>
          report[Transaction(d)] # {} \/ received[Message(d)] > MaxRetries
    BY <1>3, <2>1, AnalystAssumption DEF Acknowledge, Inv, DeletersAreAnswered
  <2>3. received' = received /\ \A m \in Messages : m # Message(d) => place'[m] = place[m]
    BY <1>3 DEF Acknowledge, Remove, TypeOK, QueueTypeOK, queue
  <2> QED
    BY <1>1, <1>2, <2>2, <2>3 DEF TriggerIsAnswered, Transaction
<1>4. ASSUME \A m \in Messages :
               received[m] <= received'[m] /\ (place'[m] = "deleted" => place[m] = "deleted")
      PROVE  TriggerIsAnswered'
  <2>1. \A m \in Messages : received[m] \in Nat /\ received'[m] \in Nat
    BY TypeNext, QueueAssumption DEF TypeOK, QueueTypeOK
  <2> QED
    BY <1>1, <1>2, <1>4, <2>1, AnalystAssumption DEF TriggerIsAnswered
<1>5. ASSUME NEW m \in Messages, SendTrigger(m) \/ Reinvestigate(m) \/ Deliver(m)
      PROVE  \A n \in Messages :
               received[n] <= received'[n] /\ (place'[n] = "deleted" => place[n] = "deleted")
  BY <1>5, QueueAssumption
     DEF SendTrigger, Reinvestigate, Deliver, Receive, TimeOut, DeadLetter, Send,
         HandOut, Reappear, Redrive, TypeOK, QueueTypeOK
<1>6. ASSUME UNCHANGED queue PROVE TriggerIsAnswered'
  <2>1. \A m \in Messages : received[m] <= received'[m]
    BY <1>6, QueueAssumption DEF TypeOK, QueueTypeOK, queue
  <2> QED
    BY <1>4, <1>6, <2>1 DEF queue
<1>7. ASSUME NEW d \in Deliveries,
             CheckReport(d) \/ Investigate(d) \/ WriteReport(d) \/ Crash(d)
      PROVE  UNCHANGED queue
  BY <1>7 DEF CheckReport, Investigate, WriteReport, Crash
<1> QED
  BY <1>3, <1>4, <1>5, <1>6, <1>7 DEF Next, Process, SaveResult, vars, queue

(* EveryTriggerAnswered: a trigger is deleted only when its transaction    *)
(* has a report or it was received more than WORKER_MAX_RETRIES times,     *)
(* whatever fails and however deliveries overlap.                          *)
THEOREM EveryTriggerAnswered == Spec => []TriggerIsAnswered
<1>1. Init => TypeOK /\ Inv /\ TriggerIsAnswered
  BY TypeInit, InvInit DEF Init, QueueInit, TriggerIsAnswered
<1>2. TypeOK /\ Inv /\ TriggerIsAnswered /\ [Next]_vars
        => TypeOK' /\ Inv' /\ TriggerIsAnswered'
  BY TypeNext, InvNext, AnswerNext
<1> QED
  BY <1>1, <1>2, PTL DEF Spec

(* A trigger that was deleted has its report, without exception.           *)
DeletedTriggersHaveReports ==
  \A m \in Messages : m[2] \in Triggers /\ place[m] = "deleted" => report[m[1]] # {}

(* NoTriggerIsDropped: with the limits as deployed, where the queue hands  *)
(* a message out no more often than WORKER_MAX_RETRIES, no trigger is ever *)
(* deleted without a report, whatever fails: what cannot be answered goes  *)
(* to the dead letter queue.                                               *)
THEOREM NoTriggerIsDropped ==
  ASSUME MaxReceives <= MaxRetries
  PROVE  Spec => []DeletedTriggersHaveReports
<1>1. TypeOK /\ TriggerIsAnswered => DeletedTriggersHaveReports
  <2> SUFFICES ASSUME TypeOK, TriggerIsAnswered, NEW m \in Messages,
                      m[2] \in Triggers, place[m] = "deleted"
               PROVE  report[m[1]] # {}
    BY DEF DeletedTriggersHaveReports
  <2>1. received[m] \in Nat /\ received[m] <= MaxReceives
    BY DEF TypeOK, QueueTypeOK
  <2>2. ~(received[m] > MaxRetries)
    BY <2>1, QueueAssumption, AnalystAssumption
  <2> QED
    BY <2>2 DEF TriggerIsAnswered
<1> QED
  BY <1>1, TypeInvariant, EveryTriggerAnswered, PTL

-----------------------------------------------------------------------------
LEMMA OnceNext ==
  ASSUME TypeOK, GuardStillHolds, InvestigatedOnce, [Next]_vars
  PROVE  GuardStillHolds' /\ InvestigatedOnce'
<1>1. /\ \A d \in Deliveries : Transaction(d) \in Transactions
      /\ \A t \in Transactions : report[t] # {} => report'[t] # {}
  BY DeliveryType, ReportsGrow
<1>2. ASSUME UNCHANGED <<pc, report, written, shared>>
      PROVE  GuardStillHolds' /\ InvestigatedOnce'
  BY <1>2 DEF GuardStillHolds, InvestigatedOnce
<1>3. ASSUME NEW m \in Messages, Receive(m)
      PROVE  GuardStillHolds' /\ InvestigatedOnce'
  <2>1. /\ UNCHANGED <<report, written>>
        /\ shared \subseteq shared'
        /\ \A d \in Deliveries :
             pc'[d] = pc[d] \/ (Message(d) = m /\ pc'[d] \in {"guard", "delete"})
        /\ \A d, e \in Deliveries :
             pc'[d] # pc[d] /\ pc'[e] # pc[e] => d = e
    BY <1>3 DEF Receive, Goto, TypeOK, Message
  <2>2. m[1] \notin shared' => \A d \in Deliveries : Transaction(d) = m[1] => pc[d] \notin Steps
    BY <1>3, AnalystAssumption DEF Receive
  <2> QED
    BY <1>1, <2>1, <2>2 DEF GuardStillHolds, InvestigatedOnce, Transaction, Steps
<1>4. ASSUME NEW d \in Deliveries, WriteReport(d)
      PROVE  GuardStillHolds' /\ InvestigatedOnce'
  <2>1. /\ pc[d] = "write" /\ shared' = shared
        /\ pc'[d] \in {"delete", "over"}
        /\ \A e \in Deliveries : e # d => pc'[e] = pc[e]
    BY <1>4 DEF WriteReport, Goto, Fail, TypeOK
  <2>2. \/ UNCHANGED <<report, written>>
        \/ /\ report' = [report EXCEPT ![Transaction(d)] = {d}]
           /\ written' = written \cup {d}
    BY <1>4 DEF WriteReport
  <2>3. \A e \in written' : report'[Transaction(e)] # {}
    BY <1>1, <2>2 DEF GuardStillHolds, TypeOK
  <2>4. \A e \in Deliveries :
          pc'[e] \in {"investigate", "write"} /\ Transaction(e) \notin shared' =>
            report'[Transaction(e)] = {}
    BY <1>1, <2>1, <2>2 DEF GuardStillHolds, TypeOK, Steps
  <2>5. \A e, f \in Deliveries :
          /\ pc'[e] \in Steps /\ pc'[f] \in Steps
          /\ Transaction(e) = Transaction(f) /\ Transaction(e) \notin shared'
          => e = f
    BY <2>1 DEF GuardStillHolds, Steps
  <2>6. InvestigatedOnce'
    BY <1>1, <2>1, <2>2 DEF GuardStillHolds, InvestigatedOnce, TypeOK
  <2> QED
    BY <2>3, <2>4, <2>5, <2>6 DEF GuardStillHolds
<1>5. ASSUME NEW d \in Deliveries,
             CheckReport(d) \/ Investigate(d) \/ Acknowledge(d) \/ Crash(d)
      PROVE  GuardStillHolds' /\ InvestigatedOnce'
  <2>1. /\ UNCHANGED <<report, written, shared>>
        /\ pc[d] \in Steps
        /\ \A e \in Deliveries : e # d => pc'[e] = pc[e]
        /\ pc'[d] = "write" => pc[d] = "investigate"
        /\ pc'[d] = "investigate" => report[Transaction(d)] = {}
    BY <1>5 DEF CheckReport, Investigate, Acknowledge, Crash, Fail, Goto, Steps, TypeOK
  <2> QED
    BY <2>1 DEF GuardStillHolds, InvestigatedOnce
<1> QED
  BY <1>2, <1>3, <1>4, <1>5
     DEF Next, Process, Deliver, SaveResult, SendTrigger, Reinvestigate, TimeOut, DeadLetter, vars

(* OneReport: as long as no two deliveries work on a transaction at the    *)
(* same time, it gets one report, whatever fails and however often its     *)
(* triggers and reinvestigations come.                                     *)
THEOREM OneReport == Spec => []InvestigatedOnce
<1>1. Init => TypeOK /\ GuardStillHolds /\ InvestigatedOnce
  BY TypeInit DEF Init, GuardStillHolds, InvestigatedOnce, Steps
<1>2. TypeOK /\ GuardStillHolds /\ InvestigatedOnce /\ [Next]_vars
        => TypeOK' /\ GuardStillHolds' /\ InvestigatedOnce'
  BY TypeNext, OnceNext
<1> QED
  BY <1>1, <1>2, PTL DEF Spec

(* ReportsAreKept: no step takes a report out of a row, or puts one of     *)
(* another transaction into it.                                            *)
THEOREM ReportsAreKept == Spec => ReportIsKept
<1>1. Init => ReportsMatch
  BY DEF Init, ReportsMatch
<1>2. TypeOK /\ ReportsMatch /\ [Next]_vars => ReportsMatch'
  BY ReportsGrow DEF ReportsMatch
<1>3. TypeOK /\ ReportsMatch /\ ReportsMatch' /\ [Next]_vars =>
        [\A t \in Transactions : report[t] # {} =>
           report'[t] # {} /\ \A d \in report'[t] : Transaction(d) = t]_vars
  BY ReportsGrow DEF ReportsMatch
<1> QED
  BY <1>1, <1>2, <1>3, TypeInvariant, PTL DEF Spec, ReportIsKept
=============================================================================

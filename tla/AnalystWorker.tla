--------------------------- MODULE AnalystWorker ---------------------------
(***************************************************************************)
(* The analyst's worker: it consumes aegis-agent-investigations, where the *)
(* risk worker sends its triggers and the gateway the reinvestigations     *)
(* that a fraud analyst asks for.  It skips a transaction whose risk       *)
(* result already has a report, else it runs the agent, writes the report  *)
(* into the row and deletes the message.                                   *)
(*                                                                         *)
(* As in RiskWorker, a delivery is one receipt of one message, and         *)
(* deliveries run concurrently.                                            *)
(***************************************************************************)
EXTENDS WorkQueue, FiniteSets

CONSTANTS
  Transactions,
  Triggers,      \* the triggers that the risk worker may send for each
  Manuals,       \* the reinvestigations that the gateway may send for each
  MaxRetries,    \* WORKER_MAX_RETRIES
  Faults         \* what may go wrong in this instance, a subset of FaultKinds

FaultKinds ==
  {"llm",        \* the agent raises
   "db",         \* a session raises, before or after its commit
   "sqs",        \* a delete raises
   "crash",      \* a delivery is abandoned at an await
   "slow"}       \* a delivery may outlive the 180 s visibility timeout

ASSUME AnalystAssumption ==
  /\ Messages = Transactions \X (Triggers \cup Manuals)
  /\ Triggers \cap Manuals = {}
  /\ MaxRetries \in Nat
  /\ Faults \subseteq FaultKinds

Deliveries == Messages \X (1 .. MaxReceives)

VARIABLES
  pc,            \* delivery -> the await it is at
  results,       \* Postgres: the transactions with a row in risk_results
  report,        \* Postgres: transaction -> the set holding the delivery
                 \* whose report is in the row, if any
  written,       \* history: the deliveries whose report went into a row
  shared         \* history: the transactions two deliveries worked on at once

vars == <<queue, pc, results, report, written, shared>>

Steps == {"guard", "investigate", "write", "delete"}

TypeOK ==
  /\ QueueTypeOK
  /\ pc \in [Deliveries -> Steps \cup {"none", "over"}]
  /\ results \in SUBSET Transactions
  /\ report \in [Transactions -> SUBSET Deliveries]
  /\ \A t \in Transactions : \A d, e \in report[t] : d = e
  /\ written \in SUBSET Deliveries
  /\ shared \in SUBSET Transactions

Init ==
  /\ QueueInit
  /\ pc = [d \in Deliveries |-> "none"]
  /\ results = {}
  /\ report = [t \in Transactions |-> {}]
  /\ written = {}
  /\ shared = {}

-----------------------------------------------------------------------------
Message(d)     == d[1]
Transaction(d) == Message(d)[1]

Goto(d, step) == pc' = [pc EXCEPT ![d] = step]

(* The exception handler: the message is left to its visibility timeout. *)
Fail(d, fault) == fault \in Faults /\ Goto(d, "over")

(* The risk worker saves the result of t, and only then sends triggers. *)
SaveResult(t) ==
  /\ results' = results \cup {t}
  /\ UNCHANGED <<queue, pc, report, written, shared>>

SendTrigger(m) ==
  /\ m[2] \in Triggers /\ m[1] \in results
  /\ Send(m)
  /\ UNCHANGED <<pc, results, report, written, shared>>

(* The gateway's reinvestigate endpoint: the transaction exists, its risk  *)
(* result need not.                                                        *)
Reinvestigate(m) ==
  /\ m[2] \in Manuals
  /\ Send(m)
  /\ UNCHANGED <<pc, results, report, written, shared>>

(* A message that was received too often is dropped without being read. *)
Receive(m) ==
  /\ HandOut(m)
  /\ Goto(<<m, received[m] + 1>>,
          IF received[m] + 1 > MaxRetries THEN "delete" ELSE "guard")
  /\ shared' = shared \cup {t \in {m[1]} :
                  \E d \in Deliveries : Transaction(d) = t /\ pc[d] \in Steps}
  /\ UNCHANGED <<results, report, written>>

(* Mutant: no idempotency guard. *)
WithoutGuard(d) ==
  /\ pc[d] = "guard"
  /\ Goto(d, "investigate")
  /\ UNCHANGED <<queue, results, report, written, shared>>

(* is_already_investigated, in a session of its own. *)
CheckReport(d) ==
  /\ pc[d] = "guard"
  /\ \/ report[Transaction(d)] # {} /\ Goto(d, "delete")
     \/ report[Transaction(d)] = {} /\ Goto(d, "investigate")
     \/ Fail(d, "db")
  /\ UNCHANGED <<queue, results, report, written, shared>>

(* Two calls of the provider, of minutes: the agent's loop of thoughts and *)
(* tool calls, and extract_report, which makes a validated report of its   *)
(* text, or raises after its retries.  Nothing is kept between the two.    *)
Investigate(d) ==
  /\ pc[d] = "investigate"
  /\ Goto(d, "write") \/ Fail(d, "llm")
  /\ UNCHANGED <<queue, results, report, written, shared>>

(* Mutant: an error of the write is logged and passed over. *)
WritePassingOverErrors(d) ==
  LET t == Transaction(d) IN
  /\ pc[d] = "write"
  /\ \/ t \in results /\ report' = [report EXCEPT ![t] = {d}] /\ written' = written \cup {d}
     \/ (t \notin results \/ "db" \in Faults) /\ UNCHANGED <<report, written>>
  /\ Goto(d, "delete")
  /\ UNCHANGED <<queue, results, shared>>

(* Mutant: the old report is cleared before the new one is written. *)
WriteAfterClearing(d) ==
  LET t == Transaction(d) IN
  /\ pc[d] = "write"
  /\ report' = [report EXCEPT ![t] = IF report[t] = {} /\ t \in results THEN {d} ELSE {}]
  /\ written' = IF report'[t] = {} THEN written ELSE written \cup {d}
  /\ Goto(d, IF report'[t] = {} THEN "write" ELSE "delete")
  /\ UNCHANGED <<queue, results, shared>>

(* update_analyst_investigation: one UPDATE and its commit.  Whether there *)
(* was a row to update is returned, and not looked at.                     *)
WriteReport(d) ==
  LET t == Transaction(d) IN
  /\ pc[d] = "write"
  /\ \/ /\ t \in results
        /\ report' = [report EXCEPT ![t] = {d}]
        /\ written' = written \cup {d}
        /\ Goto(d, "delete") \/ Fail(d, "db")
     \/ t \notin results /\ Goto(d, "delete") /\ UNCHANGED <<report, written>>
     \/ Fail(d, "db") /\ UNCHANGED <<report, written>>
  /\ UNCHANGED <<queue, results, shared>>

(* The acknowledgement, after the write, the skip or the drop. *)
Acknowledge(d) ==
  /\ pc[d] = "delete"
  /\ \/ Remove(Message(d), d[2]) /\ (Goto(d, "over") \/ Fail(d, "sqs"))
     \/ Fail(d, "sqs") /\ UNCHANGED queue
  /\ UNCHANGED <<results, report, written, shared>>

Crash(d) ==
  /\ pc[d] \in Steps
  /\ Fail(d, "crash")
  /\ UNCHANGED <<queue, results, report, written, shared>>

TimeOut(m) ==
  /\ Reappear(m)
  /\ "slow" \in Faults \/ pc[<<m, received[m]>>] \notin Steps
  /\ UNCHANGED <<pc, results, report, written, shared>>

DeadLetter(m) == Redrive(m) /\ UNCHANGED <<pc, results, report, written, shared>>

Process(d) == CheckReport(d) \/ Investigate(d) \/ WriteReport(d) \/ Acknowledge(d)
Deliver(m) == Receive(m) \/ TimeOut(m) \/ DeadLetter(m)

Next ==
  \/ \E t \in Transactions : SaveResult(t)
  \/ \E m \in Messages : SendTrigger(m) \/ Reinvestigate(m) \/ Deliver(m)
  \/ \E d \in Deliveries : Process(d) \/ Crash(d)

Spec == Init /\ [][Next]_vars

(* The event loop is not idle while a task is ready; the poll loop         *)
(* receives again and again, and the queue's timer runs.  No fairness      *)
(* among messages or tasks is needed, for each has finitely many steps.    *)
FairSpec ==
  /\ Spec
  /\ WF_vars(\E m \in Messages : Deliver(m))
  /\ WF_vars(\E d \in Deliveries : Process(d))

-----------------------------------------------------------------------------
(* TriggerIsAnswered: a trigger is deleted only once the row of its        *)
(* transaction holds a report, by this delivery or by another; or else it  *)
(* was dropped for having been received more than MaxRetries times.        *)
TriggerIsAnswered ==
  \A m \in Messages : m[2] \in Triggers /\ place[m] = "deleted" =>
    report[m[1]] # {} \/ received[m] > MaxRetries

(* ReportIsKept: once a row holds a report it always holds one, and the    *)
(* report is that of a delivery for its own transaction.                   *)
ReportIsKept ==
  [][\A t \in Transactions : report[t] # {} =>
       report'[t] # {} /\ \A d \in report'[t] : Transaction(d) = t]_vars

(* InvestigatedOnce: a transaction gets one report, however often its      *)
(* messages are delivered and whatever fails, unless two deliveries worked *)
(* on it at once: the guard is read minutes before the report is written.  *)
InvestigatedOnce ==
  \A d, e \in written :
    Transaction(d) = Transaction(e) /\ Transaction(d) \notin shared => d = e

(* ReinvestigationOverwrites: a reinvestigation that is asked for while    *)
(* the row holds a report, which transactions.py:92 says it overwrites,    *)
(* is not deleted before a report of its own was written.                  *)
ReinvestigationOverwrites ==
  \A m \in Transactions \X Manuals :
    [](place[m] = "absent" /\ report[m[1]] # {} =>
         [](place[m] = "deleted" => \E d \in written : Message(d) = m))

(* EveryMessageSettles: a message that was sent is in the end deleted, or  *)
(* moved to the dead letter queue, whatever fails on the way.              *)
EveryMessageSettles == \A m \in Messages : place[m] = "visible" ~> Settled(m)
=============================================================================

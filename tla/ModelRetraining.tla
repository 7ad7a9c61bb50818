-------------------------- MODULE ModelRetraining --------------------------
(***************************************************************************)
(* The retraining of the fraud model: the MLOps worker of the analyst      *)
(* service takes one request at a time from aegis-model-retrain-requests,  *)
(* runs the retraining workflow, and deletes the message when the workflow *)
(* returned.  The workflow reads metrics of the last week's decisions and  *)
(* stops if they are too few; for enough of them it builds a prompt, for   *)
(* an LLM that would decide.                                               *)
(*                                                                         *)
(* The prompt asks for m["agent_coverage"]; the metrics call it            *)
(* "analyst_coverage".  So the second step raises a KeyError, and the LLM, *)
(* the training and the hot swap behind it are never reached: they are not *)
(* modelled.  The lookback_days of a request do not reach the workflow     *)
(* either, which always looks at seven days.                               *)
(*                                                                         *)
(* The queue has no redrive policy, so that no receive count is kept.      *)
(***************************************************************************)
EXTENDS Integers

CONSTANTS
  Workers,       \* the analyst's processes
  Jobs,          \* the requests for a retraining
  MinDecisions,  \* the decisions a workflow needs, 10 in the code
  MaxDecisions,  \* bounds the decisions of the window
  MaxFailures    \* bounds the failures of an instance: of the database, a
                 \* delete, a worker, or a job that outlives its visibility

ASSUME RetrainAssumption ==
  /\ MinDecisions \in Nat /\ MaxDecisions \in Nat /\ MaxFailures \in Nat

NoJob == "none"

ASSUME JobsAssumption == NoJob \notin Jobs

VARIABLES
  place,         \* SQS: job -> where its message is
  step,          \* worker -> the await it is at
  job,           \* worker -> the job it works on
  total,         \* worker -> total_decisions of the metrics it fetched
  decisions,     \* Postgres: the risk results of the window
  failures,      \* the failures so far
  completed,     \* history: the jobs whose workflow returned
  plenty         \* history: there were MinDecisions at some time

retraining == <<place, step, job, total, decisions, failures, completed, plenty>>

Places == {"absent", "visible", "inFlight", "deleted"}

RetrainTypeOK ==
  /\ place \in [Jobs -> Places]
  /\ step \in [Workers -> {"poll", "fetch", "decide", "delete"}]
  /\ job \in [Workers -> Jobs \cup {NoJob}]
  /\ total \in [Workers -> 0 .. MaxDecisions]
  /\ decisions \in 0 .. MaxDecisions
  /\ failures \in 0 .. MaxFailures
  /\ completed \in SUBSET Jobs
  /\ plenty \in BOOLEAN

RetrainInit ==
  /\ place = [m \in Jobs |-> "absent"]
  /\ step = [w \in Workers |-> "poll"]
  /\ job = [w \in Workers |-> NoJob]
  /\ total = [w \in Workers |-> 0]
  /\ decisions = 0
  /\ failures = 0
  /\ completed = {}
  /\ plenty = (MinDecisions = 0)

-----------------------------------------------------------------------------
Enqueue(m) ==
  /\ place[m] = "absent"
  /\ place' = [place EXCEPT ![m] = "visible"]
  /\ UNCHANGED <<step, job, total, decisions, failures, completed, plenty>>

(* The worker is at its poll loop again; what it held stays in flight. *)
Release(w) ==
  /\ step' = [step EXCEPT ![w] = "poll"]
  /\ job' = [job EXCEPT ![w] = NoJob]

OneMoreFailure == failures < MaxFailures /\ failures' = failures + 1

(* receive_message for one message, which is invisible for 600 s then. *)
Poll(w) ==
  /\ step[w] = "poll"
  /\ \E m \in Jobs :
       /\ place[m] = "visible"
       /\ place' = [place EXCEPT ![m] = "inFlight"]
       /\ job' = [job EXCEPT ![w] = m]
  /\ step' = [step EXCEPT ![w] = "fetch"]
  /\ UNCHANGED <<total, decisions, failures, completed, plenty>>

(* monitor_performance: the count of the window's decisions.  The rates    *)
(* that the other statements of the session yield decide nothing.          *)
FetchMetrics(w) ==
  /\ step[w] = "fetch"
  /\ \/ /\ total' = [total EXCEPT ![w] = decisions]
        /\ step' = [step EXCEPT ![w] = "decide"]
        /\ UNCHANGED <<job, failures>>
     \/ OneMoreFailure /\ Release(w) /\ UNCHANGED total
  /\ UNCHANGED <<place, decisions, completed, plenty>>

(* Mutant of AnalyzeAndDecide: a workflow that raised is acknowledged too. *)
AcknowledgeAnyOutcome(w) ==
  /\ step[w] = "decide"
  /\ completed' = IF total[w] < MinDecisions THEN completed \cup {job[w]} ELSE completed
  /\ step' = [step EXCEPT ![w] = "delete"]
  /\ UNCHANGED <<place, job, total, decisions, failures, plenty>>

(* analyze_and_decide: it stops for want of data, or raises. *)
AnalyzeAndDecide(w) ==
  /\ step[w] = "decide"
  /\ \/ /\ total[w] < MinDecisions
        /\ completed' = completed \cup {job[w]}
        /\ step' = [step EXCEPT ![w] = "delete"]
        /\ UNCHANGED job
     \/ total[w] >= MinDecisions /\ Release(w) /\ UNCHANGED completed
  /\ UNCHANGED <<place, total, decisions, failures, plenty>>

(* Mutant of Acknowledge: it is forgotten when there was too little data. *)
AcknowledgeNothing(w) ==
  /\ step[w] = "delete"
  /\ Release(w)
  /\ UNCHANGED <<place, total, decisions, failures, completed, plenty>>

(* delete_message.  If another worker holds the message by now the receipt *)
(* is not the latest, and the delete may have no effect.                   *)
Acknowledge(w) ==
  /\ step[w] = "delete"
  /\ \/ /\ place' = [place EXCEPT ![job[w]] = "deleted"]
        /\ failures' = failures \/ OneMoreFailure
     \/ /\ \/ failures' = failures /\ \E v \in Workers \ {w} : job[v] = job[w]
           \/ OneMoreFailure
        /\ UNCHANGED place
  /\ Release(w)
  /\ UNCHANGED <<total, decisions, completed, plenty>>

Restart(w) ==
  /\ step[w] # "poll"
  /\ OneMoreFailure
  /\ Release(w)
  /\ UNCHANGED <<place, total, decisions, completed, plenty>>

(* The 600 s are over.  The workflow's own timeout is 600 s too, counted   *)
(* from later, so that a slow run may still be at it.                      *)
Reappear(m) ==
  /\ place[m] = "inFlight"
  /\ \/ failures' = failures /\ \A w \in Workers : job[w] # m
     \/ OneMoreFailure
  /\ place' = [place EXCEPT ![m] = "visible"]
  /\ UNCHANGED <<step, job, total, decisions, completed, plenty>>

(* The risk worker records a decision. *)
RecordDecision ==
  /\ decisions < MaxDecisions
  /\ decisions' = decisions + 1
  /\ plenty' = (plenty \/ decisions' >= MinDecisions)
  /\ UNCHANGED <<place, step, job, total, failures, completed>>

(* A decision is seven days old. *)
LeaveWindow ==
  /\ decisions > 0
  /\ decisions' = decisions - 1
  /\ UNCHANGED <<place, step, job, total, failures, completed, plenty>>

Work(w) == Poll(w) \/ FetchMetrics(w) \/ AnalyzeAndDecide(w) \/ Acknowledge(w)

RetrainNext ==
  \/ \E w \in Workers : Work(w) \/ Restart(w)
  \/ \E m \in Jobs : Reappear(m)
  \/ RecordDecision
  \/ LeaveWindow

(* The worker polls again and again, and the queue's timer runs. *)
RetrainFairness ==
  /\ \A w \in Workers : WF_retraining(Work(w))
  /\ \A m \in Jobs : WF_retraining(Reappear(m))

-----------------------------------------------------------------------------
(* mlops_consumer.py:116, "acks_late - only delete after successful        *)
(* completion": a request that is gone had its workflow run to an end,     *)
(* whatever failed and whoever else had the message.                       *)
DeletedIsDecided ==
  \A m \in Jobs : place[m] = "deleted" => m \in completed

(* mlops.py:37-41, "The analyst-service picks it up asynchronously, runs   *)
(* the LlamaIndex RetrainingWorkflow (...), and logs the result": a        *)
(* request in the queue is decided.                                        *)
EveryRequestIsDecided ==
  \A m \in Jobs : place[m] = "visible" ~> place[m] = "deleted"
=============================================================================

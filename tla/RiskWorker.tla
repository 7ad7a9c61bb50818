----------------------------- MODULE RiskWorker -----------------------------
(***************************************************************************)
(* The risk engine's worker: it consumes the TransactionQueued events of   *)
(* aegis-transactions and does, one await after the other, the work the    *)
(* synchronous path left: the account profile, the risk result, the        *)
(* trigger for the analyst, the RiskCompleted event.  It deletes a message *)
(* last.  Beside it, the engine's evaluations load account profiles        *)
(* through the Redis cache that the worker invalidates.                    *)
(*                                                                         *)
(* A delivery is one receipt of one message.  Deliveries run concurrently: *)
(* a batch is processed with asyncio.gather, by several workers, and two   *)
(* deliveries of one message overlap if the first outlives the timeout.    *)
(***************************************************************************)
EXTENDS WorkQueue, FiniteSets

CONSTANTS
  Transactions,
  Copies,        \* the copies a transaction's event may be sent in
  Accounts,
  Evaluations,   \* risk evaluations that load a profile
  FlagAfter,     \* the transactions an account needs to be flagged, 5 in the code
  Faults         \* what may go wrong in this instance, a subset of FaultKinds

FaultKinds ==
  {"redis",      \* a Redis command raises
   "db",         \* a session raises, before or after its commit
   "sqs",        \* a send or a delete raises
   "crash",      \* a delivery is abandoned at an await
   "slow",       \* a delivery may outlive the 30 s visibility timeout
   "ttl"}        \* cache entries and counters expire

ASSUME WorkerAssumption ==
  /\ Messages = Transactions \X Copies
  /\ FlagAfter \in Nat
  /\ Faults \subseteq FaultKinds

Deliveries == Messages \X (1 .. MaxReceives)
Decisions  == {"APPROVE", "REVIEW", "BLOCK"}

VARIABLES
  event,         \* transaction -> the sender and decision its event carries
  pc,            \* delivery -> the await it is at
  profile,       \* Postgres: account -> its row of account_profiles
  cache,         \* Redis: the entries profile:{account}
  failed,        \* Redis: account -> the counter failed:1h:{account}
  expiring,      \* Redis: the accounts whose counter has a TTL
  results,       \* Postgres: the transactions with a row in risk_results
  triggers,      \* transaction -> triggers sent to aegis-agent-investigations
  completions,   \* transaction -> events sent to aegis-risk-completed
  commits,       \* history: the deliveries whose profile update was committed
  load           \* evaluation -> where its profile load is, and what it read

outbox == <<triggers, completions>>
redis  == <<cache, failed, expiring>>
vars   == <<queue, event, pc, profile, redis, results, outbox, commits, load>>

Profiles == [exists : BOOLEAN, total : Nat, blocked : Nat, flagged : BOOLEAN]

Blank(exists) == [exists |-> exists, total |-> 0, blocked |-> 0, flagged |-> FALSE]

Steps == {"select", "create", "invalidate", "incr", "expire", "save", "trigger",
          "complete", "delete"}

TypeOK ==
  /\ QueueTypeOK
  /\ event \in [Transactions -> [sender : Accounts, decision : Decisions]]
  /\ pc \in [Deliveries -> Steps \cup {"none", "done", "failed"}]
  /\ profile \in [Accounts -> Profiles]
  /\ cache \in SUBSET [account : Accounts, profile : Profiles]
  /\ failed \in [Accounts -> Nat]
  /\ expiring \in SUBSET Accounts
  /\ results \in SUBSET Transactions
  /\ triggers \in [Transactions -> Nat]
  /\ completions \in [Transactions -> Nat]
  /\ commits \in SUBSET Deliveries
  /\ load \in [Evaluations -> [at : {"get", "create", "setex", "done"},
                               account : Accounts, read : Profiles]]

Init ==
  /\ QueueInit
  /\ event \in [Transactions -> [sender : Accounts, decision : Decisions]]
  /\ pc = [d \in Deliveries |-> "none"]
  /\ profile = [a \in Accounts |-> Blank(FALSE)]
  /\ cache = {}
  /\ failed = [a \in Accounts |-> 0]
  /\ expiring = {}
  /\ results = {}
  /\ triggers = [t \in Transactions |-> 0]
  /\ completions = [t \in Transactions |-> 0]
  /\ commits = {}
  /\ load \in [Evaluations -> [at : {"get"}, account : Accounts, read : {Blank(FALSE)}]]

-----------------------------------------------------------------------------
Message(d)     == d[1]
Transaction(d) == Message(d)[1]
Sender(d)      == event[Transaction(d)].sender
(* Mutant: only blocked transactions are investigated. *)
OnlyBlocked(d) == event[Transaction(d)].decision = "BLOCK"

Risky(d)       == event[Transaction(d)].decision \in {"REVIEW", "BLOCK"}

Goto(d, step) == pc' = [pc EXCEPT ![d] = step]

(* The exception handler: the message is left to its visibility timeout. *)
Fail(d, fault) == fault \in Faults /\ Goto(d, "failed")

(* upsert_after_transaction on a row p: the counters, and the flag for an  *)
(* account with more than 20% of its transactions blocked.                 *)
Upserted(p, decision) ==
  LET total   == p.total + 1
      blocked == p.blocked + IF decision = "BLOCK" THEN 1 ELSE 0
  IN  [exists  |-> TRUE, total |-> total, blocked |-> blocked,
       flagged |-> p.flagged \/ (total >= FlagAfter /\ 5 * blocked > total)]

(* The upsert's commit, starting from row p. *)
CommitProfile(d, p) ==
  /\ profile' = [profile EXCEPT ![Sender(d)] =
                   Upserted(p, event[Transaction(d)].decision)]
  /\ commits' = commits \cup {d}

WithoutEntry(a) == {e \in cache : e.account # a}

-----------------------------------------------------------------------------
(* The transaction service sends the event. *)
Publish(m) == Send(m) /\ UNCHANGED <<event, pc, profile, redis, results, outbox, commits, load>>

(* The worker receives message m, and its task starts. *)
Receive(m) ==
  /\ HandOut(m)
  /\ Goto(<<m, received[m] + 1>>, "select")
  /\ UNCHANGED <<event, profile, redis, results, outbox, commits, load>>

(* Step 1: SELECT FOR UPDATE.  A row stays locked until the commit; an     *)
(* account without a row has nothing to lock.                              *)
SelectProfile(d) ==
  /\ pc[d] = "select"
  /\ \/ /\ profile[Sender(d)].exists
        /\ CommitProfile(d, profile[Sender(d)])
        /\ Goto(d, "invalidate") \/ Fail(d, "db")
     \/ /\ ~profile[Sender(d)].exists /\ Goto(d, "create")
        /\ UNCHANGED <<profile, commits>>
     \/ Fail(d, "db") /\ UNCHANGED <<profile, commits>>
  /\ UNCHANGED <<queue, event, redis, results, outbox, load>>

(* Mutant: a row that came up since the SELECT is overwritten. *)
CreateOverwriting(d) ==
  /\ pc[d] = "create"
  /\ CommitProfile(d, Blank(FALSE))
  /\ Goto(d, "invalidate")
  /\ UNCHANGED <<queue, event, redis, results, outbox, load>>

(* The INSERT of the row that was missing, which fails if it came up since. *)
CreateProfile(d) ==
  /\ pc[d] = "create"
  /\ \/ /\ ~profile[Sender(d)].exists
        /\ CommitProfile(d, Blank(FALSE))
        /\ Goto(d, "invalidate") \/ Fail(d, "db")
     \/ /\ profile[Sender(d)].exists \/ "db" \in Faults
        /\ Goto(d, "failed")
        /\ UNCHANGED <<profile, commits>>
  /\ UNCHANGED <<queue, event, redis, results, outbox, load>>

(* DEL profile:{account}; an error of Redis is logged. *)
InvalidateCache(d) ==
  /\ pc[d] = "invalidate"
  /\ cache' = WithoutEntry(Sender(d)) \/ ("redis" \in Faults /\ UNCHANGED cache)
  /\ Goto(d, IF Risky(d) THEN "incr" ELSE "save")
  /\ UNCHANGED <<queue, event, profile, failed, expiring, results, outbox, commits, load>>

(* INCR failed:1h:{account}, for a transaction that was not approved. *)
CountFailed(d) ==
  /\ pc[d] = "incr"
  /\ \/ failed' = [failed EXCEPT ![Sender(d)] = @ + 1] /\ Goto(d, "expire")
     \/ "redis" \in Faults /\ Goto(d, "save") /\ UNCHANGED failed
  /\ UNCHANGED <<queue, event, profile, cache, expiring, results, outbox, commits, load>>

(* EXPIRE of that counter, a command of its own. *)
SetExpiry(d) ==
  /\ pc[d] = "expire"
  /\ \/ expiring' = IF failed[Sender(d)] > 0 THEN expiring \cup {Sender(d)} ELSE expiring
     \/ "redis" \in Faults /\ UNCHANGED expiring
  /\ Goto(d, "save")
  /\ UNCHANGED <<queue, event, profile, cache, failed, results, outbox, commits, load>>

(* Mutant: a result that cannot be saved is logged and passed over. *)
SavePassingOverErrors(d) ==
  /\ pc[d] = "save"
  /\ \/ results' = results \cup {Transaction(d)}
     \/ "db" \in Faults /\ UNCHANGED results
  /\ Goto(d, IF Risky(d) THEN "trigger" ELSE "complete")
  /\ UNCHANGED <<queue, event, profile, redis, outbox, commits, load>>

(* Mutant: the message is deleted before its result is saved. *)
SaveAfterDelete(d) ==
  /\ pc[d] = "save"
  /\ \/ /\ Remove(Message(d), d[2])
        /\ results' = results \cup {Transaction(d)}
        /\ Goto(d, IF Risky(d) THEN "trigger" ELSE "complete")
     \/ Remove(Message(d), d[2]) /\ Fail(d, "db") /\ UNCHANGED results
  /\ UNCHANGED <<event, profile, redis, outbox, commits, load>>

(* Step 3: INSERT ... ON CONFLICT DO NOTHING and the commit. *)
SaveResult(d) ==
  /\ pc[d] = "save"
  /\ \/ /\ results' = results \cup {Transaction(d)}
        /\ Goto(d, IF Risky(d) THEN "trigger" ELSE "complete") \/ Fail(d, "db")
     \/ Fail(d, "db") /\ UNCHANGED results
  /\ UNCHANGED <<queue, event, profile, redis, outbox, commits, load>>

(* Mutant: a trigger that cannot be sent fails the delivery. *)
TriggerRaising(d) ==
  /\ pc[d] = "trigger"
  /\ \/ triggers' = [triggers EXCEPT ![Transaction(d)] = @ + 1] /\ Goto(d, "complete")
     \/ Goto(d, "failed") /\ UNCHANGED triggers
  /\ UNCHANGED <<queue, event, profile, redis, results, completions, commits, load>>

(* Step 4: the trigger; a send that fails, delivered or not, is logged. *)
SendTrigger(d) ==
  /\ pc[d] = "trigger"
  /\ \/ triggers' = [triggers EXCEPT ![Transaction(d)] = @ + 1]
     \/ "sqs" \in Faults /\ UNCHANGED triggers
  /\ Goto(d, "complete")
  /\ UNCHANGED <<queue, event, profile, redis, results, completions, commits, load>>

(* Step 5: the RiskCompleted event, in the same way. *)
SendCompletion(d) ==
  /\ pc[d] = "complete"
  /\ \/ completions' = [completions EXCEPT ![Transaction(d)] = @ + 1]
     \/ "sqs" \in Faults /\ UNCHANGED completions
  /\ Goto(d, "delete")
  /\ UNCHANGED <<queue, event, profile, redis, results, triggers, commits, load>>

(* Step 6: the acknowledgement. *)
Acknowledge(d) ==
  /\ pc[d] = "delete"
  /\ \/ Remove(Message(d), d[2]) /\ (Goto(d, "done") \/ Fail(d, "sqs"))
     \/ Fail(d, "sqs") /\ UNCHANGED queue
  /\ UNCHANGED <<event, profile, redis, results, outbox, commits, load>>

(* The delivery is abandoned: its process ends. *)
Crash(d) ==
  /\ pc[d] \in Steps
  /\ Fail(d, "crash")
  /\ UNCHANGED <<queue, event, profile, redis, results, outbox, commits, load>>

(* The visibility timeout: it outlasts every delivery unless one is slow. *)
TimeOut(m) ==
  /\ Reappear(m)
  /\ "slow" \in Faults \/ pc[<<m, received[m]>>] \notin Steps
  /\ UNCHANGED <<event, pc, profile, redis, results, outbox, commits, load>>

DeadLetter(m) ==
  /\ Redrive(m)
  /\ UNCHANGED <<event, pc, profile, redis, results, outbox, commits, load>>

-----------------------------------------------------------------------------
At(e, step, p) == load' = [load EXCEPT ![e].at = step, ![e].read = p]

(* _load_profile_cached: the entry if there is one, else the row. *)
LoadProfile(e) ==
  LET a == load[e].account IN
  /\ load[e].at = "get"
  /\ \/ \E c \in cache : c.account = a /\ At(e, "done", c.profile)
     \/ /\ "redis" \in Faults \/ \A c \in cache : c.account # a
        /\ \/ At(e, IF profile[a].exists THEN "setex" ELSE "create", profile[a])
           \/ "db" \in Faults /\ At(e, "done", load[e].read)
  /\ UNCHANGED <<queue, event, pc, profile, redis, results, outbox, commits>>

(* Mutant: get_or_create overwrites a row that came up since. *)
CreateBlankOverwriting(e) ==
  /\ load[e].at = "create"
  /\ profile' = [profile EXCEPT ![load[e].account] = Blank(TRUE)]
  /\ At(e, "setex", Blank(TRUE))
  /\ UNCHANGED <<queue, event, pc, redis, results, outbox, commits>>

(* get_or_create inserts a blank row; the evaluation fails if it came up. *)
CreateBlank(e) ==
  LET a == load[e].account IN
  /\ load[e].at = "create"
  /\ \/ /\ ~profile[a].exists
        /\ profile' = [profile EXCEPT ![a] = Blank(TRUE)]
        /\ At(e, "setex", Blank(TRUE))
     \/ /\ profile[a].exists \/ "db" \in Faults
        /\ At(e, "done", load[e].read) /\ UNCHANGED profile
  /\ UNCHANGED <<queue, event, pc, redis, results, outbox, commits>>

(* The SETEX that the evaluation left to a task of its own. *)
StoreEntry(e) ==
  LET a == load[e].account IN
  /\ load[e].at = "setex"
  /\ \/ cache' = WithoutEntry(a) \cup {[account |-> a, profile |-> load[e].read]}
     \/ "redis" \in Faults /\ UNCHANGED cache
  /\ At(e, "done", load[e].read)
  /\ UNCHANGED <<queue, event, pc, profile, failed, expiring, results, outbox, commits>>

(* The 30 s of an entry, and the hour of a counter. *)
ExpireEntry(a) ==
  /\ "ttl" \in Faults /\ \E e \in cache : e.account = a
  /\ cache' = WithoutEntry(a)
  /\ UNCHANGED <<queue, event, pc, profile, failed, expiring, results, outbox, commits, load>>

ExpireCounter(a) ==
  /\ "ttl" \in Faults /\ a \in expiring
  /\ failed' = [failed EXCEPT ![a] = 0]
  /\ expiring' = expiring \ {a}
  /\ UNCHANGED <<queue, event, pc, profile, cache, results, outbox, commits, load>>

-----------------------------------------------------------------------------
Process(d) ==
  \/ SelectProfile(d) \/ CreateProfile(d) \/ InvalidateCache(d) \/ CountFailed(d)
  \/ SetExpiry(d) \/ SaveResult(d) \/ SendTrigger(d) \/ SendCompletion(d)
  \/ Acknowledge(d)

Deliver(m) == Receive(m) \/ TimeOut(m) \/ DeadLetter(m)

Evaluate(e) == LoadProfile(e) \/ CreateBlank(e) \/ StoreEntry(e)

Next ==
  \/ \E m \in Messages : Publish(m) \/ Deliver(m)
  \/ \E d \in Deliveries : Process(d) \/ Crash(d)
  \/ \E e \in Evaluations : Evaluate(e)
  \/ \E a \in Accounts : ExpireEntry(a) \/ ExpireCounter(a)

Spec == Init /\ [][Next]_vars

(* The event loop runs every ready task, the poll loop receives again and  *)
(* again, and the queue's timer runs.                                      *)
FairSpec ==
  /\ Spec
  /\ \A m \in Messages : WF_vars(Deliver(m))
  /\ \A d \in Deliveries : WF_vars(Process(d))

-----------------------------------------------------------------------------
(* The updates of an account's profile, and those of them that blocked.    *)
CommitsOf(a) == {d \in commits : Sender(d) = a}
BlockingCommitsOf(a) == {d \in CommitsOf(a) : event[Transaction(d)].decision = "BLOCK"}

(* A profile has counted transaction t. *)
Counted(t) == \E d \in commits : Transaction(d) = t

(* AcknowledgedIsRecorded: a message is deleted only when its transaction  *)
(* is in its sender's profile and its risk result is saved, whatever       *)
(* crashes, overlaps or is delivered again.                                *)
AcknowledgedIsRecorded ==
  \A m \in Messages : place[m] = "deleted" => Counted(m[1]) /\ m[1] \in results

(* PublishedIsRecorded: whoever learns of a transaction from the trigger   *)
(* or from the RiskCompleted event finds its risk result in the table.     *)
PublishedIsRecorded ==
  \A t \in Transactions : triggers[t] + completions[t] > 0 => t \in results

(* NoLostUpdate: a profile's counters count every commit that was made for *)
(* the account: deliveries and evaluations that meet on one account, its   *)
(* first transaction included, never overwrite each other.                 *)
NoLostUpdate ==
  \A a \in Accounts :
    /\ profile[a].total   = Cardinality(CommitsOf(a))
    /\ profile[a].blocked = Cardinality(BlockingCommitsOf(a))

(* DeletedAfterEverything: a message is deleted only after its RiskCompleted *)
(* event and, for a transaction not approved, its trigger were sent.       *)
DeletedAfterEverything ==
  \A m \in Messages : place[m] = "deleted" =>
    /\ completions[m[1]] > 0
    /\ event[m[1]].decision # "APPROVE" => triggers[m[1]] > 0

(* CountedOnce: a profile counts each transaction at most once. *)
CountedOnce == \A d, e \in commits : Transaction(d) = Transaction(e) => d = e

(* EveryMessageSettles: a message that was sent is in the end deleted, or  *)
(* moved to the dead letter queue, whatever fails on the way.              *)
EveryMessageSettles == \A m \in Messages : place[m] = "visible" ~> Settled(m)

(* EveryMessageIsProcessed: with a healthy database and queue a message    *)
(* that was sent is in the end deleted, not given up, even if the first    *)
(* delivery of a new account loses a race for its row.                     *)
EveryMessageIsProcessed ==
  \A m \in Messages : place[m] = "visible" ~> place[m] = "deleted"

-----------------------------------------------------------------------------
(* The worker implements the book that the rest of the system relies on.   *)
Book == INSTANCE RiskBook WITH
  tally     <- [a \in Accounts |-> [total   |-> profile[a].total,
                                    blocked |-> profile[a].blocked]],
  flagged   <- {a \in Accounts : profile[a].flagged},
  counted   <- {t \in Transactions : Counted(t)},
  recorded  <- results,
  announced <- {t \in Transactions : triggers[t] + completions[t] > 0},
  dismissed <- {m[1] : m \in {n \in Messages : place[n] = "deleted"}}

(* ImplementsBook: every step of a delivery or an evaluation enters one    *)
(* thing into the book, in the book's order, or nothing.                   *)
ImplementsBook == Book!Spec
=============================================================================

# aegis-risk: a TLA+ model

TLA+ models of aegis-risk, the configurations that model-check them with TLC,
and proofs of their central properties that TLAPS checks. The models are
translated from the Python sources under `src/`; where a document of the
repository says something else, the code wins and the difference is listed
under *Where code and documents differ*.

```
tlc -config ServiceFaulty.cfg MCTransactionService.tla     # model checking
tlapm TransactionServiceProofs.tla                         # proofs
```

## 1. The system

aegis-risk decides on payment transactions. A request crosses five services;
what need not be decided at once is done by four queue consumers.

```
client -> API gateway -> transaction service -> risk engine -> ML service
                              |   (gRPC, synchronous: decision in the answer)
                              v
                  SQS aegis-transactions
                              v
                        risk worker -- SQS aegis-agent-investigations --> analyst worker
                              |        (reinvestigations of the gateway go there too)
                              +------- SQS aegis-risk-completed --------> notification service -> webhooks

API gateway -- SQS aegis-model-retrain-requests --> retraining worker
```

| Component | Source (under `src/services/`) | State it keeps | Operations | Module |
|---|---|---|---|---|
| Transaction service | `transaction-service/app` | Postgres `transactions`, Redis `idempotency:{key}` and `idempotency:lock:{key}` | `CreateTransaction`, `UpdateTransactionStatus`, `GetTransaction` (reads) | `TransactionService`, `TransactionLedger` |
| Queues | `src/infra/localstack-init.sh` | messages, receive counts, dead letters | send, receive, delete, visibility timeout, redrive | `WorkQueue` |
| Risk worker | `risk-engine-service/app/worker.py` | Postgres `account_profiles` and `risk_results`, Redis `failed:1h:*`, `profile:*` | one pipeline per received event | `RiskWorker`, `RiskBook` |
| Account profiles | `.../repositories/account_profile_repo.py` | the row of `account_profiles`: counters, flag, average, windows, known receivers and devices | upsert, get or create, cached load | `RiskWorker` (counters, flag, decisions), `AccountActivity` (the rest) |
| Risk engine | `.../engine` | Redis `velocity:1h:*`, `burst:*`, `profile:*` | `evaluate`: profile, gathered Redis commands, rules, scorer, ML call | `AccountActivity` (memory), `RiskScoring` (decision) |
| ML service | `ml-service/app` | the loaded model | score, reload | an external answer in `RiskScoring` |
| Analyst worker | `analyst-service/app/queue/sqs_consumer.py` | the report columns of `risk_results` | guard, investigate, write back, delete | `AnalystWorker` |
| Notification service | `notification-service/app` | Postgres `webhooks` with counters | `RegisterWebhook`, `SendNotification`, one delivery loop per event | `NotificationService` |
| API gateway | `api-gateway/app` | a cached set of Cognito's signing keys | create, read, reinvestigate, retrain, each behind authentication and role guards | `ApiGateway` |
| Model retraining | `analyst-service/app/workflows`, `.../queue/mlops_consumer.py` | a queue without a redrive policy | poll, metrics, decide, delete | `ModelRetraining`, composed with the gateway in `RetrainRequests` |

### What is hard about it

* **Interleaving.** Every service is an asyncio event loop in several replicas.
  A handler's state is only its own between two awaits; cache, lock and table
  are three stores that are read and written one after the other.
* **At-least-once delivery.** SQS hands a message out again whenever a worker
  fails, crashes, or is slower than the 30 s visibility timeout. A batch is
  processed with `asyncio.gather`, so that deliveries of related messages, or
  of the same one, run side by side.
* **Partial failure.** Redis, Postgres, SQS, the engine, the LLM and the
  webhooks can each fail, before or after a command took effect. Most errors
  are caught: some are logged and passed over, some end the delivery.
* **Abandonment.** `grpc.aio` cancels a handler when its caller's deadline
  passes; a crash abandons all of them. What they did stays, the lock too.
* **Tasks nobody waits for.** An evaluation leaves the EXPIREs of its keys and
  the store of its cached profile to background tasks, which run late, in any
  order, after another evaluation's, or never.
* **Knowledge that changes elsewhere.** Cognito adds and withdraws signing keys
  while the gateway holds a copy of an hour ago; a profile is cached while the
  worker updates its row.
* **Numeric edges.** The decision is a step function of a blend of step
  functions: severities, multipliers, boosts, a damping threshold, weights
  that apply only if there is an anomaly score, and bands.

The hazards, each at its line with the properties that cover it, are listed in
`PROJECT.json` under `hazards`.

### What makes each component correct

* Transaction service: one transaction per idempotency key, whatever fails;
  everybody who is answered is told that one; only it is announced; no failure
  approves a payment; every handler ends.
* Risk worker: nothing is acknowledged or published before it is recorded; no
  profile update is lost; no event circulates forever.
* Analyst worker: a trigger is only dropped when the transaction has a report;
  a report is never lost; a transaction is investigated once.
* Notification service: no subscriber is skipped because of another one; no
  tenant sees another tenant's transactions.
* Account memory: what an evaluation put into Redis and kept alive stays for the
  key's TTL; a new receiver is flagged, and once per burst; nothing passes as
  known that nobody saw; average and windows stay true.
* Gateway: nothing beyond the token's groups is answered or sent, nobody but the
  client "admin" reads, or has investigated again, what is another tenant's, and a
  new transaction is its submitter's; a key in use is accepted, a withdrawn one
  forgotten; a reading tells of the report as it is; every request is answered.
* Retraining: a request is only gone when its workflow came to an end.
* Scoring: more evidence never helps a transaction; one rule never decides;
  an uncertain anomaly score never makes a decision stricter; every flag has a
  reason.

## 2. The modules

| Module | What it models | State and actions |
|---|---|---|
| `TransactionLedger` | abstract: what callers are promised, a write-once register per key | `book`, `told`, `announced`; `Record`, `Tell`, `Announce` |
| `TransactionService` | the `CreateTransaction` handler, one action per await, and `UpdateTransactionStatus` | `pc` is the await; `cache`, `locks`, `ledger`, `published` are Redis, Postgres and SQS; `replies`, `refusals` what callers got |
| `WorkQueue` | one SQS queue with a redrive policy; operators the consumers build their steps from | `place`, `received` |
| `RiskBook` | abstract: what the worker's concurrent deliveries amount to, one bookkeeper who counts a transaction, then records it, then announces it and dismisses its event | `tally`, `flagged`, `counted`, `recorded`, `announced`, `dismissed`; `Count`, `Record`, `Announce`, `Dismiss` |
| `RiskWorker` | the six steps of a delivery, and evaluations that load profiles through the cache | `pc` per delivery (message and receipt), `profile`, `cache`, `failed`, `expiring`, `results`, `triggers`, `completions`, `load`, history `commits` |
| `AnalystWorker` | guard, agent run, write-back and delete; triggers of the risk worker and reinvestigations of the gateway | `pc`, `results`, `report`, history `written` |
| `NotificationService` | registration, the delivery loop with its retries, the counters, the direct RPC | `pc` and `work` per job, `registered`, `delivered`, `failures`, `posted`, history `due` and `tried` |
| `AccountActivity` | what the engine remembers of one sender: load through the cache, the gathered commands one by one, the background tasks, Redis's clock, and the worker's update of the row | `row`, `cache`, `key` (members and deadline of each Redis key), per evaluation `pc`, `seen`, `flight`, `answer`, `judged`; `tasks`; histories `at`, `kept`, `counted` |
| `ApiGateway` | one action per await of the four kinds of request, authentication as one (it is synchronous), and Cognito's rotation of its keys | `pc`, `code`, `shown` per request; `jwks` the cache, `keys` Cognito's; `rows`, `reports`, `sent` upstream |
| `ModelRetraining` | the worker's loop and the workflow up to the step that raises | `step`, `job`, `total` per worker, `place` per message, `decisions` of the window |
| `RetrainRequests` | both composed: the gateway's step that sends a retraining request is the step that enqueues its message | |
| `RiskScoring` | one evaluation from the rules to the decision, in exact integer units | `phase`, `request`, `scores`, `ml`, `assessment` |
| `...Proofs` | the theorems of the module they are named after | |
| `MC...` | the definitions the configurations need | |

`RiskWorker`, `AnalystWorker` and `NotificationService` extend `WorkQueue`: an
action of theirs is a step of the queue together with a step of the consumer
(`Receive`, `Acknowledge`, `TimeOut`, `DeadLetter`). The consumers are not
composed with each other: what one needs of its predecessor is in its own
`Publish`, `SaveResult` or `SendTrigger` action, whose guard says what the
predecessor's proof guarantees (`AnalystWorker!SendTrigger` requires the row
that `PublishedIsRecorded` promises). `RetrainRequests` is a composition proper:
each action is a step of the gateway, a step of the worker, or the one step of
both, and its properties relate an answer of the one to a message of the other.
`ModelRetraining` does not extend `WorkQueue`, because its queue has no redrive
policy and keeps no receive count.

### How code becomes actions

* An action is what a handler does from one await to the next. The await that
  touches a shared store is the step; code in between changes locals only.
* A transaction of the database is one action, taken at its commit. A session
  that raises may have committed or not; both outcomes are alternatives of the
  action (`Goto(d, "save") \/ Fail(d, "db")` beside the write).
* A caught error is an alternative that carries on (Redis in the worker, sends
  in `SendTrigger`); an error that reaches the handler's `except` is `Fail`,
  after which the message waits for its visibility timeout.
* `Faults` is the set of things that may go wrong in an instance. Every proof
  is for any set of faults unless its statement says otherwise.
* What a gather sends is a set of commands in flight, and each is executed by an
  action of its own, in any order and also after the gather raised. A background
  task is a member of a set; one that is lost is one that is never run.
* A delivery is a pair of message and receipt number, so that two deliveries of
  one message have a `pc` each and can overlap.
* History variables (`commits`, `counted`, `written`, `due`, `tried`, `approvals`, `at`,
  `kept`, `retired`, `held`, `unenriched`, `completed`, `plenty`) record
  what the properties speak about and guard nothing.
* Amounts, names and payloads are model values (`Terms`) except in
  `AccountActivity`, whose amounts are cents because the average is rounded to
  them, and `RiskScoring`, where the numbers are the point: scores are integers in units
  in which the blend `0.6 * rules + 0.4 * 100 * ml` is exact.
* Operators headed `Mutant` change one definition the way a plausible bug would.
  No action uses them: putting one in place of its definition must make the
  property named beside it in `PROJECT.json` fail, which shows that the property
  is about the code.

## 3. The runs

| Run | Asks | Bounds |
|---|---|---|
| `ServiceFaulty` | With everything failing: do all accepted calls with a key agree (`RetriesAgree`), on a committed row (`ReplyIsDurable`), with at most one transaction announced (`OneStreamPerKey`), and does the service implement the ledger (`ImplementsLedger`)? | 3 calls, 1 key, a tenant and an unscoped caller, 2 publish attempts, all faults; calls are symmetric |
| `ServiceHealthy` | With Redis answering and nobody outliving the lock: one processor per key, no call told other terms, nothing approved by default (`NeverSilentlyApproved`), every handler ends | 2 calls, 2 terms, 2 tenants, every status update, faults in database, queue, engine, cache expiry and cancellation |
| `WorkerFaulty` | With everything failing: is what was acknowledged or published recorded, is no profile update lost (`NoLostUpdate`), does every event settle, and are all writes those of one bookkeeper (`ImplementsBook`)? | 1 event, 2 receipts, 1 evaluation, all faults |
| `WorkerHealthy` | Without redelivery after a commit: is each transaction counted once, deleted only after its events were sent, and in the end deleted although one delivery loses the race for a new profile? | 2 transactions of 1 account, 3 receipts, 1 evaluation, Redis faults and expiry |
| `AnalystFaulty` | With everything failing: is a trigger only dropped when its row has a report (`TriggerIsAnswered`) or its retries are used up, is one report written unless deliveries overlap (`InvestigatedOnce`), does a report stay, does every message settle? | 1 transaction, a trigger and a reinvestigation, 3 receipts each, `MaxRetries` 2 |
| `NotificationFaulty` | Does a subscriber suffer from another one's failures, is a tenant told of another's transaction, and does every event settle? | 1 event with 2 receipts, 1 RPC, 2 webhooks of one tenant, events and calls of 2 tenants, 2 attempts, faults in posts, database, queue, crashes |
| `RiskScoring` | Is the decision monotone, never one rule's, within what the anomaly score allows, and explained? | 13608 requests with amounts, ages, counts and hours on both sides of every threshold, 7 anomaly scores and the fallback |
| `AccountActivity` | Is what is refreshed remembered, a new receiver flagged once per burst and by somebody, nothing laundered into a known one, and are average and windows true? | 2 payments of one account to one receiver, an hour of 1 tick, a day and a burst of 2, time to 2, all faults |
| `RetrainRequests` | Who may do what (`EntitledOnly`), what does an answer tell of (`ReadingsAreCurrent`), which keys open, and is every request seen through to its answer and, if it is a retraining, to its end? | 2 requests, each of 8 kinds, 2 signing keys, 2 tenants, an administrator, 1 worker, 1 failure of the worker, a cache of 1 tick, time to 1, all faults |
| `ReinvestigationSkipped` | violated: `ReinvestigationOverwrites`, for a reinvestigation that is asked for while the row holds a report, under `FairSpec` | 1 transaction, a trigger and a reinvestigation, nothing fails |
| `LowScoreIsApproved` | violated: a score below 30 points is approved | as `RiskScoring` |
| `RetrainNeverDecided` | violated: `EveryRequestIsDecided` under `FairSystem` | 1 request, 1 worker, 1 decision needed and had, nothing fails |

**Why these bounds are enough to be interesting.** Two calls with one key are the
smallest race; the third shows a retry that comes after both, and that a lock
that expired lets a third handler in. Two receipts are the smallest overlap
and, with the redrive at two, reach the dead letter queue; a third receipt
only repeats the second. Two transactions of one new account are the smallest
race for a missing row. Two webhooks are the smallest case of one costing the
other its delivery. Two payments to one receiver are the smallest race for its
flag; two ticks are enough for a key to expire, and to be made anew, between the
command and the task that refreshes it. The run names the receiver only: the
device goes as the receiver does but for what the worker learns, and the proofs
are for both. Two keys and a cache of one tick show a key that is added, one that
is withdrawn, and a cached set that is too old. The theorems below hold for every number of calls,
messages, receipts, accounts, webhooks, evaluations, requests and keys. The type
invariants of the workers, the account memory and the gateway are proved and not
checked again. `NotificationFaulty` leaves out
overlapping deliveries of one message (`"slow"`), which multiply its states;
the two safety properties are proved with them, the liveness property is not.
The code's limits (`MaxReceives` 3, `RETRY_ATTEMPTS` 3, `WEBHOOK_MAX_RETRIES`
3, `FlagAfter` 5) are constants, taken smaller in most runs.

`CHECK_DEADLOCK FALSE` stands in every configuration because an instance has
finitely many calls, messages or requests: when all are settled nothing is
left to do.

### Fairness

Every fair specification states weak fairness of the same three things:

* `Handle(c)`, `Handle(r)`, `Process(d)`, `Work(w)`: the event loop runs every task that is ready. The
  awaits all have a timeout or an exception, and the code catches it.
* `Receive`: the poll loops catch every exception and poll again.
* `TimeOut`, `DeadLetter`, `Reappear`: SQS's timers run.

Nothing else is fair: no fault has to happen or to stop, nobody has to call,
publish, register or evaluate, no key is rotated, no background task runs, and a command that may fail may always fail.
The failures of the retraining worker are bounded instead (`MaxFailures`), for its
queue hands a message out for ever. That is why the faulty runs only promise that a message *settles* (deleted or
dead-lettered), and `EveryMessageIsProcessed` needs a healthy database and
queue. A crashed delivery cannot continue, its message times out.

## 4. What is proved

`tlapm` checks every proof; they use the constants' assumptions only.

| Theorem | Says |
|---|---|
| `TransactionServiceProofs!OneAnswerPerKey` | `RetriesAgree`, for any calls, keys, tenants and faults |
| `TransactionServiceProofs!AnswersAreDurable` | `ReplyIsDurable` |
| `TransactionServiceProofs!OneEventStream` | `OneStreamPerKey` |
| `TransactionServiceProofs!ApprovalIsEarned` | `NeverSilentlyApproved` |
| `TransactionServiceProofs!LockExcludes` | `OneProcessorPerKey`, if neither `"redis"` nor `"slow"` is among the faults |
| `TransactionServiceProofs!ServiceImplementsLedger` | `ImplementsLedger`: the refinement |
| `TransactionServiceProofs!TermsAreHonoured` | `MismatchRejected`, if neither `"redis"` nor `"slow"` is among the faults |
| `RiskWorkerProofs!NoAcknowledgedWorkLost` | `AcknowledgedIsRecorded` |
| `RiskWorkerProofs!NothingPublishedUnrecorded` | `PublishedIsRecorded` |
| `RiskWorkerProofs!EveryUpdateCounts` | `NoLostUpdate`, for any deliveries and evaluations that meet on an account |
| `RiskWorkerProofs!HealthyCountsOnce` | `CountedOnce`, if each event is sent once and the faults are at most `"redis"` and `"ttl"` |
| `RiskWorkerProofs!SentBeforeDeleted` | `DeletedAfterEverything`, if `"sqs"` is not among the faults |
| `RiskWorkerProofs!WorkerImplementsBook` | `ImplementsBook`: the refinement |
| `AnalystWorkerProofs!EveryTriggerAnswered` | `TriggerIsAnswered`: a deleted trigger has its report, or was received more than `MaxRetries` times |
| `AnalystWorkerProofs!NoTriggerIsDropped` | `DeletedTriggersHaveReports` (proved only): no trigger is deleted without a report if `MaxReceives <= MaxRetries`, as deployed (3 and 3) |
| `AnalystWorkerProofs!OneReport` | `InvestigatedOnce`, overlaps excepted |
| `AnalystWorkerProofs!ReportsAreKept` | `ReportIsKept`, an action property |
| `NotificationServiceProofs!EverySubscriberTried` | `NoSubscriberSkipped`, overlapping deliveries included |
| `NotificationServiceProofs!TenantsAreIsolated` | `TenantIsolation` |
| `RiskScoringProofs!CertaintyGovernsMl` | `MlRespectsThreshold`, for every request and anomaly score |
| `RiskScoringProofs!OneRuleIsNotEnough` | `OneRuleNeverBlocks` |
| `RiskScoringProofs!EvidenceOnlyAdds` | `EvidenceIsMonotone`, a statement about two evaluations |
| `RiskScoringProofs!DecisionsAreExplained` | `FlagsAreExplained` |
| `AccountActivityProofs!RememberedForABurst` | `RefreshedIsRemembered`, however late and in whatever order tasks run |
| `AccountActivityProofs!FlaggedOnce` | `FlaggedOncePerBurst` |
| `AccountActivityProofs!NothingIsLaundered` | `KnownWasSeen` |
| `AccountActivityProofs!AverageStaysFaithful` | `AverageIsFaithful`: within (n + 1)/4 cent of the true mean after any number n of updates with any amounts |
| `AccountActivityProofs!WindowsHoldTrue` | `WindowsNeverOvercount`, for any lengths |
| `RetrainRequestsProofs!OnlyTheEntitled` | `EntitledOnly`, for tenants of any id, "admin" included |
| `RetrainRequestsProofs!ReadingsAreLinear` | `ReadingsAreCurrent`, however often a report is overwritten meanwhile |
| `RetrainRequestsProofs!KeysInUseAreAccepted`, `WithdrawnKeysExpire` | `CurrentKeysAreAccepted`, `RetiredKeysAreForgotten`, action properties |
| `RetrainRequestsProofs!GoneIsDecided` | `DeletedIsDecided`, for any workers |
| `RetrainRequestsProofs!NothingAcceptedIsLost` | `AcceptedIsKept` (proved only), across the two services: a retraining that was answered 202 is in the queue, with a worker, or was decided |
| `RetrainRequestsProofs!AdministratorsRetrain` | `OnlyAdministratorsRetrain` (proved only), across the two services |
| `...Proofs!TypeInvariant` | the type invariant of each of the seven |

**The service.** None of the promises is inductive by itself: that replies agree
depends on where a reply can come from. The invariant follows a transaction
from its row: `RowsMatchCalls` (a row is what its call submitted),
`OneRowPerKey` (the unique index), `CacheIsRecorded`, `RepliesAreRecorded`,
`EventsAreRecorded` (whatever is cached, told or announced is in the table
under its key), `HandlersAreRecorded` (a handler past its INSERT holds a
recorded result) and `ApprovalsAreEarned`. All of it is kept by every step with
every fault: the promise rests on the unique index alone, not on the lock nor
on the cache. From it the refinement follows step by step: `InsertRow` is
`Record`, `PublishEvent` is `Announce`, the four places that answer are
`Tell`, the rest stutters. The lock theorem has an invariant of its own,
`ProcessorsHoldLock`. `TermsAreHonoured` builds on it: with the lock held, what a
handler did not find in the cache and the table is still not there
(`NothingToFind`), so that its INSERT cannot lose a race, and what it may answer
has its own terms (`TermsMatch`). Without the lock the INSERT can be lost to
other terms, and the code does not compare them: hence the two faults excluded.

**The workers.** `BehindIsRecorded` says what a delivery at a given step has
committed; since it speaks of each delivery by itself, overlaps cost nothing.
A message can only be deleted by a delivery at `delete`. The analyst's
`DeletersAreAnswered` and the notification service's `NobodyForgotten` (what
was due is done, in the list, or being posted to, for every delivery past its
read) have the same shape. For `OneReport`,
`GuardStillHolds` adds that where no two deliveries met, the one at work is
alone and what its guard read is still true.

**The counters.** `NoLostUpdate` compares a row with the set of commits made for
it. `Receipts` says that a delivery commits at most once and not before its
receipt; `Tallied` that the row is the count of the commits and that an account
without a row has none, which makes the blank row of an evaluation, and the
row a delivery inserts, lose nothing. For `CountedOnce` `Steady` adds that,
where nothing but Redis fails, a delivery that committed is at work on an
invisible message or has deleted it: no second receipt follows. `SentBehind` is to
`DeletedAfterEverything` what `BehindIsRecorded` is to the records.

**The book.** With `BehindIsRecorded` and `Unborn` (an account without a row has
nothing a blank row would not have), each step maps: the commits in
`SelectProfile` and `CreateProfile` are `Count`, `SaveResult` is `Record`,
`SendTrigger` and `SendCompletion` are `Announce`, `Acknowledge` is `Dismiss`, and
whatever else happens stutters. The row lock and the unique index alone make
`Count` one step; that it comes before `Record`, and `Record` before the others,
is the order of a delivery's awaits, and no crash or overlap changes it. A
transaction may be counted again, for the queue delivers at least once.

**The account's memory.** `Discipline` says at which awaits an evaluation has
commands in flight and tasks left, and that each is executed once. `Remembered` carries `RefreshedIsRemembered`
through time: a key that was refreshed for an evaluation has a deadline a TTL
after it, and its members stay until then. Per name, `Origins` says where each
known value comes from, `Asks` what an evaluation knew when it sent its SADD,
`Firsts` that of two evaluations that both found one name new, the first's value was gone
before the second came, and its EXPIRE therefore late or lost; together
they give `FlaggedOncePerBurst` and `KnownWasSeen`. `Drift` bounds the rounding
errors of the average by a quadratic in the number of updates, and `Windows`
says that what a window counts was counted since it began.

**Gateway and retraining.** `Admitted` says that a request past authentication
was entitled, `Paths` which awaits its kind has, `Owners` that a request past
its lookup found a row its client may see, `Submitted` that a row is of a client
that submitted it. `Informed` says that what the row is like now is among what it
was since a reading arrived, and `Unshown` that a reading shows nothing before
its answer: with `ShownValue`, that the mappers between the row and the answer keep
what they are given, `ReadingsAreCurrent` follows. `KeysKnown` says
that a cached key was not withdrawn before its set was fetched. `Acknowledged` ties
a worker at `delete` to a completed workflow, `Told` a 202 to a message that was
sent, and `Ordered` says that the queue has had the messages that were sent, and no
others: together they give `AcceptedIsKept`. `SystemInv` is their conjunction, kept by the steps of
either component and by the shared one.

**Scoring.** Each rule's score is in 0 to 1.0, so the aggregate is in 0 to 100
points, and the blend is within 3.6 points above, or at least 36 points
above, six tenths of it. That decides the bands by linear arithmetic. For
`EvidenceIsMonotone` each stage is shown to keep the order of scores: the weighted
sum, the boost, the blend and the bands (`AggregateMonotone`, `FinalScoreMonotone`,
`DecideMonotone`). One rule alone gives at most 33.75 points, which no unsure
anomaly score raises above 36, and 40 is where reviews begin.

**Only model-checked:** the liveness properties `EveryCallEnds`,
`EveryMessageSettles`, `EveryMessageIsProcessed` and `EveryRequestIsSeenThrough`, for
liveness under fairness is out of the prover's reach. Every safety property
and both refinements that a passing run checks are stated by a theorem.

## 5. Where code and documents differ

Shown by a run of their own:

* `ReinvestigationSkipped`: the endpoint promises that a reinvestigation
  overwrites the report (`routers/transactions.py:92`). In the trace the trigger
  was answered and its report is in the row when the reinvestigation is asked for;
  the consumer's guard takes it for a duplicate (`sqs_consumer.py:165`), and its
  message is deleted.
* `LowScoreIsApproved`: `categorize_risk` multiplies a score below 1 by a
  hundred (`scorer.py:110`), though its caller passes points. A young account's
  small payment, which `account_age.py:45` gives a "Negligible penalty", scores
  0.875 points, is taken for 87.5 and blocked. `RiskScoring`'s other properties
  are therefore stated for scores of 0 or from one point on (`WholePoints`).
* `RetrainNeverDecided`: the workflow's prompt reads `m["agent_coverage"]`
  (`retrain_workflow.py:167`), which the metrics call `analyst_coverage`
  (`mlops_tools.py:119`). With ten decisions or more every run raises a
  KeyError, the message is not deleted, and its queue has no redrive policy
  (`localstack-init.sh:35`): the request circulates for ever, while the endpoint
  promises that it is run and its result logged (`routers/mlops.py:37`).

Seen while modelling; the models allow each of them, and no property claims
otherwise:

Transactions:

* After losing an INSERT race the service returns the winner's row without
  comparing the terms (`transaction_service.py:143`), although a key reused with
  another amount should be refused (README.md:301). `MismatchRejected` holds
  where Redis answers and nobody outlives the lock.
* A TransactionQueued event whose sends all fail is dropped (`transaction_service.py:171`),
  though CODEBASE_EXPLAINED.md:620 says it is queued for retry.
* A duplicate answered from the table is told REVIEW, whatever was decided:
  the row has no decision column (`transaction_service.py:84`).
* Keys are unique across tenants (`models/transaction.py:32`), not per tenant
  (CODEBASE_EXPLAINED.md:120), and so are the cache's entries: two tenants who
  choose one key share its answer, with equal terms (`servicer.py:43`), or with any
  if the entry came between the second one's two looks (`servicer.py:94`).
  `TransactionService` and `ApiGateway!Create` allow both, and `EntitledOnly` claims
  nothing of what a creation is told, only whose the row is.
* The idempotency lock is never released: a retry within 60 s of a cancelled
  call is aborted as concurrent (`servicer.py:84`).
* A failed INSERT leaves nothing to review (`servicer.py:143`, against
  CODEBASE_EXPLAINED.md:623).
* GetRiskResult is called with the deadline of the reading that waits for it
  (`transaction_service.py:246`): a slow engine can make a 502 of an optional
  enrichment.

Workers and engine:

* "ML refines, never overrides" (README.md:143): the weight 0.6 applies as soon
  as the anomaly score is not exactly 0, so that a rule score from 60 to below 66
  points (BLOCK) with a tiny anomaly score is an APPROVE.
* No device is ever learned: the event of a transaction has no device
  (`transaction_service.py:148`), so that the worker passes none to the profile
  (`worker.py:133`), against `update_network_features` (`account_profile.py:337`),
  which adds the device to those known. Only the seed data has known devices.
* `velocity:1h` gets its TTL anew with each evaluation (`orchestrator.py:111`): the
  counter of an account that stays active never starts over, and is no count
  of the last hour. A gather that raised after its INCR leaves a key
  without a TTL.
* The hourly and daily windows tumble, and start over only at an update: an
  evaluation reads a count that may be of last week, and the hour's may exceed
  the day's. The 30 day window is never started over.
* An evaluation that is cancelled after its SADD (`orchestrator.py:88`) makes its
  retry find the receiver known: nobody was flagged. `KnownWasSeen` names this
  case.
* The ML service is sent the profile's hourly count, not the one of Redis that the
  comment names, and takes every receiver for new, for want of a balance
  (`predictor.py:73`).
* A redelivered event is counted again in the profile
  (`account_profile_repo.py:106`), so that redeliveries of two transactions can
  flag an account (`account_profile_repo.py:165`, "min 5 transactions").
* An evaluation can store a stale profile after the worker invalidated it
  (`orchestrator.py:272`, against the comment at `worker.py:138`). What it knows
  was true once, which `KnownWasSeen` shows.
* INCR and EXPIRE of `failed:1h` are two commands (`worker.py:150`): a crash
  between them leaves a counter without a TTL.
* Triggers and completions that cannot be sent are lost, and the message is
  deleted (`worker.py:274`, against README.md:527). `DeletedAfterEverything`
  holds as long as sends succeed.
* Two messages for one transaction that overlap are both investigated
  (`sqs_consumer.py:165`); `InvestigatedOnce` holds without overlap.
* A reinvestigation that overtakes the risk worker writes its report to no row
  and is deleted (`sqs_consumer.py:184`).
* An empty summary of the agent counts as an investigation for the guard, and is
  never shown (`risk_result_repo.py:81`, `client_mapper.py:105`). Where deliveries
  overlap it may overwrite a report that was shown before: a later reading then
  tells of none, as `ReadingsAreCurrent` allows and `ApiGateway!WriteReport` has it.
* A RiskCompleted event without a client is deleted without a delivery
  (`notification-service/app/queue/sqs_consumer.py:128`).

Gateway and retraining:

* A key set is dropped from the cache before it is fetched again
  (`cognito.py:35`): while Cognito cannot be reached, one token with an unknown
  key id takes the cached set away from all the others, whose requests then
  are answered 500.
* A token without an e-mail address is a 500: `AuthUser` refuses its claims.
* ABORTED, which asks for a retry, and ALREADY_EXISTS are both a 409
  (`api-gateway/app/main.py`).
* What an administrator submits is stored for the client "admin", whose lookups
  are not filtered by tenant (`transaction_repo.py:73`), and nothing keeps a tenant
  from bearing that id, which `EntitledOnly` names; an administrator who is
  no analyst may retrain the model but not read a transaction.
* A send that raised may have delivered: the caller is told 502 or 503, and the
  retraining or reinvestigation is done all the same.
* `lookback_days` of a retraining request does not reach the workflow, which always
  looks at seven days.
* The visibility timeout of a retraining message is 600 s and so is the workflow's
  own, counted from later: a slow run is taken up by a second worker.
* The hot swap at the workflow's end (never reached) ignores whether it succeeded,
  and `ReloadModel` cannot: the S3 client's `_client` is nested in `__init__`.
* "If any crashes, the others keep running" (`analyst-service/app/main.py:62`), but
  the loops are awaited by a plain gather.

## 6. What is not modelled

* The gateway's rate limit, which is slowapi's; its development bypass of
  authentication, which is off; its health endpoint.
* `mark_fraud`, which has no caller.
* Of retraining, the LLM's answer, the training and the hot swap: they stand behind
  the step that raises and are never reached. Model reload, which never
  succeeds. Inference is ONNX in a synchronous call: an external answer.
* The LLM agent's text and its tools, which only read: one step of `AnalystWorker`.
* `GetTransaction` of the transaction service and `GetRiskResult` of the risk
  engine, which only read: what decides whether a report is shown is in `ApiGateway`.
* Generated protobuf code, logging, tracing, connection factories, training and
  seeding scripts, of which none keeps state that another part relies on.

## 7. The plan

Done, in this order: `TransactionLedger` and `TransactionService`, the refinement
and its proof; `WorkQueue` and `RiskWorker`; `AnalystWorker`;
`NotificationService`; `RiskScoring`; `AccountActivity`, the velocity and burst keys
with the profile's windows; `ApiGateway`, `ModelRetraining` and their
composition `RetrainRequests`; the proofs of each.

Left, in this order:

1. `RiskPipeline`: the risk worker, its two output queues and their consumers
   composed, and that the composition implements "every answered transaction is
   in the end reported to its tenant, or dead-lettered". Each consumer alone has
   3 to 10 steps per delivery, so that the composition needs an abstraction of
   each first; `RiskBook` is the worker's.
2. Abstractions of `AnalystWorker` and `NotificationService` in the same way, with
   their refinement proofs.
3. The retraining workflow behind its second step, once that step can be passed.

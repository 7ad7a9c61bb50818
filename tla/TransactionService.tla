------------------------- MODULE TransactionService -------------------------
(***************************************************************************)
(* The transaction service: the CreateTransaction RPC, one step per await  *)
(* of its handler, and the UpdateTransactionStatus RPC.                    *)
(*                                                                         *)
(* Many handlers run at once on one event loop, and in several replicas;   *)
(* they share the Redis idempotency cache and lock, the transactions       *)
(* table and the SQS publisher.  A handler can be abandoned at any await:  *)
(* grpc.aio cancels it when the caller's deadline passes, and a crash of   *)
(* the process abandons all of its handlers.                               *)
(*                                                                         *)
(* Requests are well formed: the gateway, the only caller, validates them, *)
(* and the handler's INVALID_ARGUMENT exits change no state.               *)
(***************************************************************************)
EXTENDS Naturals

CONSTANTS
  Calls,           \* CreateTransaction calls; each generates one transaction_id
  Keys,            \* idempotency keys
  Clients,         \* tenants, the client_id of the request metadata
  Unscoped,        \* the client ids that lookups do not filter on ("admin", "")
  Terms,           \* amount, currency, parties and countries, as one value
  RetryAttempts,   \* SQSPublisher.RETRY_ATTEMPTS
  StatusRequests,  \* the statuses UpdateTransactionStatus is asked for
  Faults           \* what may go wrong in this instance, a subset of FaultKinds

FaultKinds ==
  {"redis",        \* a Redis command raises
   "slow",         \* a handler may outlive the 60 s lock
   "cacheExpiry",  \* the 24 h cache entry expires
   "cancel",       \* a handler is abandoned at an await
   "risk",         \* the risk engine call raises or times out
   "sqs",          \* a send to SQS raises
   "db"}           \* a database session raises

ASSUME ServiceAssumption ==
  /\ Unscoped \subseteq Clients
  /\ RetryAttempts \in Nat \ {0}
  /\ Faults \subseteq FaultKinds

Decisions == {"APPROVE", "REVIEW", "BLOCK"}

Statuses == {"RECEIVED", "APPROVED", "BLOCKED", "REVIEW", "PROCESSING",
             "COMPLETED", "FAILED", "DEAD_LETTERED"}

(* The edges of VALID_TRANSITIONS; BLOCKED has no entry there. *)
ValidTransitions ==
  {<<"RECEIVED", "PROCESSING">>, <<"RECEIVED", "DEAD_LETTERED">>,
   <<"RECEIVED", "APPROVED">>, <<"RECEIVED", "REVIEW">>,
   <<"RECEIVED", "BLOCKED">>, <<"REVIEW", "APPROVED">>,
   <<"REVIEW", "BLOCKED">>, <<"PROCESSING", "COMPLETED">>,
   <<"PROCESSING", "FAILED">>, <<"FAILED", "RECEIVED">>,
   <<"APPROVED", "PROCESSING">>}

(* Mutant: the decision is stored as it comes. *)
UnmappedDecision(d) == d

FromRiskDecision(d) ==
  CASE d = "APPROVE" -> "APPROVED"
    [] d = "BLOCK"   -> "BLOCKED"
    [] OTHER         -> "REVIEW"

-----------------------------------------------------------------------------
VARIABLES
  args,       \* call -> its request; never changes
  pc,         \* call -> the await its handler is at
  result,     \* call -> the TransactionAccepted its handler is building
  attempts,   \* call -> failed attempts of its publish loop
  cache,      \* Redis: the entries idempotency:{key}
  locks,      \* Redis: the keys for which idempotency:lock:{key} exists
  ledger,     \* Postgres: the rows of transactions
  published,  \* SQS: transaction -> copies of its TransactionQueued event
  replies,    \* the responses returned, one record per answered call
  refusals,   \* the aborts, with their status code
  approvals   \* history: the transactions somebody approved

handlers == <<args, pc, result, attempts>>
redis    == <<cache, locks>>
answers  == <<replies, refusals>>
vars     == <<handlers, redis, ledger, published, answers, approvals>>

Requests == [key : Keys, client : Clients, terms : Terms]
Results  == [id : Calls, status : Statuses, decision : Decisions, existed : BOOLEAN]
Rows     == [id : Calls, key : Keys, client : Clients, terms : Terms, status : Statuses]
Entries  == [key : Keys, terms : Terms, response : Results]
Codes    == {"ALREADY_EXISTS", "ABORTED", "INTERNAL"}

Awaits   == {"check", "lock", "recheck", "lookup", "score", "insert", "refind",
             "publish", "store"}
Ended    == {"answered", "refused", "cancelled"}

TypeOK ==
  /\ args \in [Calls -> Requests]
  /\ pc \in [Calls -> Awaits \cup Ended]
  /\ result \in [Calls -> Results]
  /\ attempts \in [Calls -> Nat]
  /\ cache \in SUBSET Entries
  /\ locks \in SUBSET Keys
  /\ ledger \in SUBSET Rows
  /\ published \in [Calls -> Nat]
  /\ replies \in SUBSET [call : Calls, response : Results]
  /\ refusals \in SUBSET [call : Calls, code : Codes]
  /\ approvals \in SUBSET Calls

Init ==
  /\ args \in [Calls -> Requests]
  /\ pc = [c \in Calls |-> "check"]
  /\ result = [c \in Calls |-> [id |-> c, status |-> "REVIEW",
                                decision |-> "REVIEW", existed |-> FALSE]]
  /\ attempts = [c \in Calls |-> 0]
  /\ cache = {}
  /\ locks = {}
  /\ ledger = {}
  /\ published = [c \in Calls |-> 0]
  /\ replies = {}
  /\ refusals = {}
  /\ approvals = {}

-----------------------------------------------------------------------------
Key(c) == args[c].key

Goto(c, await) == pc' = [pc EXCEPT ![c] = await]

Reply(c, response) ==
  /\ replies' = replies \cup {[call |-> c, response |-> response]}
  /\ Goto(c, "answered")
  /\ UNCHANGED refusals

Refuse(c, code) ==
  /\ refusals' = refusals \cup {[call |-> c, code |-> code]}
  /\ Goto(c, "refused")
  /\ UNCHANGED replies

Proceed(c, await) == Goto(c, await) /\ UNCHANGED answers

Cached(c) == {e \in cache : e.key = Key(c)}

(* A cached response is returned with already_existed set. *)
Replay(response) == [response EXCEPT !.existed = TRUE]

(* find_by_idempotency_key: by key, and by client unless it is unscoped. *)
Found(c) ==
  {r \in ledger : /\ r.key = Key(c)
                  /\ args[c].client \in Unscoped \/ r.client = args[c].client}

(* TransactionAccepted.model_validate of a row: the table has no decision  *)
(* column, so the field takes the schema's default.                        *)
FromRow(r) == [id |-> r.id, status |-> r.status, decision |-> "REVIEW", existed |-> TRUE]

Scored(c, d) == [id |-> c, status |-> FromRiskDecision(d), decision |-> d, existed |-> FALSE]

NewRow(c) == [id |-> c, key |-> Key(c), client |-> args[c].client,
              terms |-> args[c].terms, status |-> result[c].status]

(* Mutant: idempotency_key without its unique index. *)
NoUniqueIndex(k) == TRUE

KeyIsFree(k) == \A r \in ledger : r.key # k

(* The handlers of key k between their first cache check and their end. *)
Running(k) == {c \in Calls : Key(c) = k /\ pc[c] \in Awaits \ {"check"}}

-----------------------------------------------------------------------------
(* Mutant: the first look at the cache compares nothing either. *)
CheckWithoutComparing(c) ==
  /\ pc[c] = "check"
  /\ \/ \E e \in Cached(c) : Reply(c, Replay(e.response))
     \/ (Cached(c) = {} \/ "redis" \in Faults) /\ Proceed(c, "lock")
  /\ UNCHANGED <<args, result, attempts, redis, ledger, published, approvals>>

(* First look at the cache: a hit is compared with the request; a Redis    *)
(* error counts as a miss.                                                 *)
CheckCache(c) ==
  /\ pc[c] = "check"
  /\ \/ \E e \in Cached(c) : e.terms = args[c].terms /\ Reply(c, Replay(e.response))
     \/ (\E e \in Cached(c) : e.terms # args[c].terms) /\ Refuse(c, "ALREADY_EXISTS")
     \/ (Cached(c) = {} \/ "redis" \in Faults) /\ Proceed(c, "lock")
  /\ UNCHANGED <<args, result, attempts, redis, ledger, published, approvals>>

(* Mutant: SET without NX. *)
LockWithoutNX(c) ==
  /\ pc[c] = "lock"
  /\ locks' = locks \cup {Key(c)}
  /\ Proceed(c, "recheck")
  /\ UNCHANGED <<args, result, attempts, cache, ledger, published, approvals>>

(* SET NX EX 60; a Redis error, before or after the command took effect,   *)
(* counts as acquired.  Nothing ever deletes the lock.                     *)
AcquireLock(c) ==
  /\ pc[c] = "lock"
  /\ \/ Key(c) \notin locks /\ locks' = locks \cup {Key(c)} /\ Proceed(c, "recheck")
     \/ Key(c) \in locks /\ Refuse(c, "ABORTED") /\ UNCHANGED locks
     \/ "redis" \in Faults /\ Proceed(c, "recheck") /\ UNCHANGED locks
  /\ UNCHANGED <<args, result, attempts, cache, ledger, published, approvals>>

(* Second look at the cache: a hit is returned without any comparison. *)
RecheckCache(c) ==
  /\ pc[c] = "recheck"
  /\ \/ \E e \in Cached(c) : Reply(c, Replay(e.response))
     \/ (Cached(c) = {} \/ "redis" \in Faults) /\ Proceed(c, "lookup")
  /\ UNCHANGED <<args, result, attempts, redis, ledger, published, approvals>>

(* The idempotency check against the table, in a session of its own. *)
LookUp(c) ==
  /\ pc[c] = "lookup"
  /\ \/ \E r \in Found(c) : /\ r.terms = args[c].terms
                            /\ result' = [result EXCEPT ![c] = FromRow(r)]
                            /\ Proceed(c, "store")
     \/ /\ \E r \in Found(c) : r.terms # args[c].terms
        /\ Refuse(c, "ALREADY_EXISTS") /\ UNCHANGED result
     \/ Found(c) = {} /\ Proceed(c, "score") /\ UNCHANGED result
     \/ "db" \in Faults /\ Refuse(c, "INTERNAL") /\ UNCHANGED result
  /\ UNCHANGED <<args, attempts, redis, ledger, published, approvals>>

(* Mutant: a risk engine that cannot be reached counts as an approval. *)
ScoreFailingOpen(c) ==
  /\ pc[c] = "score"
  /\ \/ \E d \in Decisions :
          /\ result' = [result EXCEPT ![c] = Scored(c, d)]
          /\ approvals' = IF d = "APPROVE" THEN approvals \cup {c} ELSE approvals
     \/ /\ "risk" \in Faults
        /\ result' = [result EXCEPT ![c] = Scored(c, "APPROVE")]
        /\ UNCHANGED approvals
  /\ Proceed(c, "insert")
  /\ UNCHANGED <<args, attempts, redis, ledger, published>>

(* The engine's verdict, or REVIEW when the call raises. *)
ScoreRisk(c) ==
  /\ pc[c] = "score"
  /\ \/ \E d \in Decisions :
          /\ result' = [result EXCEPT ![c] = Scored(c, d)]
          /\ approvals' = IF d = "APPROVE" THEN approvals \cup {c} ELSE approvals
     \/ /\ "risk" \in Faults
        /\ result' = [result EXCEPT ![c] = Scored(c, "REVIEW")]
        /\ UNCHANGED approvals
  /\ Proceed(c, "insert")
  /\ UNCHANGED <<args, attempts, redis, ledger, published>>

(* Mutant: an error of the insert is swallowed like one of the queue. *)
InsertSwallowingErrors(c) ==
  /\ pc[c] = "insert"
  /\ \/ /\ KeyIsFree(Key(c))
        /\ ledger' = ledger \cup {NewRow(c)}
        /\ Proceed(c, "publish")
     \/ ~KeyIsFree(Key(c)) /\ Proceed(c, "refind") /\ UNCHANGED ledger
     \/ "db" \in Faults /\ Proceed(c, "publish") /\ UNCHANGED ledger
  /\ UNCHANGED <<args, result, attempts, redis, published, approvals>>

(* The single INSERT and its commit.  idempotency_key is unique by itself. *)
(* A failing session may have committed before the error reached us.       *)
InsertRow(c) ==
  /\ pc[c] = "insert"
  /\ \/ /\ KeyIsFree(Key(c))
        /\ ledger' = ledger \cup {NewRow(c)}
        /\ Proceed(c, "publish") \/ ("db" \in Faults /\ Refuse(c, "INTERNAL"))
     \/ ~KeyIsFree(Key(c)) /\ Proceed(c, "refind") /\ UNCHANGED ledger
     \/ "db" \in Faults /\ Refuse(c, "INTERNAL") /\ UNCHANGED ledger
  /\ UNCHANGED <<args, result, attempts, redis, published, approvals>>

(* Mutant: the loser of the race answers and publishes as if it had won. *)
CarryOnAfterRace(c) ==
  /\ pc[c] = "refind"
  /\ Proceed(c, "publish")
  /\ UNCHANGED <<args, result, attempts, redis, ledger, published, approvals>>

(* Mutant: the loser of the race starts over, for as long as it loses. *)
StartOverAfterRace(c) ==
  /\ pc[c] = "refind"
  /\ Proceed(c, "lookup")
  /\ UNCHANGED <<args, result, attempts, redis, ledger, published, approvals>>

(* After an IntegrityError: the row that won is returned as it is, without *)
(* comparing the terms; if it is not visible the error is raised again.    *)
FindWinner(c) ==
  /\ pc[c] = "refind"
  /\ \/ \E r \in Found(c) : result' = [result EXCEPT ![c] = FromRow(r)] /\ Proceed(c, "store")
     \/ (Found(c) = {} \/ "db" \in Faults) /\ Refuse(c, "INTERNAL") /\ UNCHANGED result
  /\ UNCHANGED <<args, attempts, redis, ledger, published, approvals>>

(* One attempt of publish_transaction_queued.  A failed attempt may have   *)
(* delivered; after the last one the error is logged and dropped.          *)
PublishEvent(c) ==
  /\ pc[c] = "publish"
  /\ \/ /\ published' = [published EXCEPT ![c] = @ + 1]
        /\ Goto(c, "store")
        /\ UNCHANGED attempts
     \/ /\ "sqs" \in Faults
        /\ attempts' = [attempts EXCEPT ![c] = @ + 1]
        /\ published' = [published EXCEPT ![c] = @ + 1] \/ UNCHANGED published
        /\ Goto(c, IF attempts'[c] < RetryAttempts THEN "publish" ELSE "store")
  /\ UNCHANGED <<args, result, redis, ledger, answers, approvals>>

(* SETEX of the response under the key, with this call's terms, and the    *)
(* return.  An error of Redis is swallowed, whether or not it was stored.  *)
StoreAndReply(c) ==
  /\ pc[c] = "store"
  /\ \/ cache' = {e \in cache : e.key # Key(c)}
                   \cup {[key |-> Key(c), terms |-> args[c].terms, response |-> result[c]]}
     \/ "redis" \in Faults /\ UNCHANGED cache
  /\ Reply(c, result[c])
  /\ UNCHANGED <<args, result, attempts, locks, ledger, published, approvals>>

(* UpdateTransactionStatus: SELECT FOR UPDATE, check, write and commit in  *)
(* one session; an invalid transition raises and changes nothing.          *)
UpdateStatus(r, new) ==
  /\ <<r.status, new>> \in ValidTransitions
  /\ ledger' = (ledger \ {r}) \cup {[r EXCEPT !.status = new]}
  /\ approvals' = IF new = "APPROVED" THEN approvals \cup {r.id} ELSE approvals
  /\ UNCHANGED <<handlers, redis, published, answers>>

-----------------------------------------------------------------------------
(* The handler is abandoned where it waits; what it did stays, the lock too. *)
Cancel(c) ==
  /\ "cancel" \in Faults
  /\ pc[c] \in Awaits
  /\ Proceed(c, "cancelled")
  /\ UNCHANGED <<args, result, attempts, redis, ledger, published, approvals>>

(* The lock's 60 s pass.  Callers set deadlines of a few seconds, so that  *)
(* no handler is left running by then unless the deployment is "slow".     *)
ExpireLock(k) ==
  /\ k \in locks
  /\ Running(k) = {} \/ "slow" \in Faults
  /\ locks' = locks \ {k}
  /\ UNCHANGED <<handlers, cache, ledger, published, answers, approvals>>

(* The cache entry's 24 h pass. *)
ExpireCache(k) ==
  /\ "cacheExpiry" \in Faults
  /\ \E e \in cache : e.key = k
  /\ cache' = {e \in cache : e.key # k}
  /\ UNCHANGED <<handlers, locks, ledger, published, answers, approvals>>

Handle(c) ==
  \/ CheckCache(c) \/ AcquireLock(c) \/ RecheckCache(c) \/ LookUp(c)
  \/ ScoreRisk(c) \/ InsertRow(c) \/ FindWinner(c) \/ PublishEvent(c)
  \/ StoreAndReply(c)

Next ==
  \/ \E c \in Calls : Handle(c) \/ Cancel(c)
  \/ \E r \in ledger, new \in StatusRequests : UpdateStatus(r, new)
  \/ \E k \in Keys : ExpireLock(k) \/ ExpireCache(k)

Spec == Init /\ [][Next]_vars

(* The event loop runs every handler that is ready. *)
FairSpec == Spec /\ \A c \in Calls : WF_vars(Handle(c))

-----------------------------------------------------------------------------
(* Between the lock and the end of its work. *)
Processing == Awaits \ {"check", "lock"}

(* OneProcessorPerKey: as long as Redis answers and no handler outlives    *)
(* the lock, two handlers never process the same key at the same time.     *)
OneProcessorPerKey ==
  \A c, d \in Calls :
    pc[c] \in Processing /\ pc[d] \in Processing /\ Key(c) = Key(d) => c = d

(* RetriesAgree: every accepted call with a key is told the same           *)
(* transaction, whichever of cache, table or insert race it was told from. *)
RetriesAgree ==
  \A m, n \in replies : Key(m.call) = Key(n.call) => m.response.id = n.response.id

(* ReplyIsDurable: no call is told of a transaction that is not committed  *)
(* under the key it sent.                                                  *)
ReplyIsDurable ==
  \A m \in replies : \E r \in ledger : r.id = m.response.id /\ r.key = Key(m.call)

(* OneStreamPerKey: the asynchronous pipeline receives events for at most  *)
(* one transaction of a key, and only for one that is committed.           *)
OneStreamPerKey ==
  \A c \in Calls : published[c] > 0 =>
    /\ \E r \in ledger : r.id = c
    /\ \A d \in Calls : published[d] > 0 /\ Key(d) = Key(c) => d = c

(* NeverSilentlyApproved: a transaction is approved, or in any status that *)
(* lies behind the approval, only if the engine's verdict or a status      *)
(* update approved it: no failure or default value ever does.              *)
NeverSilentlyApproved ==
  \A r \in ledger : r.status \notin {"REVIEW", "BLOCKED"} => r.id \in approvals

(* MismatchRejected: a call is never told of a transaction whose terms     *)
(* differ from its own.                                                    *)
MismatchRejected ==
  \A m \in replies : \E r \in ledger :
    r.id = m.response.id /\ r.terms = args[m.call].terms

(* EveryCallEnds: whatever fails, each call is answered, refused or        *)
(* abandoned.                                                              *)
EveryCallEnds == \A c \in Calls : <>(pc[c] \in Ended)

-----------------------------------------------------------------------------
(* The service implements the ledger it promises. *)
Ledger == INSTANCE TransactionLedger WITH
  book      <- [k \in Keys |-> {r.id : r \in {s \in ledger : s.key = k}}],
  told      <- [c \in Calls |-> {m.response.id : m \in {n \in replies : n.call = c}}],
  announced <- {c \in Calls : published[c] > 0}

(* ImplementsLedger: every step of the service is a step of the abstract   *)
(* ledger, or none.                                                        *)
ImplementsLedger == Ledger!Spec
=============================================================================

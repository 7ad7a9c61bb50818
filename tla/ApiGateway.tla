----------------------------- MODULE ApiGateway -----------------------------
(***************************************************************************)
(* The API gateway.  A request is authenticated against Cognito's signing  *)
(* keys, which the process caches for an hour, then forwarded: a new       *)
(* transaction to the transaction service, a reading to the transaction    *)
(* service and through it to the risk engine, a reinvestigation or a       *)
(* retraining to a queue of the analyst.                                   *)
(*                                                                         *)
(* One process is modelled: replicas share nothing but what is upstream.   *)
(* verify_token is synchronous, called on the event loop: nothing else of  *)
(* the process runs between its look into the cache and its answer.  The   *)
(* clients that the dependencies take from app.state are there from        *)
(* startup on; the development bypass of authentication is off.  Tokens    *)
(* carry a kid and an e-mail address: without the latter AuthUser refuses  *)
(* the claims, which makes a 500 of a request that is otherwise valid.     *)
(* Bodies are such as the routes' schemas accept.                          *)
(***************************************************************************)
EXTENDS Integers

CONSTANTS
  Requests,
  Inputs,        \* what a request may be: its kind, token and transaction
  Kids,          \* the ids of Cognito's signing keys
  FirstKeys,     \* those in use at first
  Tenants,
  Transactions,
  FirstRows,     \* transaction -> the client that submitted it before, or NoTenant
  NoTenant,
  NoToken,       \* the token of a request that carries none
  JwksTtl,       \* the cache's 3600 s, in ticks
  MaxTime,       \* the clock stops here
  Faults         \* what may go wrong in this instance, a subset of FaultKinds

FaultKinds ==
  {"cognito",    \* the key set cannot be fetched
   "upstream",   \* the transaction service fails or answers too late
   "risk",       \* so does the risk engine
   "sqs"}        \* a send raises, before or after the message is in

Kinds == {"create", "read", "reinvestigate", "retrain"}

Tokens ==
  [kid : Kids, tenant : Tenants, groups : SUBSET {"analyst", "admin"}, expired : BOOLEAN]

(* transaction_repo.py:73: a lookup for the client "admin" is not filtered. *)
(* It is the client of every administrator, and nothing keeps a tenant     *)
(* from bearing the same id.                                               *)
Admin == "admin"

ASSUME GatewayAssumption ==
  /\ Inputs \subseteq [kind : Kinds, token : Tokens \cup {NoToken}, target : Transactions]
  /\ FirstKeys \subseteq Kids
  /\ NoToken \notin Tokens
  /\ NoTenant \notin Tenants \cup {Admin}
  /\ FirstRows \in [Transactions -> Tenants \cup {Admin, NoTenant}]
  /\ JwksTtl \in Nat /\ MaxTime \in Nat
  /\ Faults \subseteq FaultKinds

Times == 0 .. MaxTime
Never == -1

VARIABLES
  now,
  keys,          \* Cognito: the keys it signs with and publishes
  retired,       \* history: key -> when Cognito withdrew it
  jwks,          \* the process's cache: at most one key set, and its time
  args,          \* request -> what it asks for; never changes
  pc,            \* request -> the await its handler is at
  rows,          \* Postgres: transaction -> the client whose row it is
  reports,       \* Postgres: transaction -> the agent_summary of its risk result
  shown,         \* request -> its answer holds the report
  sent,          \* SQS: the requests whose message reached its queue
  code,          \* request -> the HTTP status of its answer
  held,          \* history: reading -> whether a report was there, at its
                 \* arrival and from then to its answer
  unenriched     \* history: the requests for which the risk engine failed

upstream == <<rows, reports, sent>>
history  == <<retired, held, unenriched>>
vars     == <<now, keys, jwks, args, pc, upstream, shown, code, history>>

Awaits == {"create", "lookup", "enrich", "send"}

(* A column without a value, a summary in which the agent said nothing,    *)
(* and one in which it did.                                                *)
Summaries == {"NULL", "", "text"}

Codes  == {200, 202, 400, 401, 403, 404, 409, 500, 502, 503}

TypeOK ==
  /\ now \in Times
  /\ keys \in SUBSET Kids
  /\ retired \in [Kids -> Times \cup {Never}]
  /\ jwks \in SUBSET [keys : SUBSET Kids, since : Times]
  /\ args \in [Requests -> Inputs]
  /\ pc \in [Requests -> Awaits \cup {"idle", "answered"}]
  /\ rows \in [Transactions -> Tenants \cup {Admin, NoTenant}]
  /\ reports \in [Transactions -> Summaries]
  /\ shown \in [Requests -> BOOLEAN]
  /\ sent \in SUBSET Requests
  /\ code \in [Requests -> Codes \cup {0}]
  /\ held \in [Requests -> SUBSET BOOLEAN]
  /\ unenriched \in SUBSET Requests

Init ==
  /\ now = 0
  /\ keys = FirstKeys
  /\ retired = [k \in Kids |-> Never]
  /\ jwks = {}
  /\ args \in [Requests -> Inputs]
  /\ pc = [r \in Requests |-> "idle"]
  /\ rows = FirstRows
  /\ reports = [t \in Transactions |-> "NULL"]
  /\ shown = [r \in Requests |-> FALSE]
  /\ sent = {}
  /\ code = [r \in Requests |-> 0]
  /\ held = [r \in Requests |-> {}]
  /\ unenriched = {}

-----------------------------------------------------------------------------
Token(r)  == args[r].token
Target(r) == args[r].target

Reported(t) == reports[t] = "text"

(* get_current_user: the groups decide first. *)
Client(r) == IF "admin" \in Token(r).groups THEN Admin ELSE Token(r).tenant

(* The groups that a token must name, and the await its handler starts with. *)
Role ==
  [create |-> {}, read |-> {"analyst"}, reinvestigate |-> {"analyst"}, retrain |-> {"admin"}]

FirstAwait ==
  [create |-> "create", read |-> "lookup", reinvestigate |-> "lookup", retrain |-> "send"]

Entitled(r) == Role[args[r].kind] \subseteq Token(r).groups

Goto(r, await) == pc' = [pc EXCEPT ![r] = await] /\ UNCHANGED code

Respond(r, status) ==
  /\ pc' = [pc EXCEPT ![r] = "answered"]
  /\ code' = [code EXCEPT ![r] = status]

(* The exception handler of main.py: what is not in its table is a 502. *)
HttpStatus(grpc) ==
  LET mapping == [NOT_FOUND |-> 404, ALREADY_EXISTS |-> 409, ABORTED |-> 409,
                  INVALID_ARGUMENT |-> 400, PERMISSION_DENIED |-> 403, UNAUTHENTICATED |-> 401]
  IN  IF grpc \in DOMAIN mapping THEN mapping[grpc] ELSE 502

(* The key is found; then come the token's own claims and its groups. *)
Authorize(r) ==
  \/ Token(r).expired /\ Respond(r, 401)
  \/ ~Token(r).expired /\ ~Entitled(r) /\ Respond(r, 403)
  \/ ~Token(r).expired /\ Entitled(r) /\ Goto(r, FirstAwait[args[r].kind])

(* Mutant of Fresh: a cached key set is good for ever. *)
FreshForEver == jwks

Fresh == {j \in jwks : now < j.since + JwksTtl}

(* Mutant: a key the cached set lacks is refused, without another fetch. *)
AuthenticateOnce(r) ==
  /\ pc[r] = "idle"
  /\ held' = [held EXCEPT ![r] = IF args[r].kind = "read" THEN {Reported(Target(r))} ELSE {}]
  /\ \/ Token(r) = NoToken /\ Respond(r, 401) /\ UNCHANGED jwks
     \/ /\ Token(r) # NoToken
        /\ \E j \in (IF Fresh = {} THEN {[keys |-> keys, since |-> now]} ELSE Fresh) :
             /\ jwks' = {j}
             /\ IF Token(r).kid \in j.keys THEN Authorize(r) ELSE Respond(r, 401)
  /\ UNCHANGED <<now, keys, args, upstream, shown, retired, unenriched>>

(* A request arrives: get_current_user and the role's guard.  A key set    *)
(* that is too old, or lacks the token's key, is dropped and fetched       *)
(* again, once; an httpx error on the way is nobody's 401 but a 500.       *)
Authenticate(r) ==
  /\ pc[r] = "idle"
  /\ held' = [held EXCEPT ![r] = IF args[r].kind = "read" THEN {Reported(Target(r))} ELSE {}]
  /\ \/ Token(r) = NoToken /\ Respond(r, 401) /\ UNCHANGED jwks
     \/ /\ Token(r) # NoToken
        /\ \E j \in Fresh : Token(r).kid \in j.keys
        /\ Authorize(r)
        /\ UNCHANGED jwks
     \/ /\ Token(r) # NoToken
        /\ \A j \in Fresh : Token(r).kid \notin j.keys
        /\ \/ /\ jwks' = {[keys |-> keys, since |-> now]}
              /\ IF Token(r).kid \in keys THEN Authorize(r) ELSE Respond(r, 401)
           \/ "cognito" \in Faults /\ jwks' = {} /\ Respond(r, 500)
  /\ UNCHANGED <<now, keys, args, upstream, shown, retired, unenriched>>

-----------------------------------------------------------------------------
(* The upstream calls. *)

(* What CreateTransaction refuses a request with, though nothing fails:    *)
(* another call holds the lock, an argument is invalid, the key was used   *)
(* with other terms, or a tenant's INSERT meets another client's row,      *)
(* which the lookup after it does not find.                                *)
Refusals(r) ==
  {"ABORTED", "INVALID_ARGUMENT"}
    \cup {grpc \in {"ALREADY_EXISTS"} : rows[Target(r)] # NoTenant}
    \cup {grpc \in {"INTERNAL"} : rows[Target(r)] \notin {NoTenant, Client(r)} /\ Client(r) # Admin}

(* CreateTransaction, which TransactionService models.  The target is the  *)
(* transaction of the request's idempotency key.  A new row is the         *)
(* client's, and a failure leaves it or not.  A row that is there stays,   *)
(* and the answer may tell of it whoever the client is: both looks into    *)
(* the idempotency cache are for the key alone.                            *)
Create(r) ==
  LET submitted == [rows EXCEPT ![Target(r)] = IF @ = NoTenant THEN Client(r) ELSE @]
  IN  /\ pc[r] = "create"
      /\ \/ rows' = submitted /\ Respond(r, 202)
         \/ rows' = rows /\ \E grpc \in Refusals(r) : Respond(r, HttpStatus(grpc))
         \/ /\ "upstream" \in Faults
            /\ rows' \in {rows, submitted}
            /\ Respond(r, HttpStatus("INTERNAL"))
      /\ UNCHANGED <<now, keys, jwks, args, reports, sent, shown, history>>

(* Mutant: the lookup by transaction id alone. *)
FoundByAnyone(r) == rows[Target(r)] # NoTenant

(* find_by_id: a row of another tenant is not found. *)
Found(r) ==
  rows[Target(r)] # NoTenant /\ Client(r) \in {rows[Target(r)], Admin}

(* GetTransaction, up to the end of its session. *)
Lookup(r) ==
  /\ pc[r] = "lookup"
  /\ \/ Found(r) /\ Goto(r, "enrich")
     \/ ~Found(r) /\ Respond(r, 404)
     \/ "upstream" \in Faults /\ Respond(r, HttpStatus("INTERNAL"))
  /\ UNCHANGED <<now, keys, jwks, args, upstream, shown, history>>

(* to_get_result_proto: a protobuf string is never NULL, ... *)
ResultProto(summary) == IF summary = "NULL" THEN "" ELSE summary

(* Mutant of Investigation: a message is taken for a report in any case.   *)
InvestigationInAnyCase(proto) == {proto}

(* ... so that from_get_proto takes "" for no report, and the summary in   *)
(* which the agent said nothing as well.                                   *)
Investigation(proto) == {summary \in {proto} : summary # ""}

(* The report's way from its row: the risk engine's answer to the          *)
(* transaction service, that service's to the gateway, and the gateway's,  *)
(* which holds an investigation if and only if the message before it does. *)
GetRiskResult(t) == ResultProto(reports[t])

TransactionProto(r) == Investigation(GetRiskResult(Target(r)))

Shown(r) == TransactionProto(r) # {}

Enriched(r) == IF args[r].kind = "read" THEN Respond(r, 200) ELSE Goto(r, "send")

(* GetTransaction, from its call of GetRiskResult on.  A failure only      *)
(* hides the report.  But the call has the same deadline as the gateway's  *)
(* own: an engine that hangs may fail the reading as well.                 *)
Enrich(r) ==
  /\ pc[r] = "enrich"
  /\ \/ /\ shown' = [shown EXCEPT ![r] = Shown(r)]
        /\ Enriched(r)
        /\ UNCHANGED unenriched
     \/ /\ "risk" \in Faults
        /\ unenriched' = unenriched \cup {r}
        /\ Enriched(r) \/ Respond(r, HttpStatus("DEADLINE_EXCEEDED"))
        /\ UNCHANGED shown
  /\ UNCHANGED <<now, keys, jwks, args, upstream, retired, held>>

(* send_message: when it raises, the message may be in the queue or not. *)
Send(r, failure) ==
  /\ \/ sent' = sent \cup {r} /\ Respond(r, 202)
     \/ "sqs" \in Faults /\ sent' \in {sent, sent \cup {r}} /\ Respond(r, failure)
  /\ UNCHANGED <<now, keys, jwks, args, rows, reports, shown, history>>

(* To aegis-agent-investigations, once the transaction was found, ... *)
Reinvestigate(r) ==
  /\ pc[r] = "send" /\ args[r].kind = "reinvestigate"
  /\ Send(r, 503)

(* ... and to aegis-model-retrain-requests. *)
TriggerRetrain(r) ==
  /\ pc[r] = "send" /\ args[r].kind = "retrain"
  /\ Send(r, 502)

-----------------------------------------------------------------------------
(* Around the gateway. *)

(* Cognito signs with a new key beside the old ones, ... *)
AddKey(k) ==
  /\ k \notin keys /\ retired[k] = Never
  /\ keys' = keys \cup {k}
  /\ UNCHANGED <<now, jwks, args, pc, upstream, shown, code, history>>

(* ... and withdraws an old one. *)
RetireKey(k) ==
  /\ k \in keys
  /\ keys' = keys \ {k}
  /\ retired' = [retired EXCEPT ![k] = now]
  /\ UNCHANGED <<now, jwks, args, pc, upstream, shown, code, held, unenriched>>

(* The analyst's worker, AnalystWorker, writes a report.  The UPDATE asks  *)
(* for nothing: where two deliveries overlap, the second overwrites what   *)
(* the first wrote, maybe with an empty summary.                           *)
WriteReport(t) ==
  /\ rows[t] # NoTenant
  /\ \E summary \in {"", "text"} : reports' = [reports EXCEPT ![t] = summary]
  /\ held' = [r \in Requests |->
                IF args[r].kind = "read" /\ pc[r] \in Awaits /\ Target(r) = t
                THEN held[r] \cup {Reported(t)'}
                ELSE held[r]]
  /\ UNCHANGED <<now, keys, jwks, args, pc, rows, sent, shown, code, retired, unenriched>>

Tick ==
  /\ now < MaxTime
  /\ now' = now + 1
  /\ UNCHANGED <<keys, jwks, args, pc, upstream, shown, code, history>>

Handle(r) == Create(r) \/ Lookup(r) \/ Enrich(r) \/ Reinvestigate(r) \/ TriggerRetrain(r)

Around ==
  \/ \E r \in Requests : Authenticate(r)
  \/ \E k \in Kids : AddKey(k) \/ RetireKey(k)
  \/ \E t \in Transactions : WriteReport(t)
  \/ Tick

Next == Around \/ \E r \in Requests : Handle(r)

Spec == Init /\ [][Next]_vars

(* The event loop runs every ready handler, and each of its awaits has a   *)
(* timeout of its own.                                                     *)
FairSpec == Spec /\ \A r \in Requests : WF_vars(Handle(r))

-----------------------------------------------------------------------------
Accepted(r) == code[r] \in {200, 202}

(* The request was let in: dependencies.py:92. *)
LetIn(r) == Token(r) # NoToken /\ ~Token(r).expired /\ Entitled(r)

(* EntitledOnly: what was answered, shown or sent, was so for a token that *)
(* names the role, a message whose caller was told otherwise included; and *)
(* what was read or sent to be investigated again is of the token's own    *)
(* tenant, or the client is "admin" (dependencies.py:92 with               *)
(* transaction_repo.py:73, two services apart).  A creation may be told of *)
(* another client's transaction (servicer.py:43), but makes none but its   *)
(* own client's: whoever a row belongs to was let in, and submitted it.    *)
EntitledOnly ==
  /\ \A r \in Requests : Accepted(r) \/ r \in sent \/ shown[r] =>
       /\ LetIn(r)
       /\ args[r].kind \in {"read", "reinvestigate"} =>
            "admin" \in Token(r).groups \/ Token(r).tenant \in {rows[Target(r)], Admin}
  /\ \A t \in Transactions : rows[t] = FirstRows[t] \/
       \E r \in Requests :
         args[r].kind = "create" /\ Target(r) = t /\ LetIn(r) /\ Client(r) = rows[t]

(* cognito.py:35-40: a token signed with a key that Cognito signs with at  *)
(* this moment is never refused for its key, however old the cached set    *)
(* and whatever keys came and went since.                                  *)
CurrentKeysAreAccepted ==
  [][\A r \in Requests :
       code[r] # 401 /\ code'[r] = 401 =>
         Token(r) = NoToken \/ Token(r).expired \/ Token(r).kid \notin keys]_vars

(* cognito.py:16: a key that Cognito withdrew opens nothing once the hour  *)
(* of the cache is over.                                                   *)
RetiredKeysAreForgotten ==
  [][\A r \in Requests :
       pc[r] = "idle" /\ pc'[r] \in Awaits /\ retired[Token(r).kid] # Never =>
         now < retired[Token(r).kid] + JwksTtl]_vars

(* transaction_service.py:244-253 and the four mappers on the way: what a  *)
(* reading tells of the report, that there is one or that there is none,   *)
(* was true of the row at some moment between the request's arrival and    *)
(* its answer, however often the report is overwritten meanwhile.  A       *)
(* failing risk engine may hide a report, and never makes one up.          *)
ReadingsAreCurrent ==
  \A r \in Requests : args[r].kind = "read" /\ code[r] = 200 =>
    shown[r] \in held[r] \/ (~shown[r] /\ r \in unenriched)
=============================================================================

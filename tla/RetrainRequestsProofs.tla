----------------------- MODULE RetrainRequestsProofs -----------------------
(***************************************************************************)
(* Proofs about RetrainRequests, the gateway and the retraining worker,    *)
(* for every value of their constants.                                     *)
(***************************************************************************)
EXTENDS RetrainRequests, TLAPS

AllVars == <<vars, retraining>>

PcValues == Awaits \cup {"idle", "answered"}

-----------------------------------------------------------------------------
(* The operators.                                                          *)

LEMMA StatusType ==
  /\ \A grpc : HttpStatus(grpc) \in Codes \ {0, 200, 202}
  /\ HttpStatus("INTERNAL") = 502 /\ HttpStatus("DEADLINE_EXCEEDED") = 502
  /\ HttpStatus("ALREADY_EXISTS") = 409 /\ HttpStatus("ABORTED") = 409
  /\ HttpStatus("INVALID_ARGUMENT") = 400
  BY DEF HttpStatus, Codes

LEMMA InputType ==
  ASSUME TypeOK, NEW r \in Requests
  PROVE  /\ args[r].kind \in Kinds /\ Target(r) \in Transactions
         /\ Token(r) \in Tokens \cup {NoToken}
         /\ Token(r) # NoToken => Token(r).kid \in Kids /\ Token(r).tenant \in Tenants
  BY GatewayAssumption DEF TypeOK, Token, Target, Tokens

(* Who a client is: a tenant, or the administrators. *)
LEMMA ClientType ==
  ASSUME TypeOK, NEW r \in Requests, Token(r) # NoToken
  PROVE  /\ Client(r) \in Tenants \cup {Admin}
         /\ Client(r) # NoTenant
         /\ "admin" \in Token(r).groups \/ Client(r) = Token(r).tenant
  BY InputType, GatewayAssumption DEF Client

LEMMA TimeTypes ==
  ASSUME TypeOK
  PROVE  /\ now \in Nat /\ now \in Times /\ Never \notin Nat
         /\ \A k \in Kids : retired[k] \in Nat \cup {Never}
         /\ \A j \in jwks : j.since \in Nat
  BY GatewayAssumption DEF TypeOK, Times, Never

LEMMA FirstAwaitType ==
  \A kind \in Kinds :
    /\ FirstAwait[kind] \in {"create", "lookup", "send"}
    /\ FirstAwait[kind] = "create" <=> kind = "create"
    /\ FirstAwait[kind] = "send" <=> kind = "retrain"
  BY DEF Kinds, FirstAwait

LEMMA GotoType ==
  ASSUME TypeOK, NEW r \in Requests,
         \/ \E await \in Awaits : Goto(r, await)
         \/ \E status \in Codes : Respond(r, status)
  PROVE  /\ pc' \in [Requests -> PcValues]
         /\ code' \in [Requests -> Codes \cup {0}]
  BY DEF TypeOK, Goto, Respond, PcValues

(* What the authentication of a request ends with. *)
LEMMA AuthenticateSteps ==
  ASSUME TypeOK, NEW r \in Requests, Authenticate(r)
  PROVE  /\ pc[r] = "idle"
         /\ UNCHANGED <<now, keys, args, rows, reports, sent, shown, retired, unenriched>>
         /\ held' = [held EXCEPT ![r] = IF args[r].kind = "read" THEN {Reported(Target(r))} ELSE {}]
         /\ \/ jwks' = jwks \/ jwks' = {}
            \/ jwks' = {[keys |-> keys, since |-> now]}
         /\ \/ Respond(r, 401) \/ Respond(r, 403) \/ Respond(r, 500)
            \/ /\ Token(r) # NoToken /\ ~Token(r).expired /\ Entitled(r)
               /\ \/ \E j \in Fresh : Token(r).kid \in j.keys
                  \/ Token(r).kid \in keys
               /\ Goto(r, FirstAwait[args[r].kind])
  BY DEF Authenticate, Authorize, upstream

LEMMA SendSteps ==
  ASSUME NEW r \in Requests, Reinvestigate(r) \/ TriggerRetrain(r)
  PROVE  /\ pc[r] = "send"
         /\ sent' = sent \/ sent' = sent \cup {r}
         /\ \/ Respond(r, 202) /\ r \in sent'
            \/ Respond(r, 502) \/ Respond(r, 503)
         /\ args[r].kind \in {"reinvestigate", "retrain"}
         /\ UNCHANGED <<now, keys, jwks, args, rows, reports, shown, retired, held, unenriched>>
  BY DEF Reinvestigate, TriggerRetrain, Send, history

LEMMA CreateSteps ==
  ASSUME TypeOK, NEW r \in Requests, Create(r)
  PROVE  /\ pc[r] = "create"
         /\ \/ rows' = rows
            \/ /\ rows[Target(r)] = NoTenant
               /\ rows' = [rows EXCEPT ![Target(r)] = Client(r)]
         /\ \E status \in Codes \ {0, 200, 401} : Respond(r, status)
         /\ UNCHANGED <<now, keys, jwks, args, reports, sent, shown, retired, held, unenriched>>
<1> DEFINE submitted == [rows EXCEPT ![Target(r)] = IF @ = NoTenant THEN Client(r) ELSE @]
<1>1. \/ submitted = rows
      \/ rows[Target(r)] = NoTenant /\ submitted = [rows EXCEPT ![Target(r)] = Client(r)]
  BY InputType DEF TypeOK
<1>2. \A grpc \in Refusals(r) : HttpStatus(grpc) \in {400, 409, 502}
  BY StatusType DEF Refusals
<1>3. \/ rows' = submitted /\ Respond(r, 202)
      \/ rows' \in {rows, submitted} /\ (Respond(r, 502) \/ Respond(r, 409) \/ Respond(r, 400))
  BY <1>2, StatusType DEF Create
<1>4. {202, 400, 409, 502} \subseteq Codes \ {0, 200, 401}
  BY DEF Codes
<1>5. UNCHANGED <<now, keys, jwks, args, reports, sent, shown, retired, held, unenriched>>
      /\ pc[r] = "create"
  BY DEF Create, history
<1> HIDE DEF submitted
<1> QED
  BY <1>1, <1>3, <1>4, <1>5

LEMMA LookupSteps ==
  ASSUME NEW r \in Requests, Lookup(r)
  PROVE  /\ pc[r] = "lookup"
         /\ \/ Found(r) /\ Goto(r, "enrich")
            \/ Respond(r, 404) \/ Respond(r, 502)
         /\ UNCHANGED <<now, keys, jwks, args, rows, reports, sent, shown, retired, held,
                       unenriched>>
  BY StatusType DEF Lookup, upstream, history

LEMMA EnrichSteps ==
  ASSUME NEW r \in Requests, Enrich(r)
  PROVE  /\ pc[r] = "enrich"
         /\ \/ /\ shown' = [shown EXCEPT ![r] = Shown(r)]
               /\ Enriched(r) /\ unenriched' = unenriched
            \/ /\ unenriched' = unenriched \cup {r}
               /\ Enriched(r) \/ Respond(r, 502)
               /\ shown' = shown
         /\ UNCHANGED <<now, keys, jwks, args, rows, reports, sent, retired, held>>
  BY StatusType DEF Enrich, upstream

(* Every step of the gateway or beside it. *)
LEMMA GatewaySteps ==
  ASSUME [Next]_vars
  PROVE  \/ \E r \in Requests :
              \/ Authenticate(r) \/ Create(r) \/ Lookup(r) \/ Enrich(r)
              \/ Reinvestigate(r) \/ TriggerRetrain(r)
         \/ \E k \in Kids : AddKey(k) \/ RetireKey(k)
         \/ \E t \in Transactions : WriteReport(t)
         \/ Tick
         \/ UNCHANGED vars
  BY DEF Next, Around, Handle

-----------------------------------------------------------------------------
(* What every step leaves of a request.                                    *)

Passed(r) == Accepted(r) \/ r \in sent \/ shown[r]

(* Whatever goes beyond the authentication was let in. *)
Admitted ==
  \A r \in Requests : pc[r] \in Awaits \/ Passed(r) => LetIn(r)

(* The awaits belong to the kinds, and an answer is the end. *)
Paths ==
  \A r \in Requests :
    /\ pc[r] = "create" => args[r].kind = "create"
    /\ pc[r] \in {"lookup", "enrich"} => args[r].kind \in {"read", "reinvestigate"}
    /\ code[r] # 0 => pc[r] = "answered"

(* A request for a transaction goes on only once it was found. *)
Owners ==
  \A r \in Requests :
    args[r].kind \in {"read", "reinvestigate"} /\ (pc[r] \in {"enrich", "send"} \/ Passed(r))
      => Found(r)

(* Who is told that something was queued sent it. *)
Told ==
  \A r \in Requests : code[r] = 202 /\ args[r].kind # "create" => r \in sent

(* A row that was not there at first is of a client who submitted it. *)
Submitted ==
  \A t \in Transactions : rows[t] = FirstRows[t] \/
    \E r \in Requests :
      args[r].kind = "create" /\ Target(r) = t /\ LetIn(r) /\ Client(r) = rows[t]

(* What the row is like now is among what it was since a reading arrived. *)
Informed ==
  \A r \in Requests : pc[r] \in Awaits /\ args[r].kind = "read" =>
    Reported(Target(r)) \in held[r]

(* A reading that is not answered yet has shown nothing. *)
Unshown ==
  \A r \in Requests : args[r].kind = "read" /\ shown[r] => code[r] = 200

(* A key that is in use was never withdrawn, and a cached one not before   *)
(* the set was fetched.                                                    *)
KeysKnown ==
  /\ \A k \in keys : retired[k] = Never
  /\ \A j \in jwks :
       /\ j.since <= now
       /\ \A k \in j.keys : retired[k] = Never \/ j.since <= retired[k]

(* A step that is not the request's own changes nothing of it. *)
Still(r) ==
  /\ pc'[r] = pc[r] /\ code'[r] = code[r] /\ shown'[r] = shown[r]
  /\ r \in sent' <=> r \in sent
  /\ r \in unenriched' <=> r \in unenriched
  /\ \/ held'[r] = held[r] /\ Reported(Target(r))' = Reported(Target(r))
     \/ \E t \in Transactions : WriteReport(t)

LEMMA MoveValues ==
  ASSUME TypeOK, NEW r \in Requests
  PROVE  /\ \A await : Goto(r, await) => pc'[r] = await /\ code'[r] = code[r]
         /\ \A status : Respond(r, status) => pc'[r] = "answered" /\ code'[r] = status
  BY DEF TypeOK, Goto, Respond

LEMMA MoveOthers ==
  ASSUME TypeOK, NEW r \in Requests, NEW s \in Requests, s # r,
         \/ \E await : Goto(s, await)
         \/ \E status : Respond(s, status)
  PROVE  pc'[r] = pc[r] /\ code'[r] = code[r]
  BY DEF TypeOK, Goto, Respond

LEMMA StepsOfOthers ==
  ASSUME TypeOK, [Next]_vars, NEW r \in Requests
  PROVE  \/ Authenticate(r) \/ Create(r) \/ Lookup(r) \/ Enrich(r)
         \/ Reinvestigate(r) \/ TriggerRetrain(r)
         \/ Still(r)
<1>1. ASSUME NEW s \in Requests, s # r,
             \/ Authenticate(s) \/ Create(s) \/ Lookup(s) \/ Enrich(s)
             \/ Reinvestigate(s) \/ TriggerRetrain(s)
      PROVE  Still(r)
  <2>1. ASSUME args' = args, reports' = reports
        PROVE  Reported(Target(r))' = Reported(Target(r))
    BY <2>1 DEF Reported, Target
  <2>2. CASE Authenticate(s)
    <3>1. held'[r] = held[r]
      BY <1>1, <2>2, AuthenticateSteps DEF TypeOK
    <3> QED
      BY <1>1, <2>1, <2>2, <3>1, AuthenticateSteps, MoveOthers DEF Still
  <2>3. CASE Create(s)
    BY <1>1, <2>1, <2>3, CreateSteps, MoveOthers DEF Still
  <2>4. CASE Lookup(s)
    BY <1>1, <2>1, <2>4, LookupSteps, MoveOthers DEF Still
  <2>5. CASE Enrich(s)
    <3>1. Enriched(s) => Goto(s, "send") \/ Respond(s, 200)
      BY DEF Enriched
    <3>2. pc'[r] = pc[r] /\ code'[r] = code[r]
      BY <1>1, <2>5, <3>1, EnrichSteps, MoveOthers
    <3>3. shown'[r] = shown[r]
      BY <1>1, <2>5, EnrichSteps DEF TypeOK
    <3>4. r \in unenriched' <=> r \in unenriched
      BY <1>1, <2>5, EnrichSteps
    <3> QED
      BY <2>1, <2>5, <3>2, <3>3, <3>4, EnrichSteps DEF Still
  <2>6. CASE Reinvestigate(s) \/ TriggerRetrain(s)
    <3>1. pc'[r] = pc[r] /\ code'[r] = code[r]
      BY <1>1, <2>6, SendSteps, MoveOthers
    <3> QED
      BY <1>1, <2>1, <2>6, <3>1, SendSteps DEF Still
  <2> QED
    BY <1>1, <2>2, <2>3, <2>4, <2>5, <2>6
<1>2. ASSUME NEW t \in Transactions, WriteReport(t)
      PROVE  Still(r)
  BY <1>2 DEF WriteReport, Still
<1>3. ASSUME \/ \E k \in Kids : AddKey(k) \/ RetireKey(k)
             \/ Tick
             \/ UNCHANGED vars
      PROVE  Still(r)
  BY <1>3 DEF AddKey, RetireKey, Tick, Still, vars, upstream, history, Reported, Target
<1> QED
  BY <1>1, <1>2, <1>3, GatewaySteps

(* What a request asks for stays, and so does the client of a row. *)
LEMMA UpstreamKeeps ==
  ASSUME TypeOK, [Next]_vars
  PROVE  /\ args' = args
         /\ \A t \in Transactions : rows[t] # NoTenant => rows'[t] = rows[t]
<1>1. CASE \E s \in Requests : Create(s)
  BY <1>1, CreateSteps DEF TypeOK
<1>2. ASSUME NEW s \in Requests,
             \/ Authenticate(s) \/ Lookup(s) \/ Enrich(s)
             \/ Reinvestigate(s) \/ TriggerRetrain(s)
      PROVE  args' = args /\ rows' = rows
  BY <1>2, AuthenticateSteps, LookupSteps, EnrichSteps, SendSteps
<1>3. ASSUME \/ \E k \in Kids : AddKey(k) \/ RetireKey(k)
             \/ \E t \in Transactions : WriteReport(t)
             \/ Tick
             \/ UNCHANGED vars
      PROVE  args' = args /\ rows' = rows
  BY <1>3 DEF AddKey, RetireKey, WriteReport, Tick, vars, upstream
<1> QED
  BY <1>1, <1>2, <1>3, GatewaySteps

LEMMA LetInStays ==
  ASSUME args' = args, NEW r \in Requests
  PROVE  /\ LetIn(r)' <=> LetIn(r)
         /\ Target(r)' = Target(r) /\ Token(r)' = Token(r) /\ Client(r)' = Client(r)
  BY DEF LetIn, Token, Target, Client, Entitled

LEMMA FoundStays ==
  ASSUME TypeOK, [Next]_vars, NEW r \in Requests, Found(r)
  PROVE  Found(r)'
  BY UpstreamKeeps, LetInStays, InputType DEF Found

-----------------------------------------------------------------------------
LEMMA TypeNext == TypeOK /\ Admitted /\ [Next]_vars => TypeOK'
<1> SUFFICES ASSUME TypeOK, Admitted, [Next]_vars PROVE TypeOK'
  OBVIOUS
<1>1. ASSUME NEW r \in Requests, Authenticate(r) PROVE TypeOK'
  <2>1. jwks' \in SUBSET [keys : SUBSET Kids, since : Times]
    BY <1>1, AuthenticateSteps DEF TypeOK
  <2>2. FirstAwait[args[r].kind] \in Awaits
    BY InputType, FirstAwaitType DEF Awaits
  <2>3. /\ pc' \in [Requests -> PcValues]
        /\ code' \in [Requests -> Codes \cup {0}]
    BY <1>1, <2>2, AuthenticateSteps, GotoType DEF Codes
  <2>4. held' \in [Requests -> SUBSET BOOLEAN]
    <3>1. {Reported(Target(r))} \in SUBSET BOOLEAN
      BY DEF Reported
    <3>2. \E h \in SUBSET BOOLEAN : held' = [held EXCEPT ![r] = h]
      BY <1>1, <3>1, AuthenticateSteps
    <3> QED
      BY <3>2 DEF TypeOK
  <2>5. UNCHANGED <<now, keys, args, rows, reports, sent, shown, retired, unenriched>>
    BY <1>1, AuthenticateSteps
  <2> QED
    BY <2>1, <2>3, <2>4, <2>5 DEF TypeOK, PcValues
<1>2. ASSUME NEW r \in Requests, Create(r) PROVE TypeOK'
  <2>1. \E status \in Codes : Respond(r, status)
    BY <1>2, CreateSteps
  <2>2. Client(r) \in Tenants \cup {Admin}
    BY <1>2, CreateSteps, ClientType DEF Admitted, Awaits, LetIn
  <2>3. rows' \in [Transactions -> Tenants \cup {Admin, NoTenant}]
    BY <1>2, <2>2, CreateSteps DEF TypeOK
  <2>4. /\ pc' \in [Requests -> PcValues]
        /\ code' \in [Requests -> Codes \cup {0}]
    BY <2>1, GotoType
  <2>5. UNCHANGED <<now, keys, jwks, args, reports, sent, shown, retired, held, unenriched>>
    BY <1>2, CreateSteps
  <2> QED
    BY <2>3, <2>4, <2>5 DEF TypeOK, PcValues
<1>3. ASSUME NEW r \in Requests, Lookup(r) PROVE TypeOK'
  <2>1. "enrich" \in Awaits /\ 404 \in Codes /\ 502 \in Codes
    BY DEF Awaits, Codes
  <2>2. /\ pc' \in [Requests -> PcValues]
        /\ code' \in [Requests -> Codes \cup {0}]
    BY <1>3, <2>1, LookupSteps, GotoType
  <2>3. UNCHANGED <<now, keys, jwks, args, rows, reports, sent, shown, retired, held, unenriched>>
    BY <1>3, LookupSteps
  <2> QED
    BY <2>2, <2>3 DEF TypeOK, PcValues
<1>4. ASSUME NEW r \in Requests, Enrich(r) PROVE TypeOK'
  <2>1. Enriched(r) => Goto(r, "send") \/ Respond(r, 200)
    BY DEF Enriched
  <2>2. "send" \in Awaits /\ 200 \in Codes /\ 502 \in Codes
    BY DEF Awaits, Codes
  <2>3. /\ pc' \in [Requests -> PcValues]
        /\ code' \in [Requests -> Codes \cup {0}]
    BY <1>4, <2>1, <2>2, EnrichSteps, GotoType
  <2>4. unenriched' \in SUBSET Requests
    BY <1>4, EnrichSteps DEF TypeOK
  <2>6. shown' \in [Requests -> BOOLEAN]
    <3>1. PICK b \in BOOLEAN : shown' = shown \/ shown' = [shown EXCEPT ![r] = b]
      BY <1>4, EnrichSteps, Shown(r) \in BOOLEAN DEF Shown
    <3> QED
      BY <3>1 DEF TypeOK
  <2>5. UNCHANGED <<now, keys, jwks, args, rows, reports, sent, retired, held>>
    BY <1>4, EnrichSteps
  <2> QED
    BY <2>3, <2>4, <2>5, <2>6 DEF TypeOK, PcValues
<1>5. ASSUME NEW r \in Requests, Reinvestigate(r) \/ TriggerRetrain(r) PROVE TypeOK'
  <2>1. 202 \in Codes /\ 502 \in Codes /\ 503 \in Codes
    BY DEF Codes
  <2>2. /\ pc' \in [Requests -> PcValues]
        /\ code' \in [Requests -> Codes \cup {0}]
    BY <1>5, <2>1, SendSteps, GotoType
  <2>3. sent' \in SUBSET Requests
    BY <1>5, SendSteps DEF TypeOK
  <2>4. UNCHANGED <<now, keys, jwks, args, rows, reports, shown, retired, held, unenriched>>
    BY <1>5, SendSteps
  <2> QED
    BY <2>2, <2>3, <2>4 DEF TypeOK, PcValues
<1>6. ASSUME NEW k \in Kids, AddKey(k) \/ RetireKey(k) PROVE TypeOK'
  BY <1>6, TimeTypes DEF TypeOK, AddKey, RetireKey, upstream, history
<1>7. ASSUME NEW t \in Transactions, WriteReport(t) PROVE TypeOK'
  <2>1. reports' \in [Transactions -> Summaries]
    BY <1>7 DEF TypeOK, WriteReport, Summaries
  <2>2. Reported(t)' \in BOOLEAN
    BY DEF Reported
  <2>3. held' \in [Requests -> SUBSET BOOLEAN]
    BY <1>7, <2>2 DEF TypeOK, WriteReport
  <2> QED
    BY <1>7, <2>1, <2>3 DEF TypeOK, WriteReport
<1>8. ASSUME Tick PROVE TypeOK'
  <2>1. now' \in Times
    BY <1>8, TimeTypes, GatewayAssumption DEF Tick, Times
  <2> QED
    BY <1>8, <2>1 DEF Tick, TypeOK, upstream, history
<1>9. ASSUME UNCHANGED vars PROVE TypeOK'
  BY <1>9 DEF vars, TypeOK, upstream, history
<1> QED
  BY <1>1, <1>2, <1>3, <1>4, <1>5, <1>6, <1>7, <1>8, <1>9, GatewaySteps

LEMMA PathsNext == TypeOK /\ Paths /\ [Next]_vars => Paths'
<1> SUFFICES ASSUME TypeOK, Paths, [Next]_vars, NEW r \in Requests
             PROVE  /\ pc'[r] = "create" => args'[r].kind = "create"
                    /\ pc'[r] \in {"lookup", "enrich"} => args'[r].kind \in {"read", "reinvestigate"}
                    /\ code'[r] # 0 => pc'[r] = "answered"
  BY DEF Paths
<1>1. /\ args' = args
      /\ args[r].kind \in Kinds
      /\ pc[r] = "create" => args[r].kind = "create"
      /\ pc[r] \in {"lookup", "enrich"} => args[r].kind \in {"read", "reinvestigate"}
      /\ code[r] # 0 => pc[r] = "answered"
  BY UpstreamKeeps, InputType DEF Paths
<1>2. CASE Authenticate(r)
  BY <1>1, <1>2, AuthenticateSteps, MoveValues, FirstAwaitType DEF Kinds
<1>3. CASE Create(r)
  BY <1>1, <1>3, CreateSteps, MoveValues
<1>4. CASE Lookup(r)
  BY <1>1, <1>4, LookupSteps, MoveValues
<1>5. CASE Enrich(r)
  BY <1>1, <1>5, EnrichSteps, MoveValues DEF Enriched
<1>6. CASE Reinvestigate(r) \/ TriggerRetrain(r)
  BY <1>1, <1>6, SendSteps, MoveValues
<1>7. CASE Still(r)
  BY <1>1, <1>7 DEF Still
<1> QED
  BY <1>2, <1>3, <1>4, <1>5, <1>6, <1>7, StepsOfOthers

LEMMA AdmittedNext == TypeOK /\ Admitted /\ [Next]_vars => Admitted'
<1> SUFFICES ASSUME TypeOK, Admitted, [Next]_vars, NEW r \in Requests,
                    (pc[r] \in Awaits \/ Passed(r))'
             PROVE  LetIn(r)'
  BY DEF Admitted
<1>1. LetIn(r)' <=> LetIn(r)
  BY UpstreamKeeps, LetInStays
<1>2. pc[r] \in Awaits \/ Passed(r) => LetIn(r)
  BY DEF Admitted
<1>3. "answered" \notin Awaits
  BY DEF Awaits
<1>4. CASE Authenticate(r)
  <2>1. Passed(r)' => Passed(r) \/ (code'[r] # code[r] /\ code'[r] \in {200, 202})
    BY <1>4, AuthenticateSteps DEF Passed, Accepted
  <2>2. \/ LetIn(r)
        \/ pc'[r] = "answered" /\ code'[r] \in {401, 403, 500}
    BY <1>4, AuthenticateSteps, MoveValues DEF LetIn
  <2> QED
    BY <1>1, <1>2, <1>3, <2>1, <2>2
<1>5. CASE Create(r) \/ Lookup(r) \/ Enrich(r) \/ Reinvestigate(r) \/ TriggerRetrain(r)
  <2>1. pc[r] \in Awaits
    BY <1>5, CreateSteps, LookupSteps, EnrichSteps, SendSteps DEF Awaits
  <2> QED
    BY <1>1, <1>2, <2>1
<1>6. CASE Still(r)
  BY <1>1, <1>2, <1>6 DEF Still, Passed, Accepted
<1> QED
  BY <1>4, <1>5, <1>6, StepsOfOthers

LEMMA OwnersNext == TypeOK /\ Paths /\ Owners /\ [Next]_vars => Owners'
<1> SUFFICES ASSUME TypeOK, Paths, Owners, [Next]_vars, NEW r \in Requests,
                    args'[r].kind \in {"read", "reinvestigate"},
                    (pc[r] \in {"enrich", "send"} \/ Passed(r))'
             PROVE  Found(r)'
  BY DEF Owners
<1>1. args[r].kind \in {"read", "reinvestigate"} /\ args[r].kind \in Kinds
  BY UpstreamKeeps, InputType
<1>2. pc[r] \in {"enrich", "send"} \/ Passed(r) => Found(r)
  BY <1>1 DEF Owners
<1>3. Found(r) => Found(r)'
  BY FoundStays
<1>4. CASE Authenticate(r)
  <2>1. FirstAwait[args[r].kind] = "lookup"
    BY <1>1, FirstAwaitType
  <2>2. /\ pc'[r] \notin {"enrich", "send"}
        /\ code'[r] = code[r] \/ code'[r] \in {401, 403, 500}
    BY <1>4, <2>1, AuthenticateSteps, MoveValues
  <2>3. Passed(r)' => Passed(r)
    BY <1>4, <2>2, AuthenticateSteps DEF Passed, Accepted
  <2> QED
    BY <1>2, <1>3, <2>2, <2>3
<1>5. CASE Create(r)
  BY <1>1, <1>5, CreateSteps DEF Paths
<1>6. CASE Lookup(r)
  <2>1. \/ Found(r)
        \/ pc'[r] = "answered" /\ code'[r] \in {404, 502}
    BY <1>6, LookupSteps, MoveValues
  <2>2. sent' = sent /\ shown' = shown
    BY <1>6, LookupSteps
  <2> QED
    BY <1>2, <1>3, <2>1, <2>2 DEF Passed, Accepted
<1>7. CASE Enrich(r)
  BY <1>2, <1>3, <1>7, EnrichSteps
<1>8. CASE Reinvestigate(r) \/ TriggerRetrain(r)
  BY <1>2, <1>3, <1>8, SendSteps
<1>9. CASE Still(r)
  BY <1>2, <1>3, <1>9 DEF Still, Passed, Accepted
<1> QED
  BY <1>4, <1>5, <1>6, <1>7, <1>8, <1>9, StepsOfOthers

LEMMA SubmittedNext == TypeOK /\ Admitted /\ Paths /\ Submitted /\ [Next]_vars => Submitted'
<1> SUFFICES ASSUME TypeOK, Admitted, Paths, Submitted, [Next]_vars, NEW t \in Transactions,
                    rows'[t] # FirstRows[t]
             PROVE  \E r \in Requests :
                      (args[r].kind = "create" /\ Target(r) = t /\ LetIn(r) /\ Client(r) = rows[t])'
  BY DEF Submitted
<1>1. /\ args' = args
      /\ \A r \in Requests : Target(r)' = Target(r) /\ (LetIn(r)' <=> LetIn(r))
                             /\ Client(r)' = Client(r)
  BY UpstreamKeeps, LetInStays
<1>2. CASE rows'[t] = rows[t]
  BY <1>1, <1>2 DEF Submitted
<1>3. CASE rows'[t] # rows[t]
  <2>1. PICK r \in Requests : Create(r)
    BY <1>3, GatewaySteps, AuthenticateSteps, LookupSteps, EnrichSteps, SendSteps
       DEF AddKey, RetireKey, WriteReport, Tick, vars, upstream
  <2>2. Target(r) = t /\ rows'[t] = Client(r)
    BY <1>3, <2>1, CreateSteps DEF TypeOK
  <2>3. LetIn(r) /\ args[r].kind = "create"
    BY <2>1, CreateSteps DEF Admitted, Paths, Awaits
  <2> QED
    BY <1>1, <2>2, <2>3
<1> QED
  BY <1>2, <1>3

(* A message that was sent stays sent. *)
LEMMA SentStays ==
  ASSUME TypeOK, [Next]_vars, NEW r \in Requests, r \in sent
  PROVE  r \in sent'
<1>1. CASE Still(r)
  BY <1>1 DEF Still
<1> QED
  BY <1>1, StepsOfOthers, AuthenticateSteps, CreateSteps, LookupSteps, EnrichSteps, SendSteps

LEMMA ToldNext == TypeOK /\ Paths /\ Told /\ [Next]_vars => Told'
<1> SUFFICES ASSUME TypeOK, Paths, Told, [Next]_vars, NEW r \in Requests,
                    code'[r] = 202, args'[r].kind # "create"
             PROVE  r \in sent'
  BY DEF Told
<1>1. args[r].kind # "create" /\ (code[r] = 202 => r \in sent')
  BY UpstreamKeeps, SentStays DEF Told
<1>2. CASE Authenticate(r) \/ Lookup(r)
  BY <1>1, <1>2, AuthenticateSteps, LookupSteps, MoveValues
<1>3. CASE Create(r)
  BY <1>1, <1>3, CreateSteps DEF Paths
<1>4. CASE Enrich(r)
  BY <1>1, <1>4, EnrichSteps, MoveValues DEF Enriched
<1>5. CASE Reinvestigate(r) \/ TriggerRetrain(r)
  BY <1>1, <1>5, SendSteps, MoveValues
<1>6. CASE Still(r)
  BY <1>1, <1>6 DEF Still
<1> QED
  BY <1>2, <1>3, <1>4, <1>5, <1>6, StepsOfOthers

LEMMA InformedNext == TypeOK /\ Informed /\ [Next]_vars => Informed'
<1> SUFFICES ASSUME TypeOK, Informed, [Next]_vars, NEW r \in Requests,
                    pc'[r] \in Awaits, args'[r].kind = "read"
             PROVE  Reported(Target(r))' \in held'[r]
  BY DEF Informed
<1>1. args[r].kind = "read" /\ Target(r)' = Target(r) /\ args' = args
  BY UpstreamKeeps, LetInStays
<1>2. ASSUME reports' = reports PROVE Reported(Target(r))' = Reported(Target(r))
  BY <1>1, <1>2 DEF Reported
<1>3. pc[r] \in Awaits => Reported(Target(r)) \in held[r]
  BY <1>1 DEF Informed
<1>4. CASE Authenticate(r)
  <2>1. held'[r] = {Reported(Target(r))}
    BY <1>1, <1>4, AuthenticateSteps DEF TypeOK
  <2> QED
    BY <1>2, <1>4, <2>1, AuthenticateSteps
<1>5. CASE Create(r) \/ Lookup(r) \/ Enrich(r) \/ Reinvestigate(r) \/ TriggerRetrain(r)
  <2>1. pc[r] \in Awaits /\ reports' = reports /\ held' = held
    BY <1>5, CreateSteps, LookupSteps, EnrichSteps, SendSteps DEF Awaits
  <2> QED
    BY <1>2, <1>3, <2>1
<1>6. CASE Still(r)
  <2>1. pc[r] \in Awaits
    BY <1>6 DEF Still
  <2>2. ASSUME NEW t \in Transactions, WriteReport(t)
        PROVE  Reported(Target(r))' \in held'[r]
    <3>1. CASE Target(r) = t
      <4>1. held'[r] = held[r] \cup {Reported(t)'}
        BY <1>1, <2>1, <2>2, <3>1 DEF WriteReport
      <4>2. Reported(Target(r))' = Reported(t)'
        BY <1>1, <3>1 DEF Reported
      <4> QED
        BY <4>1, <4>2
    <3>2. CASE Target(r) # t
      <4>1. held'[r] = held[r]
        BY <2>2, <3>2 DEF WriteReport
      <4>2. reports'[Target(r)] = reports[Target(r)]
        BY <2>2, <3>2, InputType DEF WriteReport, TypeOK
      <4>3. Reported(Target(r))' = Reported(Target(r))
        BY <1>1, <4>2 DEF Reported
      <4> QED
        BY <1>3, <2>1, <4>1, <4>3
    <3> QED
      BY <3>1, <3>2
  <2> QED
    BY <1>3, <1>6, <2>1, <2>2 DEF Still
<1> QED
  BY <1>4, <1>5, <1>6, StepsOfOthers

(* A report is shown if and only if the row holds one. *)
LEMMA ShownValue ==
  ASSUME TypeOK, NEW r \in Requests
  PROVE  Shown(r) = Reported(Target(r))
<1>1. reports[Target(r)] \in {"NULL", "", "text"}
  BY InputType DEF TypeOK, Summaries
<1>2. CASE reports[Target(r)] = "text"
  <2>1. "text" \in Investigation(GetRiskResult(Target(r)))
    BY <1>2 DEF Investigation, GetRiskResult, ResultProto
  <2> QED
    BY <1>2, <2>1 DEF Shown, TransactionProto, Reported
<1>3. CASE reports[Target(r)] # "text"
  <2>1. GetRiskResult(Target(r)) = ""
    BY <1>1, <1>3 DEF GetRiskResult, ResultProto
  <2>2. Investigation(GetRiskResult(Target(r))) = {}
    BY <2>1 DEF Investigation
  <2> QED
    BY <1>3, <2>2 DEF Shown, TransactionProto, Reported
<1> QED
  BY <1>2, <1>3

LEMMA UnshownNext == TypeOK /\ Paths /\ Unshown /\ [Next]_vars => Unshown'
<1> SUFFICES ASSUME TypeOK, Paths, Unshown, [Next]_vars, NEW r \in Requests,
                    args'[r].kind = "read", shown'[r]
             PROVE  code'[r] = 200
  BY DEF Unshown
<1>1. /\ args[r].kind = "read"
      /\ shown[r] => code[r] = 200 /\ pc[r] = "answered"
  BY UpstreamKeeps DEF Unshown, Paths
<1>2. CASE Authenticate(r) \/ Create(r) \/ Lookup(r) \/ Reinvestigate(r) \/ TriggerRetrain(r)
  BY <1>1, <1>2, AuthenticateSteps, CreateSteps, LookupSteps, SendSteps
<1>3. CASE Enrich(r)
  BY <1>1, <1>3, EnrichSteps, MoveValues DEF Enriched
<1>4. CASE Still(r)
  BY <1>1, <1>4 DEF Still
<1> QED
  BY <1>2, <1>3, <1>4, StepsOfOthers

LEMMA ShownNext ==
  TypeOK /\ Paths /\ Informed /\ Unshown /\ ReadingsAreCurrent /\ [Next]_vars
    => ReadingsAreCurrent'
<1> SUFFICES ASSUME TypeOK, Paths, Informed, Unshown, ReadingsAreCurrent, [Next]_vars,
                    NEW r \in Requests, args'[r].kind = "read", code'[r] = 200
             PROVE  shown'[r] \in held'[r] \/ (~shown'[r] /\ r \in unenriched')
  BY DEF ReadingsAreCurrent
<1>1. /\ args[r].kind = "read" /\ (code[r] # 0 => pc[r] = "answered")
      /\ shown[r] => pc[r] = "answered"
  BY UpstreamKeeps DEF Paths, Unshown
<1>2. CASE Authenticate(r)
  BY <1>1, <1>2, AuthenticateSteps, MoveValues
<1>3. CASE Create(r)
  <2>1. args[r].kind = "create"
    BY <1>3, CreateSteps DEF Paths
  <2> QED
    BY <1>1, <2>1
<1>4. CASE Lookup(r) \/ Reinvestigate(r) \/ TriggerRetrain(r)
  BY <1>1, <1>4, LookupSteps, SendSteps, MoveValues
<1>5. CASE Enrich(r)
  <2>1. Shown(r) \in held[r]
    BY <1>1, <1>5, EnrichSteps, ShownValue DEF Informed, Awaits
  <2>2. ~shown[r] /\ held' = held
    BY <1>1, <1>5, EnrichSteps
  <2>3. CASE shown' = [shown EXCEPT ![r] = Shown(r)]
    <3>1. shown'[r] = Shown(r)
      BY <2>3 DEF TypeOK
    <3> QED
      BY <2>1, <2>2, <3>1
  <2>4. CASE shown' = shown /\ unenriched' = unenriched \cup {r}
    BY <2>2, <2>4
  <2>5. \/ shown' = [shown EXCEPT ![r] = Shown(r)]
        \/ shown' = shown /\ unenriched' = unenriched \cup {r}
    BY <1>5, EnrichSteps
  <2> QED
    BY <2>3, <2>4, <2>5
<1>6. CASE Still(r)
  <2>1. code[r] = 200 /\ pc[r] = "answered" /\ pc[r] \notin Awaits
    BY <1>1, <1>6 DEF Still, Awaits
  <2>2. held'[r] = held[r]
    <3>1. ASSUME NEW t \in Transactions, WriteReport(t) PROVE held'[r] = held[r]
      BY <2>1, <3>1 DEF WriteReport
    <3> QED
      BY <1>6, <3>1 DEF Still
  <2>3. shown[r] \in held[r] \/ (~shown[r] /\ r \in unenriched)
    BY <1>1, <2>1 DEF ReadingsAreCurrent
  <2> QED
    BY <1>6, <2>2, <2>3 DEF Still
<1> QED
  BY <1>2, <1>3, <1>4, <1>5, <1>6, StepsOfOthers

LEMMA KeysNext == TypeOK /\ KeysKnown /\ [Next]_vars => KeysKnown'
<1> SUFFICES ASSUME TypeOK, KeysKnown, [Next]_vars PROVE KeysKnown'
  OBVIOUS
<1>1. /\ now \in Nat /\ Never \notin Nat
      /\ keys \subseteq Kids /\ retired \in [Kids -> Times \cup {Never}]
      /\ \A j \in jwks : j.since \in Nat /\ j.keys \subseteq Kids
      /\ \A k \in Kids : retired[k] \in Nat \cup {Never}
  BY TimeTypes DEF TypeOK
<1>2. ASSUME NEW r \in Requests, Authenticate(r) PROVE KeysKnown'
  <2>1. UNCHANGED <<now, keys, retired>>
    BY <1>2, AuthenticateSteps
  <2>2. \A j \in jwks' : j \in jwks \/ j = [keys |-> keys, since |-> now]
    BY <1>2, AuthenticateSteps
  <2> QED
    BY <1>1, <2>1, <2>2 DEF KeysKnown
<1>3. ASSUME NEW r \in Requests,
             Create(r) \/ Lookup(r) \/ Enrich(r) \/ Reinvestigate(r) \/ TriggerRetrain(r)
      PROVE  KeysKnown'
  <2>1. UNCHANGED <<now, keys, retired, jwks>>
    BY <1>3, CreateSteps, LookupSteps, EnrichSteps, SendSteps
  <2> QED
    BY <2>1 DEF KeysKnown
<1>4. ASSUME NEW k \in Kids, AddKey(k) PROVE KeysKnown'
  BY <1>4 DEF AddKey, history, KeysKnown
<1>5. ASSUME NEW k \in Kids, RetireKey(k) PROVE KeysKnown'
  <2>1. /\ UNCHANGED <<now, jwks>> /\ keys' = keys \ {k}
        /\ retired' = [retired EXCEPT ![k] = now]
    BY <1>5 DEF RetireKey
  <2>2. \A l \in Kids : retired'[l] = IF l = k THEN now ELSE retired[l]
    BY <1>1, <2>1
  <2>3. \A l \in keys' : retired'[l] = Never
    BY <1>1, <2>1, <2>2 DEF KeysKnown
  <2>4. \A j \in jwks : \A l \in j.keys : retired'[l] = Never \/ j.since <= retired'[l]
    BY <1>1, <2>2 DEF KeysKnown
  <2> QED
    BY <2>1, <2>3, <2>4 DEF KeysKnown
<1>6. ASSUME NEW t \in Transactions, WriteReport(t) PROVE KeysKnown'
  BY <1>6 DEF WriteReport, history, KeysKnown
<1>7. ASSUME Tick PROVE KeysKnown'
  <2>1. now' = now + 1 /\ UNCHANGED <<keys, jwks, retired>>
    BY <1>7 DEF Tick, history
  <2> QED
    BY <1>1, <2>1 DEF KeysKnown
<1>8. ASSUME UNCHANGED vars PROVE KeysKnown'
  BY <1>8 DEF vars, history, KeysKnown
<1> QED
  BY <1>2, <1>3, <1>4, <1>5, <1>6, <1>7, <1>8, GatewaySteps

(* The two promises of the key cache, for one step. *)
KeysAccepted ==
  \A r \in Requests :
    code[r] # 401 /\ code'[r] = 401 =>
      Token(r) = NoToken \/ Token(r).expired \/ Token(r).kid \notin keys

KeysForgotten ==
  \A r \in Requests :
    pc[r] = "idle" /\ pc'[r] \in Awaits /\ retired[Token(r).kid] # Never =>
      now < retired[Token(r).kid] + JwksTtl

LEMMA KeysAcceptedStep == TypeOK /\ [Next]_vars => KeysAccepted
<1> SUFFICES ASSUME TypeOK, [Next]_vars, NEW r \in Requests, code[r] # 401, code'[r] = 401
             PROVE  Token(r) = NoToken \/ Token(r).expired \/ Token(r).kid \notin keys
  BY DEF KeysAccepted
<1>1. CASE Authenticate(r)
  <2>1. ASSUME Authorize(r) PROVE Token(r).expired
    BY <2>1, MoveValues DEF Authorize
  <2>2. ~Respond(r, 500)
    BY MoveValues
  <2>3. Token(r) = NoToken \/ Authorize(r) \/ Token(r).kid \notin keys
    BY <1>1, <2>2 DEF Authenticate
  <2> QED
    BY <2>1, <2>3
<1>2. CASE Create(r) \/ Lookup(r) \/ Reinvestigate(r) \/ TriggerRetrain(r)
  BY <1>2, CreateSteps, LookupSteps, SendSteps, MoveValues
<1>3. CASE Enrich(r)
  BY <1>3, EnrichSteps, MoveValues DEF Enriched
<1>4. CASE Still(r)
  BY <1>4 DEF Still
<1> QED
  BY <1>1, <1>2, <1>3, <1>4, StepsOfOthers

LEMMA KeysForgottenStep == TypeOK /\ KeysKnown /\ [Next]_vars => KeysForgotten
<1> SUFFICES ASSUME TypeOK, KeysKnown, [Next]_vars, NEW r \in Requests,
                    pc[r] = "idle", pc'[r] \in Awaits, retired[Token(r).kid] # Never
             PROVE  now < retired[Token(r).kid] + JwksTtl
  BY DEF KeysForgotten
<1>1. Authenticate(r)
  BY StepsOfOthers, CreateSteps, LookupSteps, EnrichSteps, SendSteps DEF Still, Awaits
<1>2. "answered" \notin Awaits
  BY DEF Awaits
<1>3. /\ Token(r) # NoToken
      /\ \/ \E j \in Fresh : Token(r).kid \in j.keys
         \/ Token(r).kid \in keys
  BY <1>1, <1>2, AuthenticateSteps, MoveValues
<1>4. Token(r).kid \notin keys
  BY DEF KeysKnown
<1>5. PICK j \in jwks : now < j.since + JwksTtl /\ Token(r).kid \in j.keys
  BY <1>3, <1>4 DEF Fresh
<1>6. /\ now \in Nat /\ j.since \in Nat /\ JwksTtl \in Nat
      /\ retired[Token(r).kid] \in Nat
  BY <1>3, InputType, TimeTypes, GatewayAssumption
<1>7. j.since <= retired[Token(r).kid]
  BY <1>5 DEF KeysKnown
<1> QED
  BY <1>5, <1>6, <1>7

-----------------------------------------------------------------------------
(* The retraining worker.                                                  *)

(* A message is acknowledged for a workflow that returned. *)
Acknowledged ==
  /\ DeletedIsDecided
  /\ \A w \in Workers : step[w] # "poll" => job[w] \in Jobs /\ place[job[w]] # "absent"
  /\ \A w \in Workers : step[w] = "delete" => job[w] \in completed

LEMMA ReleaseType ==
  ASSUME RetrainTypeOK, NEW w \in Workers, Release(w)
  PROVE  /\ step' \in [Workers -> {"poll", "fetch", "decide", "delete"}]
         /\ job' \in [Workers -> Jobs \cup {NoJob}]
  BY DEF RetrainTypeOK, Release

LEMMA FailureType ==
  ASSUME RetrainTypeOK, OneMoreFailure \/ failures' = failures
  PROVE  failures' \in 0 .. MaxFailures
  BY RetrainAssumption DEF RetrainTypeOK, OneMoreFailure

LEMMA RetrainTypeNext ==
  ASSUME RetrainTypeOK, Acknowledged,
         RetrainNext \/ (\E m \in Jobs : Enqueue(m)) \/ UNCHANGED retraining
  PROVE  RetrainTypeOK'
<1>1. ASSUME NEW w \in Workers, Poll(w) PROVE RetrainTypeOK'
  BY <1>1 DEF Poll, RetrainTypeOK, Places
<1>2. ASSUME NEW w \in Workers, FetchMetrics(w) PROVE RetrainTypeOK'
  <2>1. failures' \in 0 .. MaxFailures
    BY <1>2, FailureType DEF FetchMetrics
  <2>2. /\ step' \in [Workers -> {"poll", "fetch", "decide", "delete"}]
        /\ job' \in [Workers -> Jobs \cup {NoJob}]
        /\ total' \in [Workers -> 0 .. MaxDecisions]
    BY <1>2, ReleaseType DEF FetchMetrics, RetrainTypeOK
  <2> QED
    BY <1>2, <2>1, <2>2 DEF FetchMetrics, RetrainTypeOK
<1>3. ASSUME NEW w \in Workers, AnalyzeAndDecide(w) PROVE RetrainTypeOK'
  <2>1. job[w] \in Jobs
    BY <1>3 DEF AnalyzeAndDecide, Acknowledged
  <2>2. /\ step' \in [Workers -> {"poll", "fetch", "decide", "delete"}]
        /\ job' \in [Workers -> Jobs \cup {NoJob}]
        /\ completed' \in SUBSET Jobs
    BY <1>3, <2>1, ReleaseType DEF AnalyzeAndDecide, RetrainTypeOK
  <2> QED
    BY <1>3, <2>2 DEF AnalyzeAndDecide, RetrainTypeOK
<1>4. ASSUME NEW w \in Workers, Acknowledge(w) PROVE RetrainTypeOK'
  <2>1. failures' \in 0 .. MaxFailures
    BY <1>4, FailureType DEF Acknowledge
  <2>2. /\ step' \in [Workers -> {"poll", "fetch", "decide", "delete"}]
        /\ job' \in [Workers -> Jobs \cup {NoJob}]
    BY <1>4, ReleaseType DEF Acknowledge
  <2>3. place' \in [Jobs -> Places]
    BY <1>4 DEF Acknowledge, RetrainTypeOK, Places
  <2> QED
    BY <1>4, <2>1, <2>2, <2>3 DEF Acknowledge, RetrainTypeOK
<1>5. ASSUME NEW w \in Workers, Restart(w) PROVE RetrainTypeOK'
  <2>1. failures' \in 0 .. MaxFailures
    BY <1>5, FailureType DEF Restart
  <2>2. /\ step' \in [Workers -> {"poll", "fetch", "decide", "delete"}]
        /\ job' \in [Workers -> Jobs \cup {NoJob}]
    BY <1>5, ReleaseType DEF Restart
  <2> QED
    BY <1>5, <2>1, <2>2 DEF Restart, RetrainTypeOK
<1>6. ASSUME NEW m \in Jobs, Reappear(m) PROVE RetrainTypeOK'
  <2>1. failures' \in 0 .. MaxFailures
    BY <1>6, FailureType DEF Reappear
  <2> QED
    BY <1>6, <2>1 DEF Reappear, RetrainTypeOK, Places
<1>7. ASSUME RecordDecision PROVE RetrainTypeOK'
  <2>1. decisions' \in 0 .. MaxDecisions
    BY <1>7, RetrainAssumption DEF RecordDecision, RetrainTypeOK
  <2>2. plenty' \in BOOLEAN
    BY <1>7 DEF RecordDecision
  <2> QED
    BY <1>7, <2>1, <2>2 DEF RecordDecision, RetrainTypeOK
<1>8. ASSUME LeaveWindow PROVE RetrainTypeOK'
  <2>1. decisions' \in 0 .. MaxDecisions
    BY <1>8, RetrainAssumption DEF LeaveWindow, RetrainTypeOK
  <2> QED
    BY <1>8, <2>1 DEF LeaveWindow, RetrainTypeOK
<1>9. ASSUME NEW m \in Jobs, Enqueue(m) PROVE RetrainTypeOK'
  BY <1>9 DEF Enqueue, RetrainTypeOK, Places
<1>10. ASSUME UNCHANGED retraining PROVE RetrainTypeOK'
  BY <1>10 DEF retraining, RetrainTypeOK
<1> QED
  BY <1>1, <1>2, <1>3, <1>4, <1>5, <1>6, <1>7, <1>8, <1>9, <1>10 DEF RetrainNext, Work

LEMMA AcknowledgedNext ==
  ASSUME RetrainTypeOK, Acknowledged,
         RetrainNext \/ (\E m \in Jobs : Enqueue(m)) \/ UNCHANGED retraining
  PROVE  Acknowledged'
<1>1. ASSUME NEW w \in Workers, Poll(w) PROVE Acknowledged'
  BY <1>1 DEF Poll, RetrainTypeOK, Acknowledged, DeletedIsDecided
<1>2. ASSUME NEW w \in Workers, FetchMetrics(w) PROVE Acknowledged'
  BY <1>2 DEF FetchMetrics, Release, RetrainTypeOK, Acknowledged, DeletedIsDecided
<1>3. ASSUME NEW w \in Workers, AnalyzeAndDecide(w) PROVE Acknowledged'
  BY <1>3 DEF AnalyzeAndDecide, Release, RetrainTypeOK, Acknowledged, DeletedIsDecided
<1>4. ASSUME NEW w \in Workers, Acknowledge(w) PROVE Acknowledged'
  BY <1>4 DEF Acknowledge, Release, RetrainTypeOK, Acknowledged, DeletedIsDecided
<1>5. ASSUME NEW w \in Workers, Restart(w) PROVE Acknowledged'
  BY <1>5 DEF Restart, Release, RetrainTypeOK, Acknowledged, DeletedIsDecided
<1>6. ASSUME NEW m \in Jobs, Reappear(m) \/ Enqueue(m) PROVE Acknowledged'
  BY <1>6 DEF Reappear, Enqueue, RetrainTypeOK, Acknowledged, DeletedIsDecided
<1>7. ASSUME RecordDecision \/ LeaveWindow \/ UNCHANGED retraining PROVE Acknowledged'
  BY <1>7 DEF RecordDecision, LeaveWindow, retraining, Acknowledged, DeletedIsDecided
<1> QED
  BY <1>1, <1>2, <1>3, <1>4, <1>5, <1>6, <1>7 DEF RetrainNext, Work

(* Only the gateway puts a message in. *)
LEMMA OnlySentArePlaced ==
  ASSUME RetrainTypeOK, Acknowledged, RetrainNext, NEW m \in Jobs, place[m] = "absent"
  PROVE  place'[m] = "absent"
<1>1. ASSUME NEW w \in Workers, Acknowledge(w) PROVE place'[m] = "absent"
  BY <1>1 DEF Acknowledge, Acknowledged, RetrainTypeOK
<1>2. ASSUME NEW w \in Workers, Poll(w) PROVE place'[m] = "absent"
  BY <1>2 DEF Poll, RetrainTypeOK
<1>3. ASSUME NEW n \in Jobs, Reappear(n) PROVE place'[m] = "absent"
  BY <1>3 DEF Reappear, RetrainTypeOK
<1> QED
  BY <1>1, <1>2, <1>3
     DEF RetrainNext, Work, FetchMetrics, AnalyzeAndDecide, Restart, RecordDecision, LeaveWindow

-----------------------------------------------------------------------------
(* The two together.                                                       *)

(* What the worker's queue has had is what the requests sent there. *)
Ordered ==
  \A m \in Jobs : place[m] # "absent" <=> m \in sent /\ args[m].kind = "retrain"

GatewayInv ==
  /\ TypeOK /\ Admitted /\ Paths /\ Owners
  /\ Submitted /\ Told /\ Informed /\ Unshown /\ ReadingsAreCurrent /\ KeysKnown

WorkerInv == RetrainTypeOK /\ Acknowledged

SystemInv == GatewayInv /\ WorkerInv /\ Ordered

LEMMA SystemInitInv == SystemInit => SystemInv
<1> SUFFICES ASSUME SystemInit PROVE SystemInv
  OBVIOUS
<1>1. Init /\ RetrainInit
  BY DEF SystemInit
<1>2. TypeOK
  <2>1. 0 \in Times
    BY GatewayAssumption DEF Times
  <2> QED
    BY <1>1, <2>1, GatewayAssumption DEF Init, TypeOK, Summaries
<1>3. \A r \in Requests :
        pc[r] = "idle" /\ code[r] = 0 /\ r \notin sent /\ ~shown[r]
  BY <1>1 DEF Init
<1>4. Admitted /\ Paths /\ Owners /\ Told
  BY <1>3 DEF Admitted, Paths, Owners, Told, Passed, Accepted, Awaits
<1>5. Informed /\ Unshown /\ ReadingsAreCurrent
  BY <1>3 DEF Informed, Unshown, ReadingsAreCurrent, Awaits
<1>8. Submitted /\ KeysKnown
  BY <1>1, GatewayAssumption DEF Init, Submitted, KeysKnown
<1>6. RetrainTypeOK
  BY <1>1, RetrainAssumption DEF RetrainInit, RetrainTypeOK, Places
<1>7. Acknowledged /\ Ordered
  BY <1>1, <1>3, JobsAreRequests DEF RetrainInit, Acknowledged, DeletedIsDecided, Ordered
<1> QED
  BY <1>2, <1>4, <1>5, <1>6, <1>7, <1>8 DEF SystemInv, GatewayInv, WorkerInv

(* A step of the composition is one of each part, or of one and a stutter  *)
(* of the other.                                                           *)
LEMMA Parts ==
  ASSUME [SystemNext]_AllVars
  PROVE  /\ [Next]_vars
         /\ RetrainNext \/ (\E m \in Jobs : Enqueue(m)) \/ UNCHANGED retraining
  BY JobsAreRequests DEF SystemNext, AllVars, GatewayStep, Next

LEMMA GatewayInvNext == GatewayInv /\ [Next]_vars => GatewayInv'
  BY TypeNext, AdmittedNext, PathsNext, OwnersNext, SubmittedNext, ToldNext, InformedNext,
     UnshownNext, ShownNext, KeysNext
     DEF GatewayInv

(* The worker does not forget what it was sent. *)
LEMMA PlacedStays ==
  ASSUME RetrainTypeOK, RetrainNext \/ (\E n \in Jobs : Enqueue(n)) \/ UNCHANGED retraining,
         NEW m \in Jobs, place[m] # "absent"
  PROVE  place'[m] # "absent"
<1>1. ASSUME NEW w \in Workers, Poll(w) \/ Acknowledge(w) PROVE place'[m] # "absent"
  BY <1>1 DEF Poll, Acknowledge, RetrainTypeOK
<1>2. ASSUME NEW n \in Jobs, Reappear(n) \/ Enqueue(n) PROVE place'[m] # "absent"
  BY <1>2 DEF Reappear, Enqueue, RetrainTypeOK
<1> QED
  BY <1>1, <1>2
     DEF RetrainNext, Work, FetchMetrics, AnalyzeAndDecide, Restart, RecordDecision, LeaveWindow,
         retraining

LEMMA OrderedNext ==
  ASSUME TypeOK, RetrainTypeOK, Acknowledged, Ordered, [SystemNext]_AllVars
  PROVE  Ordered'
<1> SUFFICES ASSUME NEW m \in Jobs
             PROVE  place'[m] # "absent" <=> m \in sent' /\ args'[m].kind = "retrain"
  BY DEF Ordered
<1>1. args' = args /\ m \in Requests
  BY Parts, UpstreamKeeps, JobsAreRequests
<1>2. CASE place[m] # "absent"
  BY <1>1, <1>2, Parts, SentStays, PlacedStays DEF Ordered
<1>3. CASE place[m] = "absent"
  <2>1. m \notin sent \/ args[m].kind # "retrain"
    BY <1>3 DEF Ordered
  <2>2. CASE RetrainNext /\ UNCHANGED vars
    BY <1>1, <1>3, <2>1, <2>2, OnlySentArePlaced DEF vars, upstream
  <2>3. CASE UNCHANGED retraining /\ (Around \/ UNCHANGED vars)
    <3>1. sent' = sent
      BY <2>3, AuthenticateSteps
         DEF Around, AddKey, RetireKey, WriteReport, Tick, vars, upstream
    <3> QED
      BY <1>1, <1>3, <2>1, <2>3, <3>1 DEF retraining
  <2>4. ASSUME NEW r \in Requests, GatewayStep(r)
        PROVE  place'[m] # "absent" <=> m \in sent' /\ args'[m].kind = "retrain"
    <3>1. \/ Create(r) \/ Lookup(r) \/ Enrich(r) \/ Reinvestigate(r) \/ TriggerRetrain(r)
      BY <2>4 DEF GatewayStep, Handle
    <3>2. sent' = sent \/ sent' = sent \cup {r}
      BY <3>1, CreateSteps, LookupSteps, EnrichSteps, SendSteps
    <3>3. CASE Queued(r)
      <4>1. place' = [place EXCEPT ![r] = "visible"] /\ r \in Jobs
        BY <2>4, <3>3, JobsAreRequests DEF GatewayStep, Enqueue
      <4> QED
        BY <1>1, <1>3, <2>1, <3>2, <3>3, <4>1 DEF Queued, RetrainTypeOK
    <3>4. CASE ~Queued(r)
      <4>1. place' = place
        BY <2>4, <3>4 DEF GatewayStep, retraining
      <4> QED
        BY <1>1, <1>3, <2>1, <3>2, <3>4, <4>1 DEF Queued
    <3> QED
      BY <3>3, <3>4
  <2> QED
    BY <2>2, <2>3, <2>4 DEF SystemNext, AllVars
<1> QED
  BY <1>2, <1>3

LEMMA SystemInvNext == SystemInv /\ [SystemNext]_AllVars => SystemInv'
<1> SUFFICES ASSUME SystemInv, [SystemNext]_AllVars PROVE SystemInv'
  OBVIOUS
<1>1. GatewayInv'
  BY Parts, GatewayInvNext DEF SystemInv
<1>2. WorkerInv'
  BY Parts, RetrainTypeNext, AcknowledgedNext DEF SystemInv, WorkerInv
<1>3. Ordered'
  BY OrderedNext DEF SystemInv, GatewayInv, WorkerInv
<1> QED
  BY <1>1, <1>2, <1>3 DEF SystemInv

LEMMA Invariance == SystemSpec => []SystemInv
<1>1. SystemSpec => SystemInit /\ [][SystemNext]_AllVars
  BY DEF SystemSpec, AllVars
<1> QED
  BY <1>1, SystemInitInv, SystemInvNext, PTL

(* The variables of the gateway and of the worker have their types: the    *)
(* statuses are those that the routes declare.                             *)
THEOREM TypeInvariant == SystemSpec => []SystemTypeOK
<1>1. SystemInv => SystemTypeOK
  BY DEF SystemInv, GatewayInv, WorkerInv, SystemTypeOK
<1> QED
  BY <1>1, Invariance, PTL

(* dependencies.py:92 with transaction_repo.py:73, two services apart, and *)
(* servicer.py:43: however many requests are under way and whatever fails, *)
(* what is answered or sent was for a token that names the role, readings  *)
(* and reinvestigations are of the own tenant's transactions unless the    *)
(* client is "admin", and a new row is its submitter's.  Tenants may bear  *)
(* any id, that of the administrators included.                            *)
THEOREM OnlyTheEntitled == SystemSpec => []EntitledOnly
<1>1. SystemInv => EntitledOnly
  <2> SUFFICES ASSUME SystemInv PROVE EntitledOnly
    OBVIOUS
  <2>1. ASSUME NEW r \in Requests, Passed(r)
        PROVE  /\ LetIn(r)
               /\ args[r].kind \in {"read", "reinvestigate"} =>
                    "admin" \in Token(r).groups \/ Token(r).tenant \in {rows[Target(r)], Admin}
    <3>1. LetIn(r)
      BY <2>1 DEF SystemInv, GatewayInv, Admitted
    <3>2. args[r].kind \in {"read", "reinvestigate"} => Found(r)
      BY <2>1 DEF SystemInv, GatewayInv, Owners
    <3> QED
      BY <3>1, <3>2, ClientType DEF SystemInv, GatewayInv, LetIn, Found
  <2>2. Submitted
    BY DEF SystemInv, GatewayInv
  <2> QED
    BY <2>1, <2>2 DEF EntitledOnly, Passed, Submitted
<1> QED
  BY <1>1, Invariance, PTL

(* mlops.py:88 and mlops_consumer.py:116, two services apart: whatever     *)
(* fails, however often workers restart and however long they overlap, a   *)
(* retraining that was accepted is in the queue, with a worker, or done.   *)
THEOREM NothingAcceptedIsLost == SystemSpec => []AcceptedIsKept
<1>1. SystemInv => AcceptedIsKept
  <2> SUFFICES ASSUME SystemInv, NEW r \in Requests, args[r].kind = "retrain", code[r] = 202
               PROVE  \/ place[r] \in {"visible", "inFlight"}
                      \/ place[r] = "deleted" /\ r \in completed
    BY DEF AcceptedIsKept
  <2>1. r \in Jobs /\ r \in sent
    BY JobsAreRequests DEF SystemInv, GatewayInv, Told
  <2>2. place[r] # "absent" /\ place[r] \in Places
    BY <2>1 DEF SystemInv, WorkerInv, Ordered, RetrainTypeOK
  <2>3. place[r] = "deleted" => r \in completed
    BY <2>1 DEF SystemInv, WorkerInv, Acknowledged, DeletedIsDecided
  <2> QED
    BY <2>2, <2>3 DEF Places
<1> QED
  BY <1>1, Invariance, PTL

(* transaction_service.py:244-253: for any requests, overlapping writes of *)
(* the report and failures, a reading tells of the report as it was while  *)
(* the reading was under way, or of none where the risk engine failed.     *)
THEOREM ReadingsAreLinear == SystemSpec => []ReadingsAreCurrent
<1>1. SystemInv => ReadingsAreCurrent
  BY DEF SystemInv, GatewayInv
<1> QED
  BY <1>1, Invariance, PTL

(* cognito.py:35-40: a key in use is never refused. *)
THEOREM KeysInUseAreAccepted == SystemSpec => CurrentKeysAreAccepted
<1>1. TypeOK /\ [SystemNext]_AllVars => [KeysAccepted]_vars
  BY KeysAcceptedStep, Parts
<1>2. SystemInv => TypeOK
  BY DEF SystemInv, GatewayInv
<1>3. CurrentKeysAreAccepted <=> [][KeysAccepted]_vars
  BY DEF CurrentKeysAreAccepted, KeysAccepted
<1> QED
  BY <1>1, <1>2, <1>3, Invariance, PTL DEF SystemSpec, AllVars

(* cognito.py:16: a withdrawn key opens nothing after the cache's hour. *)
THEOREM WithdrawnKeysExpire == SystemSpec => RetiredKeysAreForgotten
<1>1. TypeOK /\ KeysKnown /\ [SystemNext]_AllVars => [KeysForgotten]_vars
  BY KeysForgottenStep, Parts
<1>2. SystemInv => TypeOK /\ KeysKnown
  BY DEF SystemInv, GatewayInv
<1>3. RetiredKeysAreForgotten <=> [][KeysForgotten]_vars
  BY DEF RetiredKeysAreForgotten, KeysForgotten
<1> QED
  BY <1>1, <1>2, <1>3, Invariance, PTL DEF SystemSpec, AllVars

(* mlops_consumer.py:116: a request that is gone was decided, whatever     *)
(* failed and whoever else had the message.                                *)
THEOREM GoneIsDecided == SystemSpec => []DeletedIsDecided
<1>1. SystemInv => DeletedIsDecided
  BY DEF SystemInv, WorkerInv, Acknowledged
<1> QED
  BY <1>1, Invariance, PTL

(* mlops_consumer.py:116 and dependencies.py:84: a retraining the worker   *)
(* knows of is an administrator's.                                         *)
THEOREM AdministratorsRetrain == SystemSpec => []OnlyAdministratorsRetrain
<1>1. SystemInv => OnlyAdministratorsRetrain
  <2> SUFFICES ASSUME SystemInv, NEW r \in Requests, place[r] # "absent"
               PROVE  args[r].kind = "retrain" /\ "admin" \in Token(r).groups /\ ~Token(r).expired
    BY DEF OnlyAdministratorsRetrain
  <2>1. args[r].kind = "retrain" /\ r \in sent
    BY JobsAreRequests DEF SystemInv, Ordered
  <2>2. LetIn(r)
    BY <2>1 DEF SystemInv, GatewayInv, Admitted, Passed
  <2> QED
    BY <2>1, <2>2 DEF LetIn, Entitled, Role
<1> QED
  BY <1>1, Invariance, PTL
=============================================================================

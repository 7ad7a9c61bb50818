---------------------- MODULE TransactionServiceProofs ----------------------
(***************************************************************************)
(* Proofs about TransactionService, for every value of its constants.      *)
(*                                                                         *)
(* The argument: a transaction that anything names (a cache entry, a       *)
(* result on its way out, a reply, an event) is recorded in the ledger     *)
(* under the key concerned, the ledger has one row per key, and rows only  *)
(* change their status.  So two answers for a key name the same row.       *)
(***************************************************************************)
EXTENDS TransactionService, TLAPS

(* Transaction i is in the ledger under key k. *)
Recorded(i, k) == \E r \in ledger : r.id = i /\ r.key = k

-----------------------------------------------------------------------------
(* The parts of the inductive invariant. *)

(* A row carries the request of the call that inserted it, and that call   *)
(* is past its INSERT.                                                     *)
RowsMatchCalls ==
  \A r \in ledger :
    /\ r.key = Key(r.id)
    /\ pc[r.id] \notin {"check", "lock", "recheck", "lookup", "score", "insert"}

OneRowPerKey == \A r, s \in ledger : r.key = s.key => r = s

CacheIsRecorded == \A e \in cache : Recorded(e.response.id, e.key)

RepliesAreRecorded ==
  \A m \in replies : /\ Recorded(m.response.id, Key(m.call))
                     /\ pc[m.call] = "answered"

EventsAreRecorded == \A c \in Calls : published[c] > 0 => Recorded(c, Key(c))

(* What a handler holds in its hands. *)
HandlersAreRecorded ==
  \A c \in Calls :
    /\ pc[c] \in {"insert", "publish"} => result[c].id = c
    /\ pc[c] \in {"publish", "store"} => Recorded(result[c].id, Key(c))

ApprovalsAreEarned ==
  \A c \in Calls : pc[c] = "insert" =>
    /\ result[c].status \in {"APPROVED", "REVIEW", "BLOCKED"}
    /\ result[c].status = "APPROVED" => c \in approvals

Inv ==
  /\ RowsMatchCalls
  /\ OneRowPerKey
  /\ CacheIsRecorded
  /\ RepliesAreRecorded
  /\ EventsAreRecorded
  /\ HandlersAreRecorded
  /\ ApprovalsAreEarned
  /\ NeverSilentlyApproved

-----------------------------------------------------------------------------
(* What the values the handler builds are. *)

LEMMA CachedResults ==
  ASSUME TypeOK, NEW c \in Calls, NEW e \in Cached(c)
  PROVE  /\ e \in cache /\ e.key = Key(c)
         /\ e.response \in Results
         /\ Replay(e.response) \in Results
         /\ Replay(e.response).id = e.response.id
  BY DEF TypeOK, Cached, Entries, Replay, Results

LEMMA FoundResults ==
  ASSUME TypeOK, NEW c \in Calls, NEW r \in Found(c)
  PROVE  /\ r \in ledger /\ r.key = Key(c)
         /\ FromRow(r) \in Results
         /\ FromRow(r).id = r.id
  BY DEF TypeOK, Found, FromRow, Rows, Results, Decisions

LEMMA ScoredResults ==
  ASSUME NEW c \in Calls, NEW d \in Decisions
  PROVE  /\ Scored(c, d) \in Results
         /\ Scored(c, d).id = c
         /\ Scored(c, d).status \in {"APPROVED", "REVIEW", "BLOCKED"}
         /\ Scored(c, d).status = "APPROVED" => d = "APPROVE"
  BY DEF Scored, FromRiskDecision, Results, Decisions, Statuses

LEMMA NewRowType ==
  ASSUME TypeOK, NEW c \in Calls
  PROVE  /\ Key(c) \in Keys
         /\ NewRow(c) \in Rows
         /\ NewRow(c).id = c
         /\ NewRow(c).key = Key(c)
         /\ NewRow(c).status = result[c].status
  BY DEF TypeOK, NewRow, Key, Requests, Results, Rows

-----------------------------------------------------------------------------
(* The part of the type invariant that replying, refusing and proceeding   *)
(* change.                                                                 *)
Moved ==
  /\ pc' \in [Calls -> Awaits \cup Ended]
  /\ replies' \in SUBSET [call : Calls, response : Results]
  /\ refusals' \in SUBSET [call : Calls, code : Codes]

LEMMA ReplyType ==
  ASSUME TypeOK, NEW c \in Calls, NEW response \in Results, Reply(c, response)
  PROVE  Moved
  BY DEF TypeOK, Reply, Goto, Moved, Ended

LEMMA RefuseType ==
  ASSUME TypeOK, NEW c \in Calls, NEW code \in Codes, Refuse(c, code)
  PROVE  Moved
  BY DEF TypeOK, Refuse, Goto, Moved, Ended

LEMMA ProceedType ==
  ASSUME TypeOK, NEW c \in Calls, NEW await \in Awaits \cup Ended, Proceed(c, await)
  PROVE  Moved
  BY DEF TypeOK, Proceed, Goto, Moved, answers

LEMMA TypeInit == Init => TypeOK
  BY DEF Init, TypeOK, Results, Decisions, Statuses, Awaits

LEMMA TypeNext == TypeOK /\ [Next]_vars => TypeOK'
<1> SUFFICES ASSUME TypeOK, [Next]_vars PROVE TypeOK'
  OBVIOUS
<1> USE DEF Moved
<1>1. ASSUME NEW c \in Calls, CheckCache(c) PROVE TypeOK'
  <2>1. Moved
    BY <1>1, CachedResults, ReplyType, RefuseType, ProceedType
       DEF CheckCache, Codes, Awaits
  <2> QED
    BY <1>1, <2>1 DEF CheckCache, TypeOK, redis
<1>2. ASSUME NEW c \in Calls, AcquireLock(c) PROVE TypeOK'
  <2>1. Moved
    BY <1>2, RefuseType, ProceedType DEF AcquireLock, Codes, Awaits
  <2>2. locks' \in SUBSET Keys
    BY <1>2, NewRowType DEF AcquireLock, TypeOK
  <2> QED
    BY <1>2, <2>1, <2>2 DEF AcquireLock, TypeOK
<1>3. ASSUME NEW c \in Calls, RecheckCache(c) PROVE TypeOK'
  <2>1. Moved
    BY <1>3, CachedResults, ReplyType, ProceedType DEF RecheckCache, Awaits
  <2> QED
    BY <1>3, <2>1 DEF RecheckCache, TypeOK, redis
<1>4. ASSUME NEW c \in Calls, LookUp(c) PROVE TypeOK'
  <2>1. Moved
    BY <1>4, RefuseType, ProceedType DEF LookUp, Codes, Awaits
  <2>2. result' \in [Calls -> Results]
    BY <1>4, FoundResults DEF LookUp, TypeOK
  <2> QED
    BY <1>4, <2>1, <2>2 DEF LookUp, TypeOK, redis
<1>5. ASSUME NEW c \in Calls, ScoreRisk(c) PROVE TypeOK'
  <2>1. Moved
    BY <1>5, ProceedType DEF ScoreRisk, Awaits
  <2>2. result' \in [Calls -> Results]
    BY <1>5, ScoredResults DEF ScoreRisk, TypeOK, Decisions
  <2>3. approvals' \in SUBSET Calls
    BY <1>5 DEF ScoreRisk, TypeOK
  <2> QED
    BY <1>5, <2>1, <2>2, <2>3 DEF ScoreRisk, TypeOK, redis
<1>6. ASSUME NEW c \in Calls, InsertRow(c) PROVE TypeOK'
  <2>1. Moved
    BY <1>6, RefuseType, ProceedType DEF InsertRow, Codes, Awaits
  <2>2. ledger' \in SUBSET Rows
    BY <1>6, NewRowType DEF InsertRow, TypeOK
  <2> QED
    BY <1>6, <2>1, <2>2 DEF InsertRow, TypeOK, redis
<1>7. ASSUME NEW c \in Calls, FindWinner(c) PROVE TypeOK'
  <2>1. Moved
    BY <1>7, RefuseType, ProceedType DEF FindWinner, Codes, Awaits
  <2>2. result' \in [Calls -> Results]
    BY <1>7, FoundResults DEF FindWinner, TypeOK
  <2> QED
    BY <1>7, <2>1, <2>2 DEF FindWinner, TypeOK, redis
<1>8. ASSUME NEW c \in Calls, PublishEvent(c) PROVE TypeOK'
  <2>1. attempts' \in [Calls -> Nat] /\ published' \in [Calls -> Nat]
    BY <1>8 DEF PublishEvent, TypeOK
  <2>2. pc' \in [Calls -> Awaits \cup Ended]
    BY <1>8 DEF PublishEvent, TypeOK, Goto, Awaits
  <2> QED
    BY <1>8, <2>1, <2>2 DEF PublishEvent, TypeOK, redis, answers
<1>9. ASSUME NEW c \in Calls, StoreAndReply(c) PROVE TypeOK'
  <2>1. result[c] \in Results /\ Key(c) \in Keys /\ args[c].terms \in Terms
    BY DEF TypeOK, Key, Requests
  <2>2. Moved
    BY <1>9, <2>1, ReplyType DEF StoreAndReply
  <2>3. cache' \in SUBSET Entries
    BY <1>9, <2>1 DEF StoreAndReply, TypeOK, Entries
  <2> QED
    BY <1>9, <2>2, <2>3 DEF StoreAndReply, TypeOK
<1>10. ASSUME NEW c \in Calls, Cancel(c) PROVE TypeOK'
  <2>1. Moved
    BY <1>10, ProceedType DEF Cancel, Ended
  <2> QED
    BY <1>10, <2>1 DEF Cancel, TypeOK, redis
<1>11. ASSUME NEW r \in ledger, NEW new \in StatusRequests, UpdateStatus(r, new)
       PROVE TypeOK'
  <2>1. new \in Statuses
    BY <1>11 DEF UpdateStatus, ValidTransitions, Statuses
  <2>2. ledger' \in SUBSET Rows /\ approvals' \in SUBSET Calls
    BY <1>11, <2>1 DEF UpdateStatus, TypeOK, Rows
  <2> QED
    BY <1>11, <2>2 DEF UpdateStatus, TypeOK, handlers, redis, answers
<1>12. ASSUME NEW k \in Keys, ExpireLock(k) PROVE TypeOK'
  BY <1>12 DEF ExpireLock, TypeOK, handlers, answers
<1>13. ASSUME NEW k \in Keys, ExpireCache(k) PROVE TypeOK'
  BY <1>13 DEF ExpireCache, TypeOK, handlers, answers
<1>14. CASE UNCHANGED vars
  BY <1>14 DEF vars, TypeOK, handlers, redis, answers
<1> QED
  BY <1>1, <1>2, <1>3, <1>4, <1>5, <1>6, <1>7, <1>8, <1>9, <1>10, <1>11, <1>12,
     <1>13, <1>14 DEF Next, Handle

(* TypeInvariant: the state stays in the sets its variables are declared   *)
(* for, whatever fails: in particular every status written is one of       *)
(* TransactionStatus, and every decision one of RiskDecision.              *)
THEOREM TypeInvariant == Spec => []TypeOK
  BY TypeInit, TypeNext, PTL DEF Spec

-----------------------------------------------------------------------------
(* What the ledger records it keeps, and the next state agrees with a      *)
(* recorded transaction about its key.                                     *)
RecordsAreKept == \A i, k : Recorded(i, k) => Recorded(i, k)'

LEMMA NextKeepsRecords ==
  ASSUME TypeOK, [Next]_vars
  PROVE  RecordsAreKept /\ args' = args
<1>1. ASSUME NEW r \in ledger, NEW new \in StatusRequests, UpdateStatus(r, new)
      PROVE  RecordsAreKept /\ args' = args
  <2>1. [r EXCEPT !.status = new].id = r.id /\ [r EXCEPT !.status = new].key = r.key
    BY DEF TypeOK, Rows
  <2>2. \A s \in ledger : s \in ledger' \/ s = r
    BY <1>1 DEF UpdateStatus
  <2>3. [r EXCEPT !.status = new] \in ledger'
    BY <1>1 DEF UpdateStatus
  <2> QED
    BY <1>1, <2>1, <2>2, <2>3 DEF RecordsAreKept, Recorded, UpdateStatus, handlers
<1>2. ASSUME ledger \subseteq ledger' PROVE RecordsAreKept
  BY <1>2 DEF RecordsAreKept, Recorded
<1>3. ASSUME NEW c \in Calls, Handle(c) \/ Cancel(c)
      PROVE  ledger \subseteq ledger' /\ args' = args
  BY <1>3 DEF Handle, Cancel, CheckCache, AcquireLock, RecheckCache, LookUp, ScoreRisk,
              InsertRow, FindWinner, PublishEvent, StoreAndReply
<1>4. ASSUME NEW k \in Keys, ExpireLock(k) \/ ExpireCache(k)
      PROVE  ledger \subseteq ledger' /\ args' = args
  BY <1>4 DEF ExpireLock, ExpireCache, handlers
<1>5. CASE UNCHANGED vars
  BY <1>2, <1>5 DEF vars, handlers
<1> QED
  BY <1>1, <1>2, <1>3, <1>4, <1>5 DEF Next

-----------------------------------------------------------------------------
LEMMA InvInit == Init => Inv
  BY DEF Init, Inv, RowsMatchCalls, OneRowPerKey, CacheIsRecorded, RepliesAreRecorded,
         EventsAreRecorded, HandlersAreRecorded, ApprovalsAreEarned,
         NeverSilentlyApproved

(* A step that only moves handler c on, without touching what the parts of *)
(* the invariant speak of: it may not move c to a state they constrain,    *)
(* unless c was constrained in the same way before.                        *)
LEMMA MoveKeepsInv ==
  ASSUME TypeOK, Inv, NEW c \in Calls, NEW await \in Awaits \cup Ended,
         pc[c] \in Awaits, Goto(c, await),
         await \notin {"insert", "publish", "store"},
         pc[c] \in {"insert", "publish", "store"} => await \in {"refind"} \cup Ended,
         pc[c] \in {"refind"} => await \in Ended,
         UNCHANGED <<args, result, cache, ledger, published, replies, approvals>>
  PROVE  Inv'
<1>1. /\ pc' = [pc EXCEPT ![c] = await]
      /\ \A d \in Calls : d # c => pc'[d] = pc[d]
      /\ pc'[c] = await
  BY DEF Goto, TypeOK
<1>2. \A i, k : Recorded(i, k)' <=> Recorded(i, k)
  BY DEF Recorded
<1>3. RowsMatchCalls'
  <2> SUFFICES ASSUME NEW r \in ledger
               PROVE  r.key = Key(r.id)' /\ pc'[r.id] \notin
                        {"check", "lock", "recheck", "lookup", "score", "insert"}
    BY DEF RowsMatchCalls
  <2>1. r.id \in Calls
    BY DEF TypeOK, Rows
  <2> QED
    BY <1>1, <2>1 DEF Inv, RowsMatchCalls, Key, Awaits, Ended
<1>4. RepliesAreRecorded'
  <2> SUFFICES ASSUME NEW m \in replies
               PROVE  Recorded(m.response.id, Key(m.call))' /\ pc'[m.call] = "answered"
    BY DEF RepliesAreRecorded
  <2>1. m.call \in Calls /\ pc[m.call] = "answered"
    BY DEF TypeOK, Inv, RepliesAreRecorded
  <2> QED
    BY <1>1, <1>2, <2>1 DEF Inv, RepliesAreRecorded, Key, Awaits, Recorded
<1>5. HandlersAreRecorded' /\ EventsAreRecorded' /\ CacheIsRecorded'
  BY <1>1, <1>2 DEF Inv, HandlersAreRecorded, EventsAreRecorded, CacheIsRecorded, Key,
                    Recorded
<1>6. ApprovalsAreEarned' /\ OneRowPerKey' /\ NeverSilentlyApproved'
  BY <1>1 DEF Inv, ApprovalsAreEarned, OneRowPerKey, NeverSilentlyApproved
<1> QED
  BY <1>3, <1>4, <1>5, <1>6 DEF Inv

(* Answering call c with a transaction that is recorded under its key. *)
LEMMA ReplyKeepsInv ==
  ASSUME TypeOK, Inv, NEW c \in Calls, NEW response, Reply(c, response),
         pc[c] \in Awaits \ {"insert"}, Recorded(response.id, Key(c)),
         CacheIsRecorded',
         UNCHANGED <<args, result, ledger, published, approvals>>
  PROVE  Inv'
<1>1. /\ \A d \in Calls : d # c => pc'[d] = pc[d]
      /\ pc'[c] = "answered"
      /\ replies' = replies \cup {[call |-> c, response |-> response]}
  BY DEF Reply, Goto, TypeOK
<1>2. \A i, k : Recorded(i, k)' <=> Recorded(i, k)
  BY DEF Recorded
<1>3. RowsMatchCalls'
  BY <1>1 DEF Inv, RowsMatchCalls, Key, TypeOK, Rows
<1>4. RepliesAreRecorded'
  <2> SUFFICES ASSUME NEW m \in replies'
               PROVE  Recorded(m.response.id, Key(m.call))' /\ pc'[m.call] = "answered"
    BY DEF RepliesAreRecorded
  <2>1. CASE m \in replies
    <3>1. m.call \in Calls /\ pc[m.call] = "answered" /\ m.call # c
      BY <2>1 DEF TypeOK, Inv, RepliesAreRecorded, Awaits
    <3> QED
      BY <1>1, <1>2, <2>1, <3>1 DEF Inv, RepliesAreRecorded, Key, Recorded
  <2>2. CASE m = [call |-> c, response |-> response]
    BY <1>1, <1>2, <2>2 DEF Key, Recorded
  <2> QED
    BY <1>1, <2>1, <2>2
<1>5. HandlersAreRecorded' /\ EventsAreRecorded'
  BY <1>1, <1>2 DEF Inv, HandlersAreRecorded, EventsAreRecorded, Key, Recorded
<1>6. ApprovalsAreEarned' /\ OneRowPerKey' /\ NeverSilentlyApproved'
  BY <1>1 DEF Inv, ApprovalsAreEarned, OneRowPerKey, NeverSilentlyApproved
<1> QED
  BY <1>3, <1>4, <1>5, <1>6 DEF Inv

(* Handler c takes its result from a row that is recorded under its key. *)
LEMMA TakeRowKeepsInv ==
  ASSUME TypeOK, Inv, NEW c \in Calls, NEW r \in Found(c),
         pc[c] \in {"lookup", "refind"}, Goto(c, "store"),
         result' = [result EXCEPT ![c] = FromRow(r)],
         UNCHANGED <<args, cache, ledger, published, replies, approvals>>
  PROVE  Inv'
<1>1. /\ \A d \in Calls : d # c => pc'[d] = pc[d] /\ result'[d] = result[d]
      /\ pc'[c] = "store" /\ result'[c] = FromRow(r)
  BY DEF Goto, TypeOK
<1>2. \A i, k : Recorded(i, k)' <=> Recorded(i, k)
  BY DEF Recorded
<1>3. Recorded(FromRow(r).id, Key(c))
  BY FoundResults DEF Recorded
<1>4. RowsMatchCalls'
  BY <1>1 DEF Inv, RowsMatchCalls, Key, TypeOK, Rows
<1>5. RepliesAreRecorded'
  BY <1>1, <1>2 DEF Inv, RepliesAreRecorded, Key, TypeOK, Recorded
<1>6. HandlersAreRecorded' /\ EventsAreRecorded' /\ CacheIsRecorded'
  BY <1>1, <1>2, <1>3 DEF Inv, HandlersAreRecorded, EventsAreRecorded, CacheIsRecorded,
                          Key, Recorded
<1>7. ApprovalsAreEarned' /\ OneRowPerKey' /\ NeverSilentlyApproved'
  BY <1>1 DEF Inv, ApprovalsAreEarned, OneRowPerKey, NeverSilentlyApproved
<1> QED
  BY <1>4, <1>5, <1>6, <1>7 DEF Inv

LEMMA ScoreKeepsInv ==
  ASSUME TypeOK, Inv, NEW c \in Calls, ScoreRisk(c)
  PROVE  Inv'
<1>1. PICK d \in Decisions :
        /\ result' = [result EXCEPT ![c] = Scored(c, d)]
        /\ approvals \subseteq approvals'
        /\ d = "APPROVE" => c \in approvals'
  BY DEF ScoreRisk, Decisions
<1>2. /\ \A e \in Calls : e # c => pc'[e] = pc[e] /\ result'[e] = result[e]
      /\ pc[c] = "score" /\ pc'[c] = "insert" /\ result'[c] = Scored(c, d)
  BY <1>1 DEF ScoreRisk, Proceed, Goto, TypeOK
<1>3. UNCHANGED <<args, cache, ledger, published, replies>>
  BY DEF ScoreRisk, Proceed, answers, redis
<1>4. \A i, k : Recorded(i, k)' <=> Recorded(i, k)
  BY <1>3 DEF Recorded
<1>5. RowsMatchCalls'
  BY <1>2, <1>3 DEF Inv, RowsMatchCalls, Key, TypeOK, Rows
<1>6. RepliesAreRecorded'
  BY <1>2, <1>3, <1>4 DEF Inv, RepliesAreRecorded, Key, TypeOK, Recorded
<1>7. HandlersAreRecorded' /\ EventsAreRecorded' /\ CacheIsRecorded'
  BY <1>2, <1>3, <1>4, ScoredResults
     DEF Inv, HandlersAreRecorded, EventsAreRecorded, CacheIsRecorded, Key, Recorded
<1>8. ApprovalsAreEarned'
  BY <1>1, <1>2, ScoredResults DEF Inv, ApprovalsAreEarned
<1>9. OneRowPerKey' /\ NeverSilentlyApproved'
  BY <1>1, <1>3 DEF Inv, OneRowPerKey, NeverSilentlyApproved
<1> QED
  BY <1>5, <1>6, <1>7, <1>8, <1>9 DEF Inv

LEMMA InsertKeepsInv ==
  ASSUME TypeOK, Inv, NEW c \in Calls, InsertRow(c)
  PROVE  Inv'
<1>1. CASE UNCHANGED ledger /\ (Proceed(c, "refind") \/ Refuse(c, "INTERNAL"))
  BY <1>1, MoveKeepsInv
     DEF InsertRow, Proceed, Refuse, answers, redis, Awaits, Ended
<1>2. CASE /\ KeyIsFree(Key(c))
           /\ ledger' = ledger \cup {NewRow(c)}
           /\ Goto(c, "publish") \/ Goto(c, "refused")
  <2>1. /\ pc[c] = "insert"
        /\ pc'[c] \in {"publish", "refused"}
        /\ \A d \in Calls : d # c => pc'[d] = pc[d]
        /\ UNCHANGED <<args, result, cache, published, replies, approvals>>
    BY <1>2 DEF InsertRow, Proceed, Refuse, answers, redis, Goto, TypeOK
  <2>2. ledger \subseteq ledger'
    BY <1>2
  <2>3. Recorded(c, Key(c))'
    BY <1>2, <2>1, NewRowType DEF Recorded, Key
  <2>4. RowsMatchCalls'
    BY <1>2, <2>1, NewRowType DEF Inv, RowsMatchCalls, Key, TypeOK, Rows
  <2>5. OneRowPerKey'
    BY <1>2, NewRowType DEF Inv, OneRowPerKey, KeyIsFree
  <2>6. CacheIsRecorded' /\ EventsAreRecorded'
    BY <2>1, <2>2 DEF Inv, CacheIsRecorded, EventsAreRecorded, Key, Recorded
  <2>7. RepliesAreRecorded'
    <3> SUFFICES ASSUME NEW m \in replies
                 PROVE  Recorded(m.response.id, Key(m.call))' /\ pc'[m.call] = "answered"
      BY <2>1 DEF RepliesAreRecorded
    <3>1. m.call \in Calls /\ pc[m.call] = "answered" /\ m.call # c
      BY <2>1 DEF TypeOK, Inv, RepliesAreRecorded
    <3> QED
      BY <2>1, <2>2, <3>1 DEF Inv, RepliesAreRecorded, Key, Recorded
  <2>8. HandlersAreRecorded'
    BY <2>1, <2>2, <2>3 DEF Inv, HandlersAreRecorded, Key, Recorded
  <2>9. ApprovalsAreEarned'
    BY <2>1 DEF Inv, ApprovalsAreEarned
  <2>10. NeverSilentlyApproved'
    BY <1>2, <2>1, NewRowType DEF Inv, ApprovalsAreEarned, NeverSilentlyApproved
  <2> QED
    BY <2>4, <2>5, <2>6, <2>7, <2>8, <2>9, <2>10 DEF Inv
<1> QED
  BY <1>1, <1>2 DEF InsertRow, Proceed, Refuse

LEMMA PublishKeepsInv ==
  ASSUME TypeOK, Inv, NEW c \in Calls, PublishEvent(c)
  PROVE  Inv'
<1>1. /\ pc[c] = "publish" /\ pc'[c] \in {"publish", "store"}
      /\ \A d \in Calls : d # c => pc'[d] = pc[d] /\ published'[d] = published[d]
      /\ UNCHANGED <<args, result, cache, ledger, replies, approvals>>
  BY DEF PublishEvent, Goto, TypeOK, answers, redis
<1>2. \A i, k : Recorded(i, k)' <=> Recorded(i, k)
  BY <1>1 DEF Recorded
<1>3. RowsMatchCalls'
  BY <1>1 DEF Inv, RowsMatchCalls, Key, TypeOK, Rows
<1>4. RepliesAreRecorded'
  <2> SUFFICES ASSUME NEW m \in replies
               PROVE  Recorded(m.response.id, Key(m.call))' /\ pc'[m.call] = "answered"
    BY <1>1 DEF RepliesAreRecorded
  <2>1. m.call \in Calls /\ pc[m.call] = "answered" /\ m.call # c
    BY <1>1 DEF TypeOK, Inv, RepliesAreRecorded
  <2> QED
    BY <1>1, <1>2, <2>1 DEF Inv, RepliesAreRecorded, Key, Recorded
<1>5. Recorded(c, Key(c)) /\ result[c].id = c
  BY <1>1 DEF Inv, HandlersAreRecorded
<1>6. HandlersAreRecorded' /\ EventsAreRecorded' /\ CacheIsRecorded'
  BY <1>1, <1>2, <1>5 DEF Inv, HandlersAreRecorded, EventsAreRecorded, CacheIsRecorded,
                          Key, Recorded
<1>7. ApprovalsAreEarned' /\ OneRowPerKey' /\ NeverSilentlyApproved'
  BY <1>1 DEF Inv, ApprovalsAreEarned, OneRowPerKey, NeverSilentlyApproved
<1> QED
  BY <1>3, <1>4, <1>6, <1>7 DEF Inv

LEMMA UpdateKeepsInv ==
  ASSUME TypeOK, Inv, NEW r \in ledger, NEW new \in StatusRequests, UpdateStatus(r, new)
  PROVE  Inv'
<1> DEFINE updated == [r EXCEPT !.status = new]
<1>1. /\ updated.id = r.id /\ updated.key = r.key /\ updated.status = new
      /\ r \in Rows /\ updated \in [id : Calls, key : Keys, client : Clients,
                                    terms : Terms, status : {new}]
  BY DEF TypeOK, Rows
<1>2. /\ ledger' = (ledger \ {r}) \cup {updated}
      /\ UNCHANGED <<args, pc, result, cache, published, replies>>
  BY DEF UpdateStatus, handlers, redis, answers
<1>3. \A s \in ledger : \E t \in ledger' : t.id = s.id /\ t.key = s.key
  BY <1>1, <1>2
<1> HIDE DEF updated
<1>4. RowsMatchCalls'
  BY <1>1, <1>2 DEF Inv, RowsMatchCalls, Key
<1>5. OneRowPerKey'
  BY <1>1, <1>2 DEF Inv, OneRowPerKey
<1>6. CacheIsRecorded' /\ RepliesAreRecorded' /\ EventsAreRecorded' /\ HandlersAreRecorded'
  BY <1>2, <1>3 DEF Inv, CacheIsRecorded, RepliesAreRecorded, EventsAreRecorded,
                    HandlersAreRecorded, Key, Recorded
<1>7. approvals \subseteq approvals' /\ (new = "APPROVED" => r.id \in approvals')
  BY DEF UpdateStatus
<1>8. ApprovalsAreEarned'
  BY <1>2, <1>7 DEF Inv, ApprovalsAreEarned
<1>9. new \notin {"REVIEW", "BLOCKED"} => r.id \in approvals'
  BY <1>7 DEF UpdateStatus, ValidTransitions, Inv, NeverSilentlyApproved
<1>10. NeverSilentlyApproved'
  BY <1>1, <1>2, <1>7, <1>9 DEF Inv, NeverSilentlyApproved
<1> QED
  BY <1>4, <1>5, <1>6, <1>8, <1>10 DEF Inv

LEMMA InvNext == TypeOK /\ Inv /\ [Next]_vars => Inv'
<1> SUFFICES ASSUME TypeOK, Inv, [Next]_vars PROVE Inv'
  OBVIOUS
<1>1. ASSUME NEW c \in Calls, CheckCache(c) PROVE Inv'
  <2>1. ASSUME NEW e \in Cached(c), Reply(c, Replay(e.response)) PROVE Inv'
    <3>1. Recorded(Replay(e.response).id, Key(c))
      BY CachedResults DEF Inv, CacheIsRecorded
    <3>2. CacheIsRecorded'
      BY <1>1 DEF CheckCache, redis, Inv, CacheIsRecorded, Recorded
    <3> QED
      BY <1>1, <2>1, <3>1, <3>2, ReplyKeepsInv DEF CheckCache, redis, Awaits
  <2>2. ASSUME Refuse(c, "ALREADY_EXISTS") \/ Proceed(c, "lock") PROVE Inv'
    BY <1>1, <2>2, MoveKeepsInv
       DEF CheckCache, Proceed, Refuse, answers, redis, Awaits, Ended
  <2> QED
    BY <1>1, <2>1, <2>2 DEF CheckCache
<1>2. ASSUME NEW c \in Calls, AcquireLock(c) PROVE Inv'
  BY <1>2, MoveKeepsInv DEF AcquireLock, Proceed, Refuse, answers, Awaits, Ended
<1>3. ASSUME NEW c \in Calls, RecheckCache(c) PROVE Inv'
  <2>1. ASSUME NEW e \in Cached(c), Reply(c, Replay(e.response)) PROVE Inv'
    <3>1. Recorded(Replay(e.response).id, Key(c))
      BY CachedResults DEF Inv, CacheIsRecorded
    <3>2. CacheIsRecorded'
      BY <1>3 DEF RecheckCache, redis, Inv, CacheIsRecorded, Recorded
    <3> QED
      BY <1>3, <2>1, <3>1, <3>2, ReplyKeepsInv DEF RecheckCache, redis, Awaits
  <2>2. ASSUME Proceed(c, "lookup") PROVE Inv'
    BY <1>3, <2>2, MoveKeepsInv DEF RecheckCache, Proceed, answers, redis, Awaits
  <2> QED
    BY <1>3, <2>1, <2>2 DEF RecheckCache
<1>4. ASSUME NEW c \in Calls, LookUp(c) PROVE Inv'
  <2>1. ASSUME NEW r \in Found(c), result' = [result EXCEPT ![c] = FromRow(r)],
               Proceed(c, "store")
        PROVE  Inv'
    BY <1>4, <2>1, TakeRowKeepsInv DEF LookUp, Proceed, answers, redis
  <2>2. ASSUME UNCHANGED result,
               \/ Refuse(c, "ALREADY_EXISTS") \/ Refuse(c, "INTERNAL")
               \/ Proceed(c, "score")
        PROVE  Inv'
    BY <1>4, <2>2, MoveKeepsInv DEF LookUp, Proceed, Refuse, answers, redis, Awaits, Ended
  <2> QED
    BY <1>4, <2>1, <2>2 DEF LookUp
<1>5. ASSUME NEW c \in Calls, FindWinner(c) PROVE Inv'
  <2>1. ASSUME NEW r \in Found(c), result' = [result EXCEPT ![c] = FromRow(r)],
               Proceed(c, "store")
        PROVE  Inv'
    BY <1>5, <2>1, TakeRowKeepsInv DEF FindWinner, Proceed, answers, redis
  <2>2. ASSUME UNCHANGED result, Refuse(c, "INTERNAL") PROVE Inv'
    BY <1>5, <2>2, MoveKeepsInv DEF FindWinner, Refuse, redis, Awaits, Ended
  <2> QED
    BY <1>5, <2>1, <2>2 DEF FindWinner
<1>6. ASSUME NEW c \in Calls, StoreAndReply(c) PROVE Inv'
  <2>1. Recorded(result[c].id, Key(c))
    BY <1>6 DEF StoreAndReply, Inv, HandlersAreRecorded
  <2>2. CacheIsRecorded'
    BY <1>6, <2>1 DEF StoreAndReply, Inv, CacheIsRecorded, Recorded
  <2> QED
    BY <1>6, <2>1, <2>2, ReplyKeepsInv DEF StoreAndReply, Awaits
<1>7. ASSUME NEW c \in Calls, Cancel(c) PROVE Inv'
  BY <1>7, MoveKeepsInv DEF Cancel, Proceed, answers, redis, Ended
<1>8. ASSUME NEW k \in Keys, ExpireLock(k) \/ ExpireCache(k) PROVE Inv'
  <2>1. /\ UNCHANGED <<handlers, ledger, published, answers, approvals>>
        /\ cache' \subseteq cache
    BY <1>8 DEF ExpireLock, ExpireCache
  <2> QED
    BY <2>1 DEF handlers, answers, Inv, RowsMatchCalls, OneRowPerKey, CacheIsRecorded,
                RepliesAreRecorded, EventsAreRecorded, HandlersAreRecorded,
                ApprovalsAreEarned, NeverSilentlyApproved, Recorded, Key
<1>9. CASE UNCHANGED vars
  BY <1>9 DEF vars, handlers, redis, answers, Inv, RowsMatchCalls, OneRowPerKey,
              CacheIsRecorded, RepliesAreRecorded, EventsAreRecorded,
              HandlersAreRecorded, ApprovalsAreEarned, NeverSilentlyApproved, Recorded, Key
<1> QED
  BY <1>1, <1>2, <1>3, <1>4, <1>5, <1>6, <1>7, <1>8, <1>9, ScoreKeepsInv, InsertKeepsInv,
     PublishKeepsInv, UpdateKeepsInv DEF Next, Handle

LEMMA Invariance == Spec => [](TypeOK /\ Inv)
  BY TypeInit, TypeNext, InvInit, InvNext, PTL DEF Spec

(* OneAnswerPerKey: two accepted calls with the same key are told the same *)
(* transaction, whichever faults occur and however the handlers of all     *)
(* replicas interleave.                                                    *)
THEOREM OneAnswerPerKey == Spec => []RetriesAgree
<1>1. TypeOK /\ Inv => RetriesAgree
  <2> SUFFICES ASSUME TypeOK, Inv, NEW m \in replies, NEW n \in replies,
                      Key(m.call) = Key(n.call)
               PROVE  m.response.id = n.response.id
    BY DEF RetriesAgree
  <2>1. Recorded(m.response.id, Key(m.call)) /\ Recorded(n.response.id, Key(m.call))
    BY DEF Inv, RepliesAreRecorded
  <2> QED
    BY <2>1 DEF Recorded, Inv, OneRowPerKey
<1> QED
  BY <1>1, Invariance, PTL

(* AnswersAreDurable: no caller is told of a transaction that Postgres has *)
(* not committed under the caller's key.                                   *)
THEOREM AnswersAreDurable == Spec => []ReplyIsDurable
<1>1. Inv => ReplyIsDurable
  BY DEF Inv, RepliesAreRecorded, ReplyIsDurable, Recorded
<1> QED
  BY <1>1, Invariance, PTL

(* OneEventStream: the pipeline never receives the events of two           *)
(* transactions with the same key, nor of one that was not committed.      *)
THEOREM OneEventStream == Spec => []OneStreamPerKey
<1>1. TypeOK /\ Inv => OneStreamPerKey
  BY DEF TypeOK, Inv, EventsAreRecorded, OneStreamPerKey, Recorded, OneRowPerKey
<1> QED
  BY <1>1, Invariance, PTL

(* ApprovalIsEarned: whatever fails, no transaction is in an approved      *)
(* status unless the engine's verdict or a status update approved it.      *)
THEOREM ApprovalIsEarned == Spec => []NeverSilentlyApproved
  BY Invariance, PTL DEF Inv

-----------------------------------------------------------------------------
(* With Redis answering and handlers shorter than the lock, a handler that *)
(* processes a key keeps the key locked.                                   *)
ProcessorsHoldLock ==
  \A c \in Calls : pc[c] \in Processing => Key(c) \in locks

LEMMA LockStep ==
  ASSUME Faults \cap {"redis", "slow"} = {},
         TypeOK, ProcessorsHoldLock, OneProcessorPerKey, [Next]_vars
  PROVE  ProcessorsHoldLock' /\ OneProcessorPerKey'
<1> USE DEF Processing, Awaits
<1>1. ASSUME NEW c \in Calls, Handle(c) \/ Cancel(c), ~AcquireLock(c)
      PROVE  ProcessorsHoldLock' /\ OneProcessorPerKey'
  <2>1. /\ \A d \in Calls : d # c => pc'[d] = pc[d]
        /\ pc'[c] \in Processing => pc[c] \in Processing
        /\ UNCHANGED <<args, locks>>
    BY <1>1 DEF Handle, Cancel, CheckCache, RecheckCache, LookUp, ScoreRisk, InsertRow,
                FindWinner, PublishEvent, StoreAndReply, Proceed, Reply, Refuse, Goto,
                redis, TypeOK
  <2> QED
    BY <2>1 DEF ProcessorsHoldLock, OneProcessorPerKey, Key
<1>2. ASSUME NEW c \in Calls, AcquireLock(c)
      PROVE  ProcessorsHoldLock' /\ OneProcessorPerKey'
  <2>1. /\ \A d \in Calls : d # c => pc'[d] = pc[d]
        /\ pc'[c] \in {"recheck", "refused"}
        /\ pc'[c] = "recheck" => Key(c) \notin locks /\ Key(c) \in locks'
        /\ locks \subseteq locks'
        /\ UNCHANGED args
    BY <1>2 DEF AcquireLock, Proceed, Refuse, Goto, TypeOK
  <2> QED
    BY <2>1 DEF ProcessorsHoldLock, OneProcessorPerKey, Key
<1>3. ASSUME NEW k \in Keys, ExpireLock(k)
      PROVE  ProcessorsHoldLock' /\ OneProcessorPerKey'
  <2>1. /\ locks' = locks \ {k} /\ UNCHANGED <<args, pc>>
        /\ \A c \in Calls : Key(c) = k => pc[c] \notin Processing
    BY <1>3 DEF ExpireLock, Running, handlers
  <2> QED
    BY <2>1 DEF ProcessorsHoldLock, OneProcessorPerKey, Key
<1>4. ASSUME UNCHANGED <<args, pc, locks>>
      PROVE  ProcessorsHoldLock' /\ OneProcessorPerKey'
  BY <1>4 DEF ProcessorsHoldLock, OneProcessorPerKey, Key
<1>5. ASSUME NEW r \in ledger, NEW new \in StatusRequests, UpdateStatus(r, new)
      PROVE  UNCHANGED <<args, pc, locks>>
  BY <1>5 DEF UpdateStatus, handlers, redis
<1>6. ASSUME NEW k \in Keys, ExpireCache(k) PROVE UNCHANGED <<args, pc, locks>>
  BY <1>6 DEF ExpireCache, handlers
<1>7. ASSUME UNCHANGED vars PROVE UNCHANGED <<args, pc, locks>>
  BY <1>7 DEF vars, handlers, redis
<1> QED
  BY <1>1, <1>2, <1>3, <1>4, <1>5, <1>6, <1>7 DEF Next

(* LockExcludes: as long as no Redis command fails and no handler outlives *)
(* the 60 s lock, no two handlers of any replica process one key at once,  *)
(* even when handlers are abandoned and databases and queues fail.         *)
THEOREM LockExcludes ==
  ASSUME Faults \cap {"redis", "slow"} = {}
  PROVE  Spec => []OneProcessorPerKey
<1>1. Init => ProcessorsHoldLock /\ OneProcessorPerKey
  BY DEF Init, ProcessorsHoldLock, OneProcessorPerKey, Processing, Awaits
<1>2. TypeOK /\ ProcessorsHoldLock /\ OneProcessorPerKey /\ [Next]_vars
        => ProcessorsHoldLock' /\ OneProcessorPerKey'
  BY LockStep
<1> QED
  BY <1>1, <1>2, TypeInvariant, PTL DEF Spec

-----------------------------------------------------------------------------
(* In the same circumstances a handler past the lock is the only one that  *)
(* can store an answer or a row for its key: the cache it looks at again   *)
(* and the table it loses an INSERT to hold nothing it may be told of.     *)

(* Transaction i is in the ledger with terms t. *)
HasTerms(i, t) == \E r \in ledger : r.id = i /\ r.terms = t

(* A handler that got the lock, or still can, has no entry to find, and    *)
(* from its lookup to its INSERT no row.                                   *)
NothingToFind ==
  \A c \in Calls :
    /\ pc[c] \in Processing \/ (pc[c] = "lock" /\ Key(c) \notin locks) => Cached(c) = {}
    /\ pc[c] \in {"score", "insert", "refind"} => Found(c) = {}

(* What an entry, a handler or a reply names has the terms of its request. *)
TermsMatch ==
  /\ \A e \in cache : HasTerms(e.response.id, e.terms)
  /\ \A c \in Calls : pc[c] \in {"publish", "store"} => HasTerms(result[c].id, args[c].terms)
  /\ MismatchRejected

LEMMA NothingToFindStep ==
  ASSUME Faults \cap {"redis", "slow"} = {},
         TypeOK, ProcessorsHoldLock, OneProcessorPerKey, NothingToFind, [Next]_vars
  PROVE  NothingToFind'
<1> USE DEF Processing, Awaits
<1>1. ASSUME NEW c \in Calls, UNCHANGED <<args, locks, cache, ledger>>,
             Handle(c) \/ Cancel(c)
      PROVE  NothingToFind'
  <2>1. /\ \A d \in Calls : d # c => pc'[d] = pc[d]
        /\ pc'[c] \in Processing => pc[c] \in Processing \/ (pc[c] = "lock" /\ Key(c) \notin locks)
        /\ pc'[c] = "lock" => Cached(c) = {}
        /\ pc'[c] \in {"score", "insert", "refind"}
             => pc[c] \in {"score", "insert", "refind"} \/ Found(c) = {}
    BY <1>1 DEF Handle, Cancel, CheckCache, AcquireLock, RecheckCache, LookUp, ScoreRisk,
                InsertRow, FindWinner, PublishEvent, StoreAndReply, Proceed, Reply, Refuse,
                Goto, TypeOK
  <2>2. \A d \in Calls : Cached(d)' = Cached(d) /\ Found(d)' = Found(d) /\ Key(d)' = Key(d)
    BY <1>1 DEF Cached, Found, Key
  <2> QED
    BY <1>1, <2>1, <2>2 DEF NothingToFind
<1>2. ASSUME NEW c \in Calls, AcquireLock(c) PROVE NothingToFind'
  <2>1. /\ \A d \in Calls : d # c => pc'[d] = pc[d]
        /\ pc[c] = "lock"
        /\ pc'[c] \in {"recheck", "refused"}
        /\ pc'[c] = "recheck" => Key(c) \notin locks
        /\ locks \subseteq locks'
        /\ UNCHANGED <<args, cache, ledger>>
    BY <1>2 DEF AcquireLock, Proceed, Refuse, Goto, TypeOK
  <2>2. \A d \in Calls : Cached(d)' = Cached(d) /\ Found(d)' = Found(d) /\ Key(d)' = Key(d)
    BY <2>1 DEF Cached, Found, Key
  <2> QED
    BY <2>1, <2>2 DEF NothingToFind
<1>3. ASSUME NEW c \in Calls, InsertRow(c) PROVE NothingToFind'
  <2>1. /\ \A d \in Calls : d # c => pc'[d] = pc[d]
        /\ pc[c] = "insert"
        /\ pc'[c] \in {"publish", "refind", "refused"}
        /\ ledger' = ledger \/ (ledger' = ledger \cup {NewRow(c)} /\ pc'[c] # "refind")
        /\ UNCHANGED <<args, locks, cache>>
    BY <1>3 DEF InsertRow, Proceed, Refuse, Goto, redis, TypeOK
  <2>2. \A d \in Calls : Cached(d)' = Cached(d) /\ Key(d)' = Key(d)
    BY <2>1 DEF Cached, Key
  <2>3. ASSUME NEW d \in Calls, d # c, pc[d] \in Processing
        PROVE  Found(d)' = Found(d)
    <3>1. Key(d) # Key(c)
      BY <2>1, <2>3 DEF OneProcessorPerKey
    <3> QED
      BY <2>1, <3>1, NewRowType DEF Found, Key
  <2>4. pc'[c] = "refind" => Found(c)' = Found(c)
    BY <2>1 DEF Found, Key
  <2> QED
    BY <2>1, <2>2, <2>3, <2>4 DEF NothingToFind
<1>4. ASSUME NEW c \in Calls, StoreAndReply(c) PROVE NothingToFind'
  <2>1. /\ \A d \in Calls : d # c => pc'[d] = pc[d]
        /\ pc[c] = "store"
        /\ pc'[c] = "answered"
        /\ \A e \in cache' : e \in cache \/ e.key = Key(c)
        /\ UNCHANGED <<args, locks, ledger>>
    BY <1>4 DEF StoreAndReply, Reply, Goto, TypeOK
  <2>2. \A d \in Calls : Found(d)' = Found(d) /\ Key(d)' = Key(d)
    BY <2>1 DEF Found, Key
  <2>3. ASSUME NEW d \in Calls, d # c, pc[d] \in Processing \/ (pc[d] = "lock" /\ Key(d) \notin locks)
        PROVE  Cached(d)' = {}
    <3>1. Key(d) # Key(c)
      BY <2>1, <2>3 DEF OneProcessorPerKey, ProcessorsHoldLock
    <3>2. Cached(d) = {}
      BY <2>3 DEF NothingToFind
    <3> QED
      BY <2>1, <3>1, <3>2 DEF Cached, Key
  <2> QED
    BY <2>1, <2>2, <2>3 DEF NothingToFind
<1>5. ASSUME NEW k \in Keys, ExpireLock(k) PROVE NothingToFind'
  <2>1. /\ locks' = locks \ {k} /\ UNCHANGED <<args, pc, cache, ledger>>
        /\ \A c \in Calls : Key(c) = k => pc[c] # "lock"
    BY <1>5 DEF ExpireLock, Running, handlers
  <2>2. \A d \in Calls : Cached(d)' = Cached(d) /\ Found(d)' = Found(d) /\ Key(d)' = Key(d)
    BY <2>1 DEF Cached, Found, Key
  <2> QED
    BY <2>1, <2>2 DEF NothingToFind
<1>6. ASSUME NEW k \in Keys, ExpireCache(k) PROVE NothingToFind'
  <2>1. cache' \subseteq cache /\ UNCHANGED <<args, pc, locks, ledger>>
    BY <1>6 DEF ExpireCache, handlers
  <2>2. \A d \in Calls : /\ Cached(d) = {} => Cached(d)' = {}
                         /\ Found(d)' = Found(d) /\ Key(d)' = Key(d)
    BY <2>1 DEF Cached, Found, Key
  <2> QED
    BY <2>1, <2>2 DEF NothingToFind
<1>7. ASSUME NEW r \in ledger, NEW new \in StatusRequests, UpdateStatus(r, new)
      PROVE  NothingToFind'
  <2> DEFINE updated == [r EXCEPT !.status = new]
  <2>1. updated.key = r.key /\ updated.client = r.client
    BY DEF TypeOK, Rows
  <2>2. ledger' = (ledger \ {r}) \cup {updated} /\ UNCHANGED <<args, pc, cache, locks>>
    BY <1>7 DEF UpdateStatus, handlers, redis
  <2> HIDE DEF updated
  <2>3. \A d \in Calls : /\ Cached(d)' = Cached(d) /\ Key(d)' = Key(d)
                         /\ Found(d) = {} => Found(d)' = {}
    BY <2>1, <2>2 DEF Cached, Found, Key
  <2> QED
    BY <2>2, <2>3 DEF NothingToFind
<1>8. CASE UNCHANGED vars
  BY <1>8 DEF vars, handlers, redis, NothingToFind, Cached, Found, Key
<1>9. ASSUME NEW c \in Calls, Handle(c) \/ Cancel(c),
             ~AcquireLock(c), ~InsertRow(c), ~StoreAndReply(c)
      PROVE  UNCHANGED <<args, locks, cache, ledger>>
  BY <1>9 DEF Handle, Cancel, CheckCache, RecheckCache, LookUp, ScoreRisk, FindWinner,
              PublishEvent, redis
<1> QED
  BY <1>1, <1>2, <1>3, <1>4, <1>5, <1>6, <1>7, <1>8, <1>9 DEF Next

LEMMA TermsAreKept ==
  ASSUME TypeOK, [Next]_vars
  PROVE  \A i, t : HasTerms(i, t) => HasTerms(i, t)'
<1>1. ASSUME NEW r \in ledger, NEW new \in StatusRequests, UpdateStatus(r, new)
      PROVE  \A i, t : HasTerms(i, t) => HasTerms(i, t)'
  <2> DEFINE updated == [r EXCEPT !.status = new]
  <2>1. updated.id = r.id /\ updated.terms = r.terms
    BY DEF TypeOK, Rows
  <2>2. ledger' = (ledger \ {r}) \cup {updated}
    BY <1>1 DEF UpdateStatus
  <2> HIDE DEF updated
  <2> QED
    BY <2>1, <2>2 DEF HasTerms
<1>2. ASSUME ledger \subseteq ledger' PROVE \A i, t : HasTerms(i, t) => HasTerms(i, t)'
  BY <1>2 DEF HasTerms
<1>3. ASSUME NEW c \in Calls, Handle(c) \/ Cancel(c) PROVE ledger \subseteq ledger'
  BY <1>3 DEF Handle, Cancel, CheckCache, AcquireLock, RecheckCache, LookUp, ScoreRisk,
              InsertRow, FindWinner, PublishEvent, StoreAndReply
<1>4. ASSUME NEW k \in Keys, ExpireLock(k) \/ ExpireCache(k) PROVE ledger \subseteq ledger'
  BY <1>4 DEF ExpireLock, ExpireCache
<1>5. CASE UNCHANGED vars
  BY <1>2, <1>5 DEF vars
<1> QED
  BY <1>1, <1>2, <1>3, <1>4, <1>5 DEF Next

LEMMA TermsMatchStep ==
  ASSUME Faults \cap {"redis", "slow"} = {}, TypeOK, Inv, NothingToFind, TermsMatch, [Next]_vars
  PROVE  TermsMatch'
<1>0. args' = args /\ \A i, t : HasTerms(i, t) => HasTerms(i, t)'
  BY NextKeepsRecords, TermsAreKept
<1>a. \A m \in replies : HasTerms(m.response.id, args[m.call].terms)
  BY DEF TermsMatch, MismatchRejected, HasTerms
<1>1. ASSUME NEW c \in Calls, UNCHANGED <<cache, replies>>,
             \A d \in Calls : d # c => pc'[d] = pc[d] /\ result'[d] = result[d],
             pc'[c] \in {"publish", "store"} => HasTerms(result[c].id, args[c].terms)'
      PROVE  TermsMatch'
  <2>1. \A e \in cache' : HasTerms(e.response.id, e.terms)'
    BY <1>0, <1>1 DEF TermsMatch
  <2>2. ASSUME NEW d \in Calls, pc'[d] \in {"publish", "store"}
        PROVE  HasTerms(result[d].id, args[d].terms)'
    BY <1>0, <1>1, <2>2 DEF TermsMatch
  <2>3. \A m \in replies' : HasTerms(m.response.id, args[m.call].terms)'
    BY <1>0, <1>1, <1>a
  <2> QED
    BY <2>1, <2>2, <2>3 DEF TermsMatch, MismatchRejected, HasTerms
<1>2. ASSUME NEW c \in Calls, NEW response, Reply(c, response), result' = result,
             HasTerms(response.id, args[c].terms),
             \A e \in cache' : e \in cache \/ (e.response = response /\ e.terms = args[c].terms)
      PROVE  TermsMatch'
  <2>1. /\ replies' = replies \cup {[call |-> c, response |-> response]}
        /\ \A d \in Calls : d # c => pc'[d] = pc[d]
        /\ pc'[c] = "answered"
    BY <1>2 DEF Reply, Goto, TypeOK
  <2>2. \A e \in cache' : HasTerms(e.response.id, e.terms)'
    BY <1>0, <1>2 DEF TermsMatch
  <2>3. ASSUME NEW d \in Calls, pc'[d] \in {"publish", "store"}
        PROVE  HasTerms(result[d].id, args[d].terms)'
    BY <1>0, <1>2, <2>1, <2>3 DEF TermsMatch
  <2>4. ASSUME NEW m \in replies' PROVE HasTerms(m.response.id, args[m.call].terms)'
    <3>1. CASE m \in replies
      BY <1>0, <1>a, <3>1
    <3>2. CASE m = [call |-> c, response |-> response]
      BY <1>0, <1>2, <3>2
    <3> QED
      BY <2>1, <3>1, <3>2
  <2> QED
    BY <2>2, <2>3, <2>4 DEF TermsMatch, MismatchRejected, HasTerms
<1>3. ASSUME NEW c \in Calls, CheckCache(c) PROVE TermsMatch'
  <2>1. result' = result /\ cache' = cache
    BY <1>3 DEF CheckCache, redis
  <2>2. ASSUME NEW e \in Cached(c), e.terms = args[c].terms, Reply(c, Replay(e.response))
        PROVE  TermsMatch'
    <3>1. HasTerms(Replay(e.response).id, args[c].terms)
      BY <2>2, CachedResults DEF TermsMatch
    <3> QED
      BY <1>2, <2>1, <2>2, <3>1
  <2>3. ASSUME Refuse(c, "ALREADY_EXISTS") \/ Proceed(c, "lock") PROVE TermsMatch'
    BY <1>1, <2>1, <2>3 DEF Refuse, Proceed, Goto, answers, TypeOK
  <2> QED
    BY <1>3, <2>2, <2>3 DEF CheckCache
<1>4. ASSUME NEW c \in Calls, RecheckCache(c) PROVE TermsMatch'
  <2>1. Cached(c) = {}
    BY <1>4 DEF RecheckCache, NothingToFind, Processing, Awaits
  <2>2. Proceed(c, "lookup") /\ result' = result /\ cache' = cache
    BY <1>4, <2>1 DEF RecheckCache, redis
  <2> QED
    BY <1>1, <2>2 DEF Proceed, Goto, answers, TypeOK
<1>5. ASSUME NEW c \in Calls, LookUp(c) PROVE TermsMatch'
  <2>1. ASSUME NEW r \in Found(c), r.terms = args[c].terms,
               result' = [result EXCEPT ![c] = FromRow(r)], Proceed(c, "store")
        PROVE  TermsMatch'
    <3>1. result'[c].id = r.id /\ r \in ledger /\ ledger' = ledger
      BY <1>5, <2>1, FoundResults DEF LookUp, TypeOK
    <3>2. HasTerms(result[c].id, args[c].terms)'
      BY <1>0, <2>1, <3>1 DEF HasTerms
    <3> QED
      BY <1>1, <1>5, <2>1, <3>2 DEF LookUp, Proceed, Goto, answers, redis, TypeOK
  <2>2. ASSUME result' = result,
               Refuse(c, "ALREADY_EXISTS") \/ Proceed(c, "score") \/ Refuse(c, "INTERNAL")
        PROVE  TermsMatch'
    BY <1>1, <1>5, <2>2 DEF LookUp, Refuse, Proceed, Goto, answers, redis, TypeOK
  <2> QED
    BY <1>5, <2>1, <2>2 DEF LookUp
<1>6. ASSUME NEW c \in Calls, InsertRow(c) PROVE TermsMatch'
  <2>1. /\ UNCHANGED <<cache, replies, result>>
        /\ \A d \in Calls : d # c => pc'[d] = pc[d]
        /\ pc[c] = "insert"
        /\ pc'[c] \in {"publish", "refind", "refused"}
        /\ pc'[c] = "publish" => NewRow(c) \in ledger'
    BY <1>6 DEF InsertRow, Proceed, Refuse, Goto, answers, redis, TypeOK
  <2>2. result[c].id = c /\ NewRow(c).id = c /\ NewRow(c).terms = args[c].terms
    BY <2>1 DEF Inv, HandlersAreRecorded, NewRow
  <2>3. pc'[c] = "publish" => HasTerms(result[c].id, args[c].terms)'
    BY <1>0, <2>1, <2>2 DEF HasTerms
  <2> QED
    BY <1>1, <2>1, <2>3
<1>7. ASSUME NEW c \in Calls, FindWinner(c) PROVE TermsMatch'
  <2>1. Found(c) = {}
    BY <1>7 DEF FindWinner, NothingToFind
  <2>2. Refuse(c, "INTERNAL") /\ result' = result /\ cache' = cache
    BY <1>7, <2>1 DEF FindWinner, redis
  <2> QED
    BY <1>1, <2>2 DEF Refuse, Goto, TypeOK
<1>8. ASSUME NEW c \in Calls, AcquireLock(c) \/ ScoreRisk(c) \/ Cancel(c) PROVE TermsMatch'
  <2>1. /\ UNCHANGED <<cache, replies>>
        /\ \A d \in Calls : d # c => pc'[d] = pc[d] /\ result'[d] = result[d]
        /\ pc'[c] \notin {"publish", "store"}
    BY <1>8 DEF AcquireLock, ScoreRisk, Cancel, Proceed, Refuse, Goto, answers, redis, TypeOK
  <2> QED
    BY <1>1, <2>1
<1>9. ASSUME NEW c \in Calls, PublishEvent(c) PROVE TermsMatch'
  <2>1. /\ UNCHANGED <<cache, replies, result>>
        /\ \A d \in Calls : d # c => pc'[d] = pc[d]
        /\ pc[c] = "publish"
    BY <1>9 DEF PublishEvent, Goto, answers, redis, TypeOK
  <2>2. HasTerms(result[c].id, args[c].terms)'
    <3>1. HasTerms(result[c].id, args[c].terms)
      BY <2>1 DEF TermsMatch
    <3> QED
      BY <1>0, <2>1, <3>1
  <2> QED
    BY <1>1, <2>1, <2>2
<1>10. ASSUME NEW c \in Calls, StoreAndReply(c) PROVE TermsMatch'
  <2>1. HasTerms(result[c].id, args[c].terms)
    BY <1>10 DEF StoreAndReply, TermsMatch
  <2>2. /\ Reply(c, result[c]) /\ result' = result
        /\ \A e \in cache' : e \in cache \/ (e.response = result[c] /\ e.terms = args[c].terms)
    BY <1>10 DEF StoreAndReply
  <2> QED
    BY <1>2, <2>1, <2>2
<1>11. ASSUME UNCHANGED <<pc, result, replies>>, cache' \subseteq cache PROVE TermsMatch'
  <2>1. \A m \in replies' : HasTerms(m.response.id, args[m.call].terms)'
    BY <1>0, <1>11, <1>a
  <2>2. \A e \in cache' : HasTerms(e.response.id, e.terms)'
    BY <1>0, <1>11 DEF TermsMatch
  <2>3. \A c \in Calls :
           pc'[c] \in {"publish", "store"} => HasTerms(result[c].id, args[c].terms)'
    BY <1>0, <1>11 DEF TermsMatch
  <2> QED
    BY <2>1, <2>2, <2>3 DEF TermsMatch, MismatchRejected, HasTerms
<1>12. ASSUME NEW k \in Keys, ExpireLock(k) \/ ExpireCache(k)
       PROVE  UNCHANGED <<pc, result, replies>> /\ cache' \subseteq cache
  BY <1>12 DEF ExpireLock, ExpireCache, handlers, answers
<1>13. ASSUME NEW r \in ledger, NEW new \in StatusRequests, UpdateStatus(r, new)
       PROVE  UNCHANGED <<pc, result, replies, cache>>
  BY <1>13 DEF UpdateStatus, handlers, answers, redis
<1>14. CASE UNCHANGED vars
  BY <1>11, <1>14 DEF vars, handlers, answers, redis
<1> QED
  BY <1>3, <1>4, <1>5, <1>6, <1>7, <1>8, <1>9, <1>10, <1>11, <1>12, <1>13, <1>14
     DEF Next, Handle

(* TermsAreHonoured: as long as no Redis command fails and no handler      *)
(* outlives the lock, nobody is told of a transaction with other terms     *)
(* than the request's, though only two of four lookups compare them.       *)
THEOREM TermsAreHonoured ==
  ASSUME Faults \cap {"redis", "slow"} = {}
  PROVE  Spec => []MismatchRejected
<1>1. Init => /\ ProcessorsHoldLock /\ OneProcessorPerKey
              /\ NothingToFind /\ TermsMatch
  BY DEF Init, ProcessorsHoldLock, OneProcessorPerKey, NothingToFind, TermsMatch,
         MismatchRejected, Processing, Awaits, Cached
<1>2. /\ TypeOK /\ Inv /\ ProcessorsHoldLock /\ OneProcessorPerKey
      /\ NothingToFind /\ TermsMatch /\ [Next]_vars
      => (ProcessorsHoldLock /\ OneProcessorPerKey /\ NothingToFind /\ TermsMatch)'
  BY LockStep, NothingToFindStep, TermsMatchStep
<1>3. TermsMatch => MismatchRejected
  BY DEF TermsMatch
<1> QED
  BY <1>1, <1>2, <1>3, Invariance, PTL DEF Spec

-----------------------------------------------------------------------------
(* The refinement: the ledger's variables as functions of the state. *)
Book == [k \in Keys |-> {r.id : r \in {s \in ledger : s.key = k}}]
Told == [c \in Calls |-> {m.response.id : m \in {n \in replies : n.call = c}}]
Announced == {c \in Calls : published[c] > 0}

LEMMA RecordedInBook ==
  ASSUME TypeOK, NEW i, NEW k \in Keys, Recorded(i, k)
  PROVE  i \in Book[k]
  BY DEF Recorded, Book

LEMMA ReplyTells ==
  ASSUME TypeOK, Inv, NEW c \in Calls, NEW k \in Keys, NEW response,
         Reply(c, response), pc[c] # "answered", k = Key(c), Recorded(response.id, k),
         UNCHANGED <<ledger, published>>
  PROVE  Ledger!Tell(c, k)
<1>1. Told[c] = {}
  BY DEF Told, Inv, RepliesAreRecorded
<1>2. Told' = [Told EXCEPT ![c] = {response.id}]
  <2>1. replies' = replies \cup {[call |-> c, response |-> response]}
    BY DEF Reply
  <2>2. ASSUME NEW d \in Calls, d # c PROVE Told'[d] = Told[d]
    BY <2>1, <2>2 DEF Told
  <2>3. {n \in replies' : n.call = c} = {[call |-> c, response |-> response]}
    BY <2>1 DEF Inv, RepliesAreRecorded
  <2>4. Told'[c] = {response.id}
    <3>1. Told'[c] = {m.response.id : m \in {[call |-> c, response |-> response]}}
      BY <2>3 DEF Told
    <3> QED
      BY <3>1
  <2>5. Told' = [d \in Calls |-> Told'[d]] /\ Told = [d \in Calls |-> Told[d]]
    BY DEF Told
  <2> QED
    BY <2>2, <2>4, <2>5
<1>3. response.id \in Book[k]
  BY RecordedInBook
<1>4. UNCHANGED <<Book, Announced>>
  BY DEF Book, Announced
<1> QED
  BY <1>1, <1>2, <1>3, <1>4 DEF Ledger!Tell, Book, Told, Announced

LEMMA InsertRecords ==
  ASSUME TypeOK, NEW c \in Calls, NEW k \in Keys, k = Key(c), KeyIsFree(k),
         ledger' = ledger \cup {NewRow(c)}, UNCHANGED <<replies, published>>
  PROVE  Ledger!Record(k, c)
<1>1. NewRow(c).key = k /\ NewRow(c).id = c
  BY NewRowType
<1>2. Book[k] = {}
  BY DEF Book, KeyIsFree
<1>3. Book' = [Book EXCEPT ![k] = {c}]
  <2>1. ASSUME NEW j \in Keys, j # k PROVE Book'[j] = Book[j]
    BY <1>1, <2>1 DEF Book
  <2>2. Book'[k] = {c}
    BY <1>1 DEF Book, KeyIsFree
  <2>3. Book' = [j \in Keys |-> Book'[j]] /\ Book = [j \in Keys |-> Book[j]]
    BY DEF Book
  <2> QED
    BY <2>1, <2>2, <2>3
<1>4. UNCHANGED <<Told, Announced>>
  BY DEF Told, Announced
<1> QED
  BY <1>2, <1>3, <1>4 DEF Ledger!Record, Book, Told, Announced

LEMMA PublishAnnounces ==
  ASSUME TypeOK, Inv, NEW c \in Calls, NEW k \in Keys, k = Key(c), PublishEvent(c)
  PROVE  Ledger!Announce(k) \/ UNCHANGED Ledger!vars
<1>1. UNCHANGED <<Book, Told>>
  BY DEF PublishEvent, answers, Book, Told
<1>2. c \in Book[k]
  BY RecordedInBook DEF PublishEvent, Inv, HandlersAreRecorded
<1>3. Announced' = Announced \cup {c} \/ Announced' = Announced
  <2>1. \/ published' = published
        \/ published' = [published EXCEPT ![c] = published[c] + 1]
    BY DEF PublishEvent
  <2> QED
    BY <2>1 DEF Announced, TypeOK
<1> QED
  BY <1>1, <1>2, <1>3 DEF Ledger!Announce, Ledger!vars, Book, Told, Announced

LEMMA UpdateStutters ==
  ASSUME TypeOK, NEW r \in ledger, NEW new \in StatusRequests, UpdateStatus(r, new)
  PROVE  UNCHANGED Ledger!vars
<1> DEFINE updated == [r EXCEPT !.status = new]
<1>1. updated.id = r.id /\ updated.key = r.key
  BY DEF TypeOK, Rows
<1>2. ledger' = (ledger \ {r}) \cup {updated} /\ UNCHANGED <<replies, published>>
  BY DEF UpdateStatus, answers
<1> HIDE DEF updated
<1>3. Book' = Book
  <2>1. ASSUME NEW k \in Keys
        PROVE  {s.id : s \in {t \in ledger' : t.key = k}}
                 = {s.id : s \in {t \in ledger : t.key = k}}
    BY <1>1, <1>2
  <2> QED
    BY <2>1 DEF Book
<1> QED
  BY <1>2, <1>3 DEF Ledger!vars, Book, Told, Announced

LEMMA StepRefines ==
  ASSUME TypeOK, Inv, [Next]_vars
  PROVE  [Ledger!Next]_(Ledger!vars)
<1>1. ASSUME UNCHANGED <<ledger, replies, published>> PROVE UNCHANGED Ledger!vars
  BY <1>1 DEF Ledger!vars
<1>2. ASSUME NEW c \in Calls, CheckCache(c) \/ RecheckCache(c)
      PROVE  [Ledger!Next]_(Ledger!vars)
  <2> PICK k \in Keys : k = Key(c)
    BY NewRowType
  <2>1. ASSUME NEW e \in Cached(c), Reply(c, Replay(e.response))
        PROVE  Ledger!Tell(c, k)
    BY <1>2, <2>1, CachedResults, ReplyTells
       DEF CheckCache, RecheckCache, Inv, CacheIsRecorded
  <2>2. ASSUME Refuse(c, "ALREADY_EXISTS") \/ Proceed(c, "lock") \/ Proceed(c, "lookup")
        PROVE  UNCHANGED Ledger!vars
    BY <1>1, <1>2, <2>2 DEF CheckCache, RecheckCache, Refuse, Proceed, answers
  <2> QED
    BY <1>2, <2>1, <2>2 DEF CheckCache, RecheckCache, Ledger!Next
<1>3. ASSUME NEW c \in Calls, StoreAndReply(c) PROVE [Ledger!Next]_(Ledger!vars)
  <2> PICK k \in Keys : k = Key(c)
    BY NewRowType
  <2>1. Ledger!Tell(c, k)
    BY <1>3, ReplyTells DEF StoreAndReply, Inv, HandlersAreRecorded
  <2> QED
    BY <2>1 DEF Ledger!Next
<1>4. ASSUME NEW c \in Calls, InsertRow(c) PROVE [Ledger!Next]_(Ledger!vars)
  <2>1. CASE UNCHANGED ledger
    BY <1>1, <1>4, <2>1 DEF InsertRow, Refuse, Proceed, answers
  <2>2. CASE KeyIsFree(Key(c)) /\ ledger' = ledger \cup {NewRow(c)}
    <3> PICK k \in Keys : k = Key(c)
      BY NewRowType
    <3>1. Ledger!Record(k, c)
      BY <1>4, <2>2, InsertRecords DEF InsertRow, Refuse, Proceed, answers
    <3> QED
      BY <3>1 DEF Ledger!Next
  <2> QED
    BY <1>4, <2>1, <2>2 DEF InsertRow
<1>5. ASSUME NEW c \in Calls, PublishEvent(c) PROVE [Ledger!Next]_(Ledger!vars)
  <2> PICK k \in Keys : k = Key(c)
    BY NewRowType
  <2>1. Ledger!Announce(k) \/ UNCHANGED Ledger!vars
    BY <1>5, PublishAnnounces
  <2> QED
    BY <2>1 DEF Ledger!Next
<1>6. ASSUME NEW c \in Calls,
             \/ AcquireLock(c) \/ LookUp(c) \/ ScoreRisk(c) \/ FindWinner(c) \/ Cancel(c)
      PROVE  UNCHANGED Ledger!vars
  BY <1>1, <1>6 DEF AcquireLock, LookUp, ScoreRisk, FindWinner, Cancel, Refuse, Proceed,
                    answers
<1>7. ASSUME NEW k \in Keys, ExpireLock(k) \/ ExpireCache(k) PROVE UNCHANGED Ledger!vars
  BY <1>1, <1>7 DEF ExpireLock, ExpireCache, answers
<1>8. CASE UNCHANGED vars
  BY <1>1, <1>8 DEF vars, answers
<1> QED
  BY <1>2, <1>3, <1>4, <1>5, <1>6, <1>7, <1>8, UpdateStutters DEF Next, Handle

(* ServiceImplementsLedger: under every fault, the service behaves as the  *)
(* write-once ledger: a key gets one transaction, for good, every accepted *)
(* call is told that one, and only that one is announced.                  *)
THEOREM ServiceImplementsLedger == Spec => ImplementsLedger
<1>1. Init => Ledger!Init
  <2> SUFFICES ASSUME Init PROVE Ledger!Init
    OBVIOUS
  <2>1. ledger = {} /\ replies = {} /\ \A c \in Calls : published[c] = 0
    BY DEF Init
  <2> QED
    BY <2>1 DEF Ledger!Init
<1> QED
  BY <1>1, StepRefines, Invariance, PTL DEF Spec, ImplementsLedger, Ledger!Spec
=============================================================================

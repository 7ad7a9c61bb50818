-------------------------- MODULE AccountActivity --------------------------
(***************************************************************************)
(* What the risk engine remembers of one sender, in two places.  The row   *)
(* of account_profiles is brought up to date by the worker, some time      *)
(* after a transaction was answered.  Redis bridges that time: the devices *)
(* and the receivers of the last five minutes, and a counter of the last   *)
(* hour's transactions.  An evaluation loads the row, through its cache,   *)
(* and sends its commands to Redis at once; what it learns is what the     *)
(* rules see.  The keys' TTLs are set by tasks that nobody waits for.      *)
(*                                                                         *)
(* Time is counted in ticks, amounts in cents.  What goes as its           *)
(* neighbour is left out: the countries go as the receivers without a key, *)
(* the windows' volumes as their counts, the 30 day window as the others   *)
(* (it is never started over), unique_*_count as the arrays' sizes,        *)
(* version as total + 1.  The decision counters and the failed:1h key,     *)
(* which a fourth command reads, are RiskWorker's.                         *)
(***************************************************************************)
EXTENDS Integers, FiniteSets

CONSTANTS
  Evaluations,   \* the sender's transactions, each evaluated once
  Names,         \* what the requests name: "device", "receiver" or both
  Txn,           \* evaluation -> the device, receiver and amount of its request
  NoDevice,      \* the device of a request that names none
  Hour, Day, Burst, \* 3600 s, 24 h and 300 s, in ticks
  MaxTime,       \* the clock stops here
  Faults         \* what may go wrong in this instance, a subset of FaultKinds

FaultKinds ==
  {"redis",      \* a command raises, before or after it took effect
   "db",         \* a session raises
   "cancel"}     \* the caller's deadline ends: the handler is cancelled

Values == {Txn[e][n] : e \in Evaluations, n \in Names}

ASSUME ActivityAssumption ==
  /\ IsFiniteSet(Evaluations)
  /\ Names \subseteq {"device", "receiver"}
  /\ \A e \in Evaluations : Txn[e].amount \in Nat
  /\ Hour \in Nat \ {0} /\ Day \in Nat \ {0} /\ Burst \in Nat \ {0}
  /\ MaxTime \in Nat
  /\ Faults \subseteq FaultKinds

Keys == Names \cup {"velocity"}

Ttl == [k \in Keys |-> IF k = "velocity" THEN Hour ELSE Burst]

Times   == 0 .. MaxTime
Never   == -1                       \* a time that has not come
Forever == MaxTime + Hour + Burst   \* the deadline of a key without a TTL

VARIABLES
  now,
  row,           \* Postgres: the sender's row of account_profiles
  cache,         \* Redis: profile:{sender}, at most one copy of the row
  key,           \* Redis: key -> the evaluations whose SADD or INCR it
                 \* holds, and when it expires
  pc,            \* evaluation -> the await it is at
  seen,          \* evaluation -> the profile it loaded
  flight,        \* evaluation -> its commands on their way to Redis
  answer,        \* evaluation -> command -> what Redis answered
  broken,        \* the evaluations one of whose commands raised
  judged,        \* evaluation -> what the rules are told of it
  tasks,         \* the background tasks <<evaluation, what>> yet to run
  at,            \* history: evaluation -> key -> when its command took effect
  kept,          \* history: the <<evaluation, key>> whose EXPIRE came before
                 \* the key expired
  counted        \* history: evaluation -> when the worker counted it

redis   == <<cache, key>>
history == <<at, kept, counted>>
vars    == <<now, row, redis, pc, seen, flight, answer, broken, judged, tasks, history>>

Profiles ==
  [exists : BOOLEAN, total : Nat, volume : Nat, average : Nat,
   count1h : Nat, reset1h : Times \cup {Never},
   count24h : Nat, reset24h : Times \cup {Never},
   lastSeen : Times \cup {Never},
   known : [Names -> SUBSET Values]]

(* What an evaluation uses of a profile, of the row or of its cached copy. *)
Copies == [known : [Names -> SUBSET Values], count1h : Nat]

Copy(profile) == [known |-> profile.known, count1h |-> profile.count1h]

Nothing == [n \in Names |-> {}]

Unread == [known |-> Nothing, count1h |-> 0]

Blank(exists) ==
  [exists |-> exists, total |-> 0, volume |-> 0, average |-> 0,
   count1h |-> 0, reset1h |-> Never, count24h |-> 0, reset24h |-> Never,
   lastSeen |-> Never, known |-> Nothing]

Verdicts == [new : SUBSET Names, recent : Nat]

Steps == {"create", "gather"}

TypeOK ==
  /\ now \in Times
  /\ row \in Profiles
  /\ cache \in SUBSET Copies
  /\ key \in [Keys -> [members : SUBSET Evaluations, expires : Nat]]
  /\ pc \in [Evaluations -> Steps \cup {"idle", "done", "failed", "abandoned"}]
  /\ seen \in [Evaluations -> Copies]
  /\ flight \in [Evaluations -> SUBSET Keys]
  /\ answer \in [Evaluations -> [Keys -> Nat \cup {Never}]]
  /\ broken \in SUBSET Evaluations
  /\ judged \in [Evaluations -> Verdicts]
  /\ tasks \in SUBSET (Evaluations \X (Keys \cup {"cache"}))
  /\ at \in [Evaluations -> [Keys -> Times \cup {Never}]]
  /\ kept \in SUBSET (Evaluations \X Keys)
  /\ counted \in [Evaluations -> Times \cup {Never}]

Init ==
  /\ now = 0
  /\ row = Blank(FALSE)
  /\ cache = {}
  /\ key = [k \in Keys |-> [members |-> {}, expires |-> Forever]]
  /\ pc = [e \in Evaluations |-> "idle"]
  /\ seen = [e \in Evaluations |-> Unread]
  /\ flight = [e \in Evaluations |-> {}]
  /\ answer = [e \in Evaluations |-> [k \in Keys |-> Never]]
  /\ broken = {}
  /\ judged = [e \in Evaluations |-> [new |-> {}, recent |-> 0]]
  /\ tasks = {}
  /\ at = [e \in Evaluations |-> [k \in Keys |-> Never]]
  /\ kept = {}
  /\ counted = [e \in Evaluations |-> Never]

-----------------------------------------------------------------------------
(* EvaluateRisk.                                                           *)

Goto(e, step) == pc' = [pc EXCEPT ![e] = step]

(* is_new_device and is_new_receiver, whose value is never empty.          *)
New(profile, e, n) == Txn[e][n] # NoDevice /\ Txn[e][n] \notin profile.known[n]

(* What the gather sends: a SADD only for what the profile does not know.  *)
Sent(profile, e) == {"velocity"} \cup {n \in Names : New(profile, e, n)}

Loaded(e, profile) ==
  /\ seen' = [seen EXCEPT ![e] = profile]
  /\ flight' = [flight EXCEPT ![e] = Sent(profile, e)]
  /\ Goto(e, "gather")

(* _load_profile_cached: the cached copy, or the row and a task that will  *)
(* cache what was read.  A GET that raises counts as a miss.               *)
Load(e) ==
  /\ pc[e] = "idle"
  /\ \/ \E profile \in cache : Loaded(e, profile) /\ tasks' = tasks
     \/ /\ cache = {} \/ "redis" \in Faults
        /\ row.exists
        /\ Loaded(e, Copy(row))
        /\ tasks' = tasks \cup {<<e, "cache">>}
     \/ /\ cache = {} \/ "redis" \in Faults
        /\ ~row.exists
        /\ Goto(e, "create")
        /\ UNCHANGED <<seen, flight, tasks>>
     \/ /\ "db" \in Faults
        /\ Goto(e, "failed")
        /\ UNCHANGED <<seen, flight, tasks>>
  /\ UNCHANGED <<now, row, redis, answer, broken, judged, history>>

(* get_or_create inserts a blank row.  The account's other first request,  *)
(* or the worker, may have been faster: an IntegrityError, which the       *)
(* servicer answers with INTERNAL.                                         *)
Create(e) ==
  /\ pc[e] = "create"
  /\ \/ /\ ~row.exists
        /\ row' = Blank(TRUE)
        /\ Loaded(e, Unread)
        /\ tasks' = tasks \cup {<<e, "cache">>}
     \/ /\ row.exists \/ "db" \in Faults
        /\ Goto(e, "failed")
        /\ UNCHANGED <<row, seen, flight, tasks>>
  /\ UNCHANGED <<now, redis, answer, broken, judged, history>>

Value(e, k) == IF k = "velocity" THEN e ELSE Txn[e][k]

Holds(k, v) == \E f \in key[k].members : Value(f, k) = v

(* Redis runs one command at a time, in any order: SADD answers whether    *)
(* the value was new to the set, INCR the counter.  A key that a command   *)
(* creates has no TTL.                                                     *)
Execute(e, k) ==
  LET fresh == ~Holds(k, Value(e, k))
  IN  /\ k \in flight[e]
      /\ flight' = [flight EXCEPT ![e] = @ \ {k}]
      /\ key' = [key EXCEPT ![k].members = IF fresh THEN @ \cup {e} ELSE @]
      /\ answer' = [answer EXCEPT ![e][k] =
           IF k = "velocity" THEN Cardinality(key[k].members) + 1
           ELSE IF fresh THEN 1 ELSE 0]
      /\ at' = [at EXCEPT ![e][k] = now]
      /\ UNCHANGED <<now, row, cache, pc, seen, broken, judged, tasks, kept, counted>>

(* A command raises.  It stays in flight, for Redis may run it all the     *)
(* same, and so do the others, which the gather does not cancel.           *)
Break(e) ==
  /\ pc[e] = "gather" /\ e \notin broken
  /\ "redis" \in Faults
  /\ broken' = broken \cup {e}
  /\ UNCHANGED <<now, row, redis, pc, seen, flight, answer, judged, tasks, history>>

(* Mutant of Judge: a gather that raised is taken for one that answered 0. *)
JudgeBrokenAsKnown(e) ==
  /\ pc[e] = "gather"
  /\ e \in broken \/ flight[e] = {}
  /\ judged' = [judged EXCEPT ![e] =
       [new    |-> {n \in Names :
                      e \notin broken /\ New(seen[e], e, n) /\ answer[e][n] # 0},
        recent |-> IF e \in broken THEN seen[e].count1h ELSE answer[e]["velocity"]]]
  /\ tasks' = IF e \in broken THEN tasks ELSE tasks \cup ({e} \X Keys)
  /\ Goto(e, "done")
  /\ UNCHANGED <<now, row, redis, seen, flight, answer, broken, history>>

(* Mutant of Judge: the rules are told what the profile says of novelty.   *)
JudgeByProfile(e) ==
  /\ pc[e] = "gather"
  /\ e \in broken \/ flight[e] = {}
  /\ judged' = [judged EXCEPT ![e] =
       [new    |-> {n \in Names : New(seen[e], e, n)},
        recent |-> IF e \in broken THEN seen[e].count1h ELSE answer[e]["velocity"]]]
  /\ tasks' = IF e \in broken THEN tasks ELSE tasks \cup ({e} \X Keys)
  /\ Goto(e, "done")
  /\ UNCHANGED <<now, row, redis, seen, flight, answer, broken, history>>

(* The gather returns or raises.  What Redis has known for a burst is not  *)
(* new; if it raised, the profile alone is believed and no TTL refreshed.  *)
(* The rest of evaluate, the rules and the call to the ML service, changes *)
(* nothing here.                                                           *)
Judge(e) ==
  /\ pc[e] = "gather"
  /\ e \in broken \/ flight[e] = {}
  /\ judged' = [judged EXCEPT ![e] =
       [new    |-> {n \in Names :
                      New(seen[e], e, n) /\ (e \in broken \/ answer[e][n] # 0)},
        recent |-> IF e \in broken THEN seen[e].count1h ELSE answer[e]["velocity"]]]
  /\ tasks' = IF e \in broken THEN tasks ELSE tasks \cup ({e} \X Keys)
  /\ Goto(e, "done")
  /\ UNCHANGED <<now, row, redis, seen, flight, answer, broken, history>>

(* The caller's deadline ends first.  Commands already sent are not        *)
(* called back.                                                            *)
Cancel(e) ==
  /\ pc[e] \in Steps
  /\ "cancel" \in Faults
  /\ Goto(e, "abandoned")
  /\ UNCHANGED <<now, row, redis, seen, flight, answer, broken, judged, tasks, history>>

-----------------------------------------------------------------------------
(* The tasks, and Redis's own clock.                                       *)

(* What e put into k, or found there, is there since. *)
Survived(e, k) ==
  \E f \in key[k].members : Value(f, k) = Value(e, k) /\ at[f][k] <= at[e][k]

(* Mutant of Refresh: an EXPIREAT counted from the command, so that a late *)
(* task takes back what a later evaluation's set.                          *)
RefreshFromCommand(e, k) ==
  /\ <<e, k>> \in tasks
  /\ tasks' = tasks \ {<<e, k>>}
  /\ key' = [key EXCEPT ![k].expires =
       IF key[k].members = {} \/ at[e][k] = Never THEN @ ELSE at[e][k] + Ttl[k]]
  /\ kept' = IF Survived(e, k) THEN kept \cup {<<e, k>>} ELSE kept
  /\ UNCHANGED <<now, row, cache, pc, seen, flight, answer, broken, judged, at, counted>>

(* A task that raises, which nobody sees, or that dies with its process is *)
(* one that never runs.  EXPIRE does nothing to a key that is gone.        *)
Refresh(e, k) ==
  /\ <<e, k>> \in tasks
  /\ tasks' = tasks \ {<<e, k>>}
  /\ key' = [key EXCEPT ![k].expires =
       IF key[k].members = {} THEN @ ELSE now + Ttl[k]]
  /\ kept' = IF Survived(e, k) THEN kept \cup {<<e, k>>} ELSE kept
  /\ UNCHANGED <<now, row, cache, pc, seen, flight, answer, broken, judged, at, counted>>

(* SETEX stores what was read when the profile was loaded, however long    *)
(* ago that is.                                                            *)
FillCache(e) ==
  /\ <<e, "cache">> \in tasks
  /\ tasks' = tasks \ {<<e, "cache">>}
  /\ cache' = {seen[e]}
  /\ UNCHANGED <<now, row, key, pc, seen, flight, answer, broken, judged, history>>

(* The copy lives 30 s, less than a tick.                                  *)
CacheExpires ==
  /\ cache # {}
  /\ cache' = {}
  /\ UNCHANGED <<now, row, key, pc, seen, flight, answer, broken, judged, tasks, history>>

Tick ==
  /\ now < MaxTime
  /\ now' = now + 1
  /\ key' = [k \in Keys |-> IF key[k].expires <= now + 1
                            THEN [members |-> {}, expires |-> Forever] ELSE key[k]]
  /\ UNCHANGED <<row, cache, pc, seen, flight, answer, broken, judged, tasks, history>>

-----------------------------------------------------------------------------
(* upsert_after_transaction.                                               *)

(* Mutant of Nearest: divided by the transactions before this one.         *)
NearestOfEarlier(x, n) ==
  LET m == IF n = 1 THEN 1 ELSE n - 1
  IN  {q \in {x \div m, (x \div m) + 1} : 2 * (m * q - x) <= m /\ 2 * (x - m * q) <= m}

(* The mean that two decimals hold.  A tie may go either way: the sum is a *)
(* float before Postgres rounds it.                                        *)
Nearest(x, n) ==
  {q \in {x \div n, (x \div n) + 1} : 2 * (n * q - x) <= n /\ 2 * (x - n * q) <= n}

(* Mutant of Elapsed: nothing is ever dropped from a window.               *)
NeverElapsed(began, length) == began = Never

(* A window is started over when more than its length has passed since it  *)
(* began, not since the last transaction.                                  *)
Elapsed(began, length) == began = Never \/ now - began > length

(* What of a request reaches the worker: the event that the transaction    *)
(* service publishes has the receiver, and no device.                      *)
Carried == {"receiver"}

(* update_network_features, with what the event has.                       *)
Learned(known, e) ==
  [n \in Names |-> known[n] \cup (IF n \in Carried THEN {Txn[e][n]} ELSE {})]

Updated(p, e, average) ==
  LET n      == p.total + 1
      new1h  == Elapsed(p.reset1h, Hour)
      new24h == Elapsed(p.reset24h, Day)
  IN  [exists    |-> TRUE,
       total     |-> n,
       volume    |-> p.volume + Txn[e].amount,
       average   |-> average,
       count1h   |-> (IF new1h THEN 0 ELSE p.count1h) + 1,
       reset1h   |-> IF new1h THEN now ELSE p.reset1h,
       count24h  |-> (IF new24h THEN 0 ELSE p.count24h) + 1,
       reset24h  |-> IF new24h THEN now ELSE p.reset24h,
       lastSeen  |-> now,
       known     |-> Learned(p.known, e)]

(* The worker counts a transaction once it was answered, for the           *)
(* transaction service publishes even what the engine failed to score; it  *)
(* then invalidates the cached copy.  RiskWorker has its redeliveries.     *)
Update(e) ==
  /\ pc[e] \in {"done", "failed", "abandoned"} /\ counted[e] = Never
  /\ \E average \in Nearest(row.total * row.average + Txn[e].amount, row.total + 1) :
       row' = Updated(row, e, average)
  /\ counted' = [counted EXCEPT ![e] = now]
  /\ \/ cache' = {}
     \/ "redis" \in Faults /\ cache' = cache
  /\ UNCHANGED <<now, key, pc, seen, flight, answer, broken, judged, tasks, at, kept>>

Next ==
  \/ \E e \in Evaluations :
       \/ Load(e) \/ Create(e) \/ Break(e) \/ Judge(e) \/ Cancel(e)
       \/ FillCache(e) \/ Update(e)
       \/ \E k \in Keys : Execute(e, k) \/ Refresh(e, k)
  \/ CacheExpires
  \/ Tick

Spec == Init /\ [][Next]_vars

-----------------------------------------------------------------------------
(* What the account's memory promises.                                     *)

(* orchestrator.py:85-113: what an evaluation put into a key, or found     *)
(* there, and kept alive with its EXPIRE, stays there for the key's whole  *)
(* TTL, whatever the evaluations around it did to the key, and however     *)
(* late its task ran.                                                      *)
RefreshedIsRemembered ==
  \A e \in Evaluations, k \in Keys :
    <<e, k>> \in kept /\ at[e][k] # Never /\ now < at[e][k] + Ttl[k]
      => Holds(k, Value(e, k))

Judged(e) == pc[e] = "done"

(* The SADD of e found its name new, and the rules were told so.           *)
Flagged(e, n) ==
  /\ Judged(e) /\ e \notin broken
  /\ n \in judged[e].new /\ at[e][n] # Never

(* orchestrator.py:103-106: of two evaluations that name the same device,  *)
(* or receiver, and were both flagged for it, the second came a whole      *)
(* burst after the first, if the first's EXPIRE was not lost.  The first   *)
(* payments to somebody, sent at once, are flagged once.                   *)
FlaggedOncePerBurst ==
  \A e, f \in Evaluations, n \in Names :
    /\ <<e, n>> \in kept /\ e # f /\ Txn[e][n] = Txn[f][n]
    /\ Flagged(e, n) /\ Flagged(f, n) /\ at[f][n] >= at[e][n]
    => at[f][n] >= at[e][n] + Burst

(* A device or receiver passes as known only on the strength of another    *)
(* transaction: one the worker has counted and learned it from, one that   *)
(* flagged it or will, or one that was cancelled after its SADD.  No       *)
(* cached copy, late command or failed gather may launder a name that      *)
(* nobody flagged.                                                         *)
KnownWasSeen ==
  \A e \in Evaluations, n \in Names :
    Judged(e) /\ n \notin judged[e].new /\ Txn[e][n] # NoDevice =>
      \E f \in Evaluations \ {e} :
        /\ Txn[f][n] = Txn[e][n]
        /\ \/ n \in Carried /\ counted[f] # Never
           \/ /\ at[f][n] # Never
              /\ pc[f] \in {"gather", "abandoned"} \/ n \in judged[f].new

(* account_profile_repo.py:111-117: avg_txn_amount is rounded to two       *)
(* decimals at each update and the next one starts from there.  After n    *)
(* transactions it is within (n + 1)/4 cent of the true mean.              *)
AverageIsFaithful ==
  LET drift == 4 * (row.total * row.average - row.volume)
      bound == row.total * (row.total + 1)
  IN  drift <= bound /\ -drift <= bound

(* account_profile_repo.py:121-150: a window's count never exceeds the     *)
(* transactions counted within that window's length of the latest one.     *)
WindowsNeverOvercount ==
  LET since(length) ==
        {e \in Evaluations : counted[e] # Never /\ row.lastSeen - counted[e] <= length}
  IN  /\ row.count1h <= Cardinality(since(Hour))
      /\ row.count24h <= Cardinality(since(Day))

=============================================================================

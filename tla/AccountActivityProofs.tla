----------------------- MODULE AccountActivityProofs -----------------------
(***************************************************************************)
(* Proofs about AccountActivity, for every value of its constants: any     *)
(* number of evaluations, names and failures, any TTLs and windows.        *)
(***************************************************************************)
EXTENDS AccountActivity, FiniteSetTheorems, TLAPS

PcValues == Steps \cup {"idle", "done", "failed", "abandoned"}

-----------------------------------------------------------------------------
(* The constants and the operators.                                        *)

LEMMA ConstantTypes ==
  /\ \A k \in Keys : Ttl[k] \in Nat \ {0}
  /\ Forever \in Nat
  /\ \A e \in Evaluations : \A n \in Names : Txn[e][n] \in Values
  /\ Names \subseteq Keys /\ "velocity" \in Keys /\ "velocity" \notin Names
  /\ Never \notin Nat /\ Never \in Int
  /\ Times \subseteq Nat /\ 0 \in Times
  BY ActivityAssumption DEF Keys, Ttl, Forever, Values, Never, Times

LEMMA CopyType ==
  ASSUME NEW profile \in Profiles
  PROVE  Copy(profile) \in Copies
  BY DEF Profiles, Copies, Copy

LEMMA BlankType == Blank(TRUE) \in Profiles /\ Blank(FALSE) \in Profiles
  BY DEF Blank, Nothing, Profiles

LEMMA SentType ==
  ASSUME NEW profile, NEW e
  PROVE  Sent(profile, e) \in SUBSET Keys
  BY DEF Sent, Keys

(* What integer division leaves. *)
LEMMA Division ==
  ASSUME NEW x \in Nat, NEW n \in Nat \ {0}
  PROVE  x \div n \in Nat
  BY Z3

(* The mean of two decimals is a natural number, and off by half at most. *)
LEMMA NearestType ==
  ASSUME NEW x \in Nat, NEW n \in Nat \ {0}, NEW q \in Nearest(x, n)
  PROVE  q \in Nat /\ 2 * (n * q - x) <= n /\ 2 * (x - n * q) <= n
  BY Division DEF Nearest

LEMMA ProductType ==
  ASSUME NEW a \in Nat, NEW b \in Nat
  PROVE  a * b \in Nat
  OBVIOUS

LEMMA UpdatedType ==
  ASSUME now \in Times, NEW p \in Profiles, NEW e \in Evaluations,
         NEW average \in Nearest(p.total * p.average + Txn[e].amount, p.total + 1)
  PROVE  Updated(p, e, average) \in Profiles
<1>1. /\ p.total \in Nat /\ p.average \in Nat /\ p.volume \in Nat /\ p.count1h \in Nat
      /\ p.count24h \in Nat /\ p.known \in [Names -> SUBSET Values]
      /\ p.reset1h \in Times \cup {Never} /\ p.reset24h \in Times \cup {Never}
  BY DEF Profiles
<1>2. average \in Nat
  <2>1. p.total * p.average \in Nat
    BY <1>1, ProductType
  <2>2. p.total * p.average + Txn[e].amount \in Nat /\ p.total + 1 \in Nat \ {0}
    BY <1>1, <2>1, ActivityAssumption
  <2> QED
    BY <2>2, NearestType
<1>3. p.volume + Txn[e].amount \in Nat
  BY <1>1, ActivityAssumption
<1>4. \A b \in BOOLEAN : \A c \in Nat : (IF b THEN 0 ELSE c) + 1 \in Nat
  OBVIOUS
<1>5. Learned(p.known, e) \in [Names -> SUBSET Values]
  BY <1>1, ConstantTypes DEF Learned
<1> QED
  BY <1>1, <1>2, <1>3, <1>4, <1>5 DEF Updated, Profiles

-----------------------------------------------------------------------------
LEMMA TypeInit == Init => TypeOK
<1> SUFFICES ASSUME Init PROVE TypeOK
  OBVIOUS
<1>1. now \in Times /\ row \in Profiles /\ cache \in SUBSET Copies
  BY BlankType, ConstantTypes DEF Init
<1>2. /\ key \in [Keys -> [members : SUBSET Evaluations, expires : Nat]]
      /\ at \in [Evaluations -> [Keys -> Times \cup {Never}]]
      /\ answer \in [Evaluations -> [Keys -> Nat \cup {Never}]]
  BY ConstantTypes DEF Init
<1>3. seen \in [Evaluations -> Copies] /\ judged \in [Evaluations -> Verdicts]
  BY DEF Init, Unread, Nothing, Copies, Verdicts
<1> QED
  BY <1>1, <1>2, <1>3 DEF Init, TypeOK, Steps

LEMMA LoadedType ==
  ASSUME TypeOK, NEW e \in Evaluations, NEW profile \in Copies, Loaded(e, profile)
  PROVE  /\ seen' \in [Evaluations -> Copies]
         /\ flight' \in [Evaluations -> SUBSET Keys]
         /\ pc' \in [Evaluations -> PcValues]
  BY SentType DEF Loaded, Goto, TypeOK, PcValues, Steps

LEMMA GotoType ==
  ASSUME TypeOK, NEW e \in Evaluations, NEW step \in PcValues, Goto(e, step)
  PROVE  pc' \in [Evaluations -> PcValues]
  BY DEF Goto, TypeOK, PcValues

LEMMA LoadType ==
  ASSUME TypeOK, NEW e \in Evaluations, Load(e)
  PROVE  TypeOK'
<1>1. \/ \E profile \in Copies : Loaded(e, profile)
      \/ /\ \E step \in PcValues : Goto(e, step)
         /\ UNCHANGED <<seen, flight>>
  BY CopyType DEF Load, TypeOK, PcValues, Steps
<1>2. /\ seen' \in [Evaluations -> Copies]
      /\ flight' \in [Evaluations -> SUBSET Keys]
      /\ pc' \in [Evaluations -> PcValues]
  BY <1>1, LoadedType, GotoType DEF TypeOK
<1>3. tasks' \in SUBSET (Evaluations \X (Keys \cup {"cache"}))
  <2>1. tasks' = tasks \/ tasks' = tasks \cup {<<e, "cache">>}
    BY DEF Load
  <2> QED
    BY <2>1 DEF TypeOK
<1>4. UNCHANGED <<now, row, cache, key, answer, broken, judged, at, kept, counted>>
  BY DEF Load, redis, history
<1> QED
  BY <1>2, <1>3, <1>4 DEF TypeOK, PcValues

LEMMA CreateType ==
  ASSUME TypeOK, NEW e \in Evaluations, Create(e)
  PROVE  TypeOK'
<1>1. \/ Unread \in Copies /\ Loaded(e, Unread)
      \/ /\ \E step \in PcValues : Goto(e, step)
         /\ UNCHANGED <<seen, flight>>
  BY DEF Create, PcValues, Steps, Unread, Nothing, Copies
<1>2. /\ seen' \in [Evaluations -> Copies]
      /\ flight' \in [Evaluations -> SUBSET Keys]
      /\ pc' \in [Evaluations -> PcValues]
  BY <1>1, LoadedType, GotoType DEF TypeOK
<1>3. tasks' \in SUBSET (Evaluations \X (Keys \cup {"cache"}))
  <2>1. tasks' = tasks \/ tasks' = tasks \cup {<<e, "cache">>}
    BY DEF Create
  <2> QED
    BY <2>1 DEF TypeOK
<1>4. row' = row \/ row' = Blank(TRUE)
  BY DEF Create
<1>5. row' \in Profiles
  BY <1>4, BlankType DEF TypeOK
<1>6. UNCHANGED <<now, cache, key, answer, broken, judged, at, kept, counted>>
  BY DEF Create, redis, history
<1> QED
  BY <1>2, <1>3, <1>5, <1>6 DEF TypeOK, PcValues

LEMMA ExecuteType ==
  ASSUME TypeOK, NEW e \in Evaluations, NEW k \in Keys, Execute(e, k)
  PROVE  TypeOK'
<1>1. Cardinality(key[k].members) + 1 \in Nat
  <2>1. key[k].members \in SUBSET Evaluations
    BY DEF TypeOK
  <2> QED
    BY <2>1, FS_Subset, FS_CardinalityType, ActivityAssumption
<1>2. answer' \in [Evaluations -> [Keys -> Nat \cup {Never}]]
  BY <1>1 DEF Execute, TypeOK
<1>3. key' \in [Keys -> [members : SUBSET Evaluations, expires : Nat]]
  <2>1. PICK S \in SUBSET Evaluations : key' = [key EXCEPT ![k].members = S]
    <3>1. key[k].members \in SUBSET Evaluations
      BY DEF TypeOK
    <3>2. (IF ~Holds(k, Value(e, k)) THEN key[k].members \cup {e} ELSE key[k].members)
            \in SUBSET Evaluations
      BY <3>1
    <3> QED
      BY <3>2 DEF Execute
  <2> QED
    BY <2>1 DEF TypeOK
<1>4. /\ at' \in [Evaluations -> [Keys -> Times \cup {Never}]]
      /\ flight' \in [Evaluations -> SUBSET Keys]
  BY DEF Execute, TypeOK
<1>5. UNCHANGED <<now, row, cache, pc, seen, broken, judged, tasks, kept, counted>>
  BY DEF Execute
<1> QED
  BY <1>2, <1>3, <1>4, <1>5 DEF TypeOK

(* While a gather runs, its INCR is on its way or was answered. *)
Asked == \A e \in Evaluations :
  pc[e] = "gather" => "velocity" \in flight[e] \/ answer[e]["velocity"] \in Nat

LEMMA JudgeType ==
  ASSUME TypeOK, Asked, NEW e \in Evaluations, Judge(e)
  PROVE  TypeOK'
<1>1. (IF e \in broken THEN seen[e].count1h ELSE answer[e]["velocity"]) \in Nat
  <2>1. seen[e].count1h \in Nat
    BY DEF TypeOK, Copies
  <2>2. e \notin broken => answer[e]["velocity"] \in Nat
    BY DEF Asked, Judge
  <2> QED
    BY <2>1, <2>2
<1>2. {n \in Names : New(seen[e], e, n) /\ (e \in broken \/ answer[e][n] # 0)} \in SUBSET Names
  OBVIOUS
<1>3. PICK S \in SUBSET Names, n \in Nat :
        judged' = [judged EXCEPT ![e] = [new |-> S, recent |-> n]]
  BY <1>1, <1>2 DEF Judge
<1>4. judged' \in [Evaluations -> Verdicts]
  BY <1>3 DEF TypeOK, Verdicts
<1>5. tasks' \in SUBSET (Evaluations \X (Keys \cup {"cache"}))
  <2>1. tasks' = tasks \/ tasks' = tasks \cup ({e} \X Keys)
    BY DEF Judge
  <2> QED
    BY <2>1 DEF TypeOK
<1>6. pc' \in [Evaluations -> PcValues]
  BY GotoType DEF Judge, PcValues
<1>7. UNCHANGED <<now, row, cache, key, seen, flight, answer, broken, at, kept, counted>>
  BY DEF Judge, redis, history
<1> QED
  BY <1>4, <1>5, <1>6, <1>7 DEF TypeOK, PcValues

LEMMA RefreshType ==
  ASSUME TypeOK, NEW e \in Evaluations, NEW k \in Keys, Refresh(e, k)
  PROVE  TypeOK'
<1>1. now + Ttl[k] \in Nat
  BY ConstantTypes DEF TypeOK
<1>2. key' \in [Keys -> [members : SUBSET Evaluations, expires : Nat]]
  <2>1. PICK n \in Nat : key' = [key EXCEPT ![k].expires = n]
    <3>1. (IF key[k].members = {} THEN key[k].expires ELSE now + Ttl[k]) \in Nat
      BY <1>1 DEF TypeOK
    <3> QED
      BY <3>1 DEF Refresh
  <2> QED
    BY ZenonT(60), <2>1 DEF TypeOK
<1>3. tasks' \in SUBSET tasks /\ kept' \in SUBSET (Evaluations \X Keys)
  BY DEF Refresh, TypeOK
<1>4. UNCHANGED <<now, row, cache, pc, seen, flight, answer, broken, judged, at, counted>>
  BY DEF Refresh
<1> QED
  BY <1>2, <1>3, <1>4 DEF TypeOK

LEMMA TickType ==
  ASSUME TypeOK, Tick
  PROVE  TypeOK'
<1>1. now' \in Times
  BY ActivityAssumption DEF Tick, TypeOK, Times
<1>2. key' \in [Keys -> [members : SUBSET Evaluations, expires : Nat]]
  BY ConstantTypes DEF Tick, TypeOK
<1>3. UNCHANGED <<row, cache, pc, seen, flight, answer, broken, judged, tasks, at, kept, counted>>
  BY DEF Tick, history
<1> QED
  BY <1>1, <1>2, <1>3 DEF TypeOK

LEMMA UpdateType ==
  ASSUME TypeOK, NEW e \in Evaluations, Update(e)
  PROVE  TypeOK'
<1>1. row' \in Profiles
  BY UpdatedType DEF Update, TypeOK
<1>2. cache' \in SUBSET Copies /\ counted' \in [Evaluations -> Times \cup {Never}]
  BY DEF Update, TypeOK
<1>3. UNCHANGED <<now, key, pc, seen, flight, answer, broken, judged, tasks, at, kept>>
  BY DEF Update
<1> QED
  BY <1>1, <1>2, <1>3 DEF TypeOK

LEMMA TypeNext == TypeOK /\ Asked /\ [Next]_vars => TypeOK'
<1> SUFFICES ASSUME TypeOK, Asked, [Next]_vars PROVE TypeOK'
  OBVIOUS
<1>1. ASSUME NEW e \in Evaluations, Break(e) \/ Cancel(e) PROVE TypeOK'
  <2>1. pc' \in [Evaluations -> PcValues]
    BY <1>1, GotoType DEF Break, Cancel, TypeOK, PcValues
  <2> QED
    BY <1>1, <2>1 DEF Break, Cancel, TypeOK, redis, history, PcValues
<1>2. ASSUME NEW e \in Evaluations, FillCache(e) PROVE TypeOK'
  BY <1>2 DEF FillCache, TypeOK, history
<1>3. CASE CacheExpires
  BY <1>3 DEF CacheExpires, TypeOK, history
<1>4. CASE UNCHANGED vars
  BY <1>4 DEF vars, redis, history, TypeOK
<1> QED
  BY <1>1, <1>2, <1>3, <1>4, LoadType, CreateType, ExecuteType, JudgeType, RefreshType,
     TickType, UpdateType DEF Next

LEMMA AskedNext == TypeOK /\ Asked /\ [Next]_vars => Asked'
<1> SUFFICES ASSUME TypeOK, Asked, [Next]_vars PROVE Asked'
  OBVIOUS
<1>1. ASSUME NEW e \in Evaluations, NEW profile, Loaded(e, profile), answer' = answer
      PROVE  Asked'
  BY <1>1 DEF Loaded, Goto, Sent, Asked, TypeOK
<1>2. ASSUME NEW e \in Evaluations, NEW step, step # "gather", Goto(e, step),
             UNCHANGED <<flight, answer>>
      PROVE  Asked'
  BY <1>2 DEF Goto, Asked, TypeOK
<1>3. ASSUME NEW e \in Evaluations, NEW k \in Keys, Execute(e, k) PROVE Asked'
  <2>1. Cardinality(key[k].members) + 1 \in Nat
    <3>1. key[k].members \in SUBSET Evaluations
      BY DEF TypeOK
    <3> QED
      BY <3>1, FS_Subset, FS_CardinalityType, ActivityAssumption
  <2> QED
    BY <1>3, <2>1 DEF Execute, Asked, TypeOK, Keys
<1>4. ASSUME UNCHANGED <<pc, flight, answer>> PROVE Asked'
  BY <1>4 DEF Asked
<1>5. ASSUME NEW e \in Evaluations, Load(e) \/ Create(e) \/ Judge(e) \/ Cancel(e)
      PROVE  Asked'
  BY <1>1, <1>2, <1>5 DEF Load, Create, Judge, Cancel
<1> QED
  BY <1>3, <1>4, <1>5 DEF Next, Break, FillCache, Update, Refresh, CacheExpires, Tick, vars

(* TypeInvariant: the state stays in its sets.  The counter that the rules *)
(* are told is always a number Redis or the profile gave, and the profile  *)
(* stays one that its columns can hold.                                    *)
THEOREM TypeInvariant == Spec => []TypeOK
<1>1. Init => Asked
  BY DEF Init, Asked
<1> QED
  BY <1>1, TypeInit, TypeNext, AskedNext, PTL DEF Spec

-----------------------------------------------------------------------------
(* What the steps leave alone.  A name is asked for, and its TTL set, at   *)
(* most once per evaluation, after its profile was loaded and before the   *)
(* end of its gather.                                                      *)

Discipline ==
  /\ \A e \in Evaluations : pc[e] \in {"idle", "create", "failed"} =>
       flight[e] = {} /\ \A k \in Keys : at[e][k] = Never
  /\ \A e \in Evaluations : \A k \in Keys :
       /\ k \in flight[e] => at[e][k] = Never
       /\ <<e, k>> \in tasks \cup kept => pc[e] = "done" /\ flight[e] = {}
       /\ at[e][k] <= now
       /\ at[e][k] = Never <=> answer[e][k] = Never
  /\ \A e \in Evaluations : pc[e] = "done" /\ e \notin broken => flight[e] = {}

(* The steps that touch none of the variables of these arguments. *)
LEMMA LoadSteps ==
  ASSUME TypeOK, NEW e \in Evaluations, Load(e) \/ Create(e)
  PROVE  /\ pc[e] \in {"idle", "create"}
         /\ UNCHANGED <<now, cache, key, answer, broken, judged, at, kept, counted>>
         /\ row' = row \/ row' = Blank(TRUE)
         /\ tasks' = tasks \/ tasks' = tasks \cup {<<e, "cache">>}
         /\ \/ \E profile \in Copies :
                  /\ profile \in cache \/ profile = Copy(row) \/ profile = Unread
                  /\ Loaded(e, profile)
            \/ /\ Goto(e, "create") \/ Goto(e, "failed")
               /\ UNCHANGED <<seen, flight>>
<1>1. CASE Load(e)
  BY <1>1, CopyType DEF Load, redis, history, TypeOK
<1>2. CASE Create(e)
  <2>1. Unread \in Copies
    BY DEF Unread, Nothing, Copies
  <2> QED
    BY <1>2, <2>1 DEF Create, redis, history
<1> QED
  BY <1>1, <1>2

LEMMA OtherSteps ==
  ASSUME [Next]_vars
  PROVE  \/ \E e \in Evaluations :
              \/ Load(e) \/ Create(e) \/ Break(e) \/ Judge(e) \/ Cancel(e)
              \/ \E k \in Keys : Execute(e, k) \/ Refresh(e, k)
              \/ FillCache(e) \/ Update(e)
         \/ Tick
         \/ /\ UNCHANGED <<now, row, key, pc, seen, flight, answer, broken, judged, tasks,
                          at, kept, counted>>
            /\ cache' \subseteq cache
  BY DEF Next, CacheExpires, vars, redis, history

LEMMA TimeTypes ==
  ASSUME TypeOK
  PROVE  /\ now \in Nat
         /\ \A e \in Evaluations : \A k \in Keys : at[e][k] \in Nat \cup {Never}
         /\ \A e \in Evaluations : \A k \in Keys : at[e][k] \in Int
         /\ \A k \in Keys : key[k].expires \in Nat /\ key[k].members \in SUBSET Evaluations
<1>1. \A e \in Evaluations : \A k \in Keys : at[e][k] \in Times \cup {Never}
  BY DEF TypeOK
<1>2. now \in Times /\ \A k \in Keys : key[k].expires \in Nat /\ key[k].members \in SUBSET Evaluations
  BY DEF TypeOK
<1>3. now \in Nat /\ \A e \in Evaluations : \A k \in Keys : at[e][k] \in Nat \cup {Never}
  BY <1>1, <1>2, ConstantTypes
<1>4. \A e \in Evaluations : \A k \in Keys : at[e][k] \in Int
  BY <1>3, ConstantTypes
<1> QED
  BY <1>2, <1>3, <1>4

LEMMA DisciplineNext == TypeOK /\ Discipline /\ [Next]_vars => Discipline'
<1> SUFFICES ASSUME TypeOK, Discipline, [Next]_vars PROVE Discipline'
  OBVIOUS
<1> USE ConstantTypes
<1>1. ASSUME NEW e \in Evaluations, Load(e) \/ Create(e) PROVE Discipline'
  <2>1. /\ pc[e] \in {"idle", "create"}
        /\ UNCHANGED <<now, at, answer, broken, kept>>
        /\ tasks' = tasks \/ tasks' = tasks \cup {<<e, "cache">>}
        /\ \/ \E profile : Loaded(e, profile)
           \/ (Goto(e, "create") \/ Goto(e, "failed")) /\ flight' = flight
    BY <1>1, LoadSteps
  <2>2. \A f \in Evaluations : f # e => pc'[f] = pc[f] /\ flight'[f] = flight[f]
    BY <2>1 DEF Loaded, Goto, TypeOK
  <2>3. flight[e] = {} /\ \A k \in Keys : at[e][k] = Never /\ <<e, k>> \notin tasks \cup kept
    BY <2>1 DEF Discipline
  <2>4. /\ pc'[e] # "done"
        /\ pc'[e] \in {"idle", "create", "failed"} => flight'[e] = {}
    BY <2>1, <2>3 DEF Loaded, Goto, TypeOK
  <2>5. \A f \in Evaluations : \A k \in Keys : <<f, k>> \in tasks' => <<f, k>> \in tasks
    BY <2>1, ActivityAssumption DEF Keys
  <2> QED
    BY <2>1, <2>2, <2>3, <2>4, <2>5 DEF Discipline
<1>2. ASSUME NEW e \in Evaluations, NEW k \in Keys, Execute(e, k) PROVE Discipline'
  <2>1. /\ UNCHANGED <<now, pc, broken, tasks, kept>>
        /\ k \in flight[e] /\ flight'[e] = flight[e] \ {k}
        /\ at'[e][k] = now
        /\ \A f \in Evaluations : f # e => flight'[f] = flight[f]
        /\ \A f \in Evaluations : \A h \in Keys : f # e \/ h # k =>
             at'[f][h] = at[f][h] /\ answer'[f][h] = answer[f][h]
    BY <1>2 DEF Execute, TypeOK
  <2>2. answer'[e][k] # Never
    <3>1. key[k].members \in SUBSET Evaluations
      BY DEF TypeOK
    <3>2. Cardinality(key[k].members) \in Nat
      BY <3>1, FS_Subset, FS_CardinalityType, ActivityAssumption
    <3>3. answer'[e][k] \in Nat
      BY <1>2, <3>2 DEF Execute, TypeOK
    <3> QED
      BY <3>3
  <2>3. now \in Nat /\ now <= now
    BY DEF TypeOK
  <2>4. pc[e] \notin {"idle", "create", "failed"}
    BY <2>1 DEF Discipline
  <2> QED
    BY <2>1, <2>2, <2>3, <2>4 DEF Discipline
<1>3. ASSUME NEW e \in Evaluations, Break(e) PROVE Discipline'
  BY <1>3 DEF Break, Discipline, TypeOK, redis, history
<1>4. ASSUME NEW e \in Evaluations, Judge(e) PROVE Discipline'
  <2>1. /\ UNCHANGED <<now, flight, answer, broken, at, kept>>
        /\ pc[e] = "gather" /\ pc'[e] = "done"
        /\ \A f \in Evaluations : f # e => pc'[f] = pc[f]
        /\ e \in broken \/ flight[e] = {}
        /\ tasks' = tasks \/ (e \notin broken /\ tasks' = tasks \cup ({e} \X Keys))
    BY <1>4 DEF Judge, Goto, TypeOK, history
  <2> QED
    BY <2>1 DEF Discipline
<1>5. ASSUME NEW e \in Evaluations, Cancel(e) PROVE Discipline'
  <2>1. /\ UNCHANGED <<now, flight, answer, broken, at, kept, tasks>>
        /\ pc[e] \in Steps /\ pc'[e] = "abandoned"
        /\ \A f \in Evaluations : f # e => pc'[f] = pc[f]
    BY <1>5 DEF Cancel, Goto, TypeOK, history
  <2> QED
    BY <2>1 DEF Discipline, Steps
<1>6. ASSUME NEW e \in Evaluations, NEW k \in Keys, Refresh(e, k) PROVE Discipline'
  <2>1. /\ UNCHANGED <<now, pc, flight, answer, broken, at>>
        /\ <<e, k>> \in tasks /\ tasks' \subseteq tasks
        /\ kept' \subseteq kept \cup {<<e, k>>}
    BY <1>6 DEF Refresh
  <2> QED
    BY <2>1 DEF Discipline
<1>7. ASSUME UNCHANGED <<now, pc, flight, answer, broken, at, kept>>, tasks' \subseteq tasks
      PROVE  Discipline'
  BY <1>7 DEF Discipline
<1>8. ASSUME NEW e \in Evaluations, FillCache(e) \/ Update(e) PROVE Discipline'
  BY <1>7, <1>8 DEF FillCache, Update, history
<1>9. CASE Tick
  <2>1. /\ UNCHANGED <<pc, flight, answer, broken, tasks, at, kept>>
        /\ now' = now + 1
    BY <1>9 DEF Tick, history
  <2>2. \A e \in Evaluations : \A k \in Keys : at[e][k] \in Int /\ at[e][k] <= now
    BY TimeTypes DEF Discipline
  <2>3. now \in Nat
    BY TimeTypes
  <2> QED
    BY <2>1, <2>2, <2>3 DEF Discipline
<1> QED
  BY <1>1, <1>2, <1>3, <1>4, <1>5, <1>6, <1>7, <1>8, <1>9, OtherSteps

LEMMA DisciplineInit == Init => Discipline
  BY ConstantTypes DEF Init, Discipline

-----------------------------------------------------------------------------
(* A value whose EXPIRE came in time is in its key, and the key lives long *)
(* enough: an EXPIRE only ever moves the deadline of a key away from the   *)
(* commands that came before it.                                           *)
Remembered ==
  \A e \in Evaluations : \A k \in Keys :
    <<e, k>> \in kept /\ at[e][k] # Never /\ now < at[e][k] + Ttl[k] =>
      Holds(k, Value(e, k)) /\ at[e][k] + Ttl[k] <= key[k].expires

LEMMA RememberedNext ==
  ASSUME TypeOK, Discipline, Remembered, [Next]_vars
  PROVE  Remembered'
<1> USE ConstantTypes
<1>1. ASSUME NEW e \in Evaluations, NEW k \in Keys, Execute(e, k) PROVE Remembered'
  <2>1. /\ UNCHANGED <<now, kept>>
        /\ <<e, k>> \notin kept
        /\ \A f \in Evaluations : \A h \in Keys : f # e \/ h # k => at'[f][h] = at[f][h]
        /\ \A h \in Keys : key'[h].expires = key[h].expires
        /\ \A h \in Keys : key[h].members \subseteq key'[h].members
    BY <1>1 DEF Execute, TypeOK, Discipline
  <2>2. \A h \in Keys : \A v : Holds(h, v) => Holds(h, v)'
    BY <2>1 DEF Holds, Value
  <2>3. \A f \in Evaluations : \A h \in Keys : Value(f, h)' = Value(f, h)
    BY DEF Value
  <2> QED
    BY <2>1, <2>2, <2>3 DEF Remembered
<1>2. ASSUME NEW e \in Evaluations, NEW k \in Keys, Refresh(e, k) PROVE Remembered'
  <2>1. /\ UNCHANGED <<now, at>>
        /\ kept' = kept \/ (Survived(e, k) /\ kept' = kept \cup {<<e, k>>})
        /\ \A h \in Keys : key'[h].members = key[h].members
        /\ \A h \in Keys : h # k => key'[h].expires = key[h].expires
    BY <1>2 DEF Refresh, TypeOK
  <2>2. \A h \in Keys : \A v : Holds(h, v) => Holds(h, v)'
    BY <2>1 DEF Holds, Value
  <2>3. key[k].members # {} => key'[k].expires = now + Ttl[k]
    BY <1>2 DEF Refresh, TypeOK
  <2>4. Survived(e, k) => Holds(k, Value(e, k))
    BY DEF Survived, Holds
  <2>5. \A f \in Evaluations : at[f][k] # Never =>
          at[f][k] \in Nat /\ at[f][k] <= now /\ at[f][k] + Ttl[k] <= now + Ttl[k]
    <3>1. \A f \in Evaluations : at[f][k] # Never => at[f][k] \in Nat /\ at[f][k] <= now
      BY ZenonT(60), TimeTypes DEF Discipline
    <3>2. Ttl[k] \in Nat /\ now \in Nat
      BY TimeTypes
    <3> QED
      BY <3>1, <3>2
  <2>6. ASSUME NEW f \in Evaluations, NEW h \in Keys, <<f, h>> \in kept',
               at[f][h] # Never, now < at[f][h] + Ttl[h]
        PROVE  Holds(h, Value(f, h))' /\ at[f][h] + Ttl[h] <= key'[h].expires
    <3>1. Holds(h, Value(f, h))
      BY <2>1, <2>4, <2>6 DEF Remembered
    <3>2. Holds(h, Value(f, h))'
      BY <2>2, <3>1 DEF Value
    <3>3. CASE h = k
      <4>1. key[k].members # {}
        BY <3>1, <3>3 DEF Holds
      <4> QED
        BY <2>3, <2>5, <2>6, <3>2, <3>3, <4>1
    <3>4. CASE h # k
      BY <2>1, <2>6, <3>2, <3>4 DEF Remembered
    <3> QED
      BY <3>3, <3>4
  <2>7. \A f \in Evaluations : \A h \in Keys : Value(f, h)' = Value(f, h)
    BY DEF Value
  <2> QED
    BY <2>1, <2>6, <2>7 DEF Remembered
<1>3. CASE Tick
  <2>1. /\ now' = now + 1 /\ now \in Nat
        /\ UNCHANGED <<at, kept>>
        /\ \A h \in Keys : now + 1 < key[h].expires => key'[h] = key[h]
    BY <1>3 DEF Tick, TypeOK, history
  <2>2. ASSUME NEW f \in Evaluations, NEW h \in Keys, <<f, h>> \in kept,
               at[f][h] # Never, now + 1 < at[f][h] + Ttl[h]
        PROVE  Holds(h, Value(f, h))' /\ at[f][h] + Ttl[h] <= key'[h].expires
    <3>1. at[f][h] \in Nat /\ key[h].expires \in Nat /\ Ttl[h] \in Nat
      BY <2>2, TimeTypes
    <3>2. Holds(h, Value(f, h)) /\ at[f][h] + Ttl[h] <= key[h].expires
      BY <2>1, <2>2, <3>1 DEF Remembered
    <3>3. key'[h] = key[h]
      BY <2>1, <2>2, <3>1, <3>2
    <3> QED
      BY <3>2, <3>3 DEF Holds, Value
  <2>3. \A f \in Evaluations : \A h \in Keys : Value(f, h)' = Value(f, h)
    BY DEF Value
  <2> QED
    BY <2>1, <2>2, <2>3 DEF Remembered
<1>4. ASSUME UNCHANGED <<now, key, at, kept>> PROVE Remembered'
  BY <1>4 DEF Remembered, Holds, Value
<1>5. ASSUME NEW e \in Evaluations,
             \/ Load(e) \/ Create(e) \/ Break(e) \/ Judge(e) \/ Cancel(e)
             \/ FillCache(e) \/ Update(e)
      PROVE  UNCHANGED <<now, key, at, kept>>
  BY <1>5, LoadSteps DEF Break, Judge, Cancel, FillCache, Update, redis, history
<1> QED
  BY <1>1, <1>2, <1>3, <1>4, <1>5, OtherSteps

(* RememberedForABurst: what an evaluation left in a key, and kept alive   *)
(* before the key expired, is in the key for a whole TTL, for any number   *)
(* of evaluations, in any order of their commands and tasks.               *)
THEOREM RememberedForABurst == Spec => []RefreshedIsRemembered
<1>1. Init => TypeOK /\ Asked /\ Discipline /\ Remembered
  BY TypeInit, DisciplineInit DEF Init, Remembered, Asked
<1>2. TypeOK /\ Asked /\ Discipline /\ Remembered /\ [Next]_vars =>
        TypeOK' /\ Asked' /\ Discipline' /\ Remembered'
  BY TypeNext, AskedNext, DisciplineNext, RememberedNext
<1>3. Remembered => RefreshedIsRemembered
  BY DEF Remembered, RefreshedIsRemembered
<1> QED
  BY <1>1, <1>2, <1>3, PTL DEF Spec

-----------------------------------------------------------------------------
(* The profile's row alone.                                                *)

(* What changes the row: an update by the worker, or its creation. *)
LEMMA RowSteps ==
  ASSUME [Next]_vars, TypeOK
  PROVE  \/ \E e \in Evaluations : Update(e)
         \/ /\ row' = row \/ row' = Blank(TRUE)
            /\ counted' = counted
            /\ now' = now \/ now' = now + 1
<1>1. ASSUME NEW e \in Evaluations, Load(e) \/ Create(e)
      PROVE  (row' = row \/ row' = Blank(TRUE)) /\ UNCHANGED <<now, counted>>
  BY <1>1, LoadSteps
<1>2. ASSUME NEW e \in Evaluations,
             \/ Break(e) \/ Judge(e) \/ Cancel(e) \/ FillCache(e)
             \/ \E k \in Keys : Execute(e, k) \/ Refresh(e, k)
      PROVE  UNCHANGED <<now, row, counted>>
  BY <1>2 DEF Break, Judge, Cancel, FillCache, Execute, Refresh, history
<1>3. CASE Tick
  BY <1>3 DEF Tick, history
<1> QED
  BY <1>1, <1>2, <1>3, OtherSteps

(* One more transaction adds half of itself to the drift at most. *)
LEMMA DriftStep ==
  ASSUME NEW n \in Nat, NEW a \in Nat, NEW v \in Nat, NEW x \in Nat, NEW q \in Nat,
         4 * (n * a - v) <= n * (n + 1), 4 * (v - n * a) <= n * (n + 1),
         2 * ((n + 1) * q - (n * a + x)) <= n + 1,
         2 * ((n * a + x) - (n + 1) * q) <= n + 1
  PROVE  /\ 4 * ((n + 1) * q - (v + x)) <= (n + 1) * ((n + 1) + 1)
         /\ 4 * ((v + x) - (n + 1) * q) <= (n + 1) * ((n + 1) + 1)
<1> DEFINE N == n * a
           Q == (n + 1) * q
           B == n * (n + 1)
<1>1. N \in Nat /\ Q \in Nat /\ B \in Nat
  BY ProductType
<1>2. (n + 1) * ((n + 1) + 1) = B + 2 * (n + 1)
  OBVIOUS
<1>3. /\ 4 * (N - v) <= B /\ 4 * (v - N) <= B
      /\ 2 * (Q - (N + x)) <= n + 1 /\ 2 * ((N + x) - Q) <= n + 1
  OBVIOUS
<1>4. /\ 4 * (Q - (v + x)) <= B + 2 * (n + 1)
      /\ 4 * ((v + x) - Q) <= B + 2 * (n + 1)
  <2> HIDE DEF N, Q, B
  <2> QED
    BY <1>1, <1>3
<1> QED
  BY <1>2, <1>4

Drift ==
  /\ 4 * (row.total * row.average - row.volume) <= row.total * (row.total + 1)
  /\ 4 * (row.volume - row.total * row.average) <= row.total * (row.total + 1)

LEMMA DriftNext == TypeOK /\ Drift /\ [Next]_vars => Drift'
<1> SUFFICES ASSUME TypeOK, Drift, [Next]_vars PROVE Drift'
  OBVIOUS
<1>1. ASSUME NEW e \in Evaluations, Update(e) PROVE Drift'
  <2>1. row.total \in Nat /\ row.average \in Nat /\ row.volume \in Nat /\ Txn[e].amount \in Nat
    BY ActivityAssumption DEF TypeOK, Profiles
  <2>2. row.total * row.average + Txn[e].amount \in Nat /\ row.total + 1 \in Nat \ {0}
    BY <2>1, ProductType
  <2>3. PICK q \in Nearest(row.total * row.average + Txn[e].amount, row.total + 1) :
          row' = Updated(row, e, q)
    BY <1>1 DEF Update
  <2>4. row'.total = row.total + 1 /\ row'.average = q /\ row'.volume = row.volume + Txn[e].amount
    BY <2>3 DEF Updated
  <2>5. /\ q \in Nat
        /\ 2 * ((row.total + 1) * q - (row.total * row.average + Txn[e].amount)) <= row.total + 1
        /\ 2 * ((row.total * row.average + Txn[e].amount) - (row.total + 1) * q) <= row.total + 1
    BY <2>2, NearestType
  <2> QED
    BY <2>1, <2>4, <2>5, DriftStep DEF Drift
<1>2. CASE row' = row
  BY <1>2 DEF Drift
<1>3. CASE row' = Blank(TRUE)
  BY <1>3 DEF Drift, Blank
<1> QED
  BY <1>1, <1>2, <1>3, RowSteps

(* AverageStaysFaithful: however many transactions are counted and of      *)
(* whatever amounts, after n of them the rounded running average is within *)
(* (n + 1)/4 cent of the true mean.                                        *)
THEOREM AverageStaysFaithful == Spec => []AverageIsFaithful
<1>1. Init => TypeOK /\ Asked /\ Drift
  BY TypeInit DEF Init, Asked, Drift, Blank
<1>2. TypeOK /\ Asked /\ Drift /\ [Next]_vars => TypeOK' /\ Asked' /\ Drift'
  BY TypeNext, AskedNext, DriftNext
<1>3. TypeOK /\ Drift => AverageIsFaithful
  <2> SUFFICES ASSUME TypeOK, Drift PROVE AverageIsFaithful
    OBVIOUS
  <2>1. row.total \in Nat /\ row.average \in Nat /\ row.volume \in Nat
    BY DEF TypeOK, Profiles
  <2>2. row.total * row.average \in Nat /\ row.total * (row.total + 1) \in Nat
    BY <2>1, ProductType
  <2> QED
    BY <2>1, <2>2 DEF Drift, AverageIsFaithful
<1> QED
  BY <1>1, <1>2, <1>3, PTL DEF Spec

-----------------------------------------------------------------------------
CountedSince(t) == {e \in Evaluations : counted[e] # Never /\ counted[e] >= t}

(* A window's count is at most what was counted since it began, and the    *)
(* latest transaction lies within the window's length of its beginning.    *)
Window(began, count, length) ==
  /\ began = Never => count = 0
  /\ began # Never =>
       /\ began <= now
       /\ row.lastSeen # Never /\ row.lastSeen - began <= length
       /\ count <= Cardinality(CountedSince(began))

Windows ==
  Window(row.reset1h, row.count1h, Hour) /\ Window(row.reset24h, row.count24h, Day)

LEMMA WindowStep ==
  ASSUME TypeOK, NEW e \in Evaluations, counted[e] = Never, now' = now,
         counted' = [counted EXCEPT ![e] = now], row'.lastSeen = now,
         NEW began \in Times \cup {Never}, NEW count \in Nat, NEW length \in Nat,
         Window(began, count, length)
  PROVE  /\ Elapsed(began, length) => Window(now, 0 + 1, length)'
         /\ ~Elapsed(began, length) => Window(began, count + 1, length)'
<1>1. now \in Nat /\ now # Never /\ (began # Never => began \in Nat)
  BY TimeTypes, ConstantTypes
<1>2. \A t : CountedSince(t) \in SUBSET Evaluations /\ CountedSince(t)' \in SUBSET Evaluations
  BY DEF CountedSince
<1>3. \A t : /\ IsFiniteSet(CountedSince(t)) /\ IsFiniteSet(CountedSince(t)')
             /\ Cardinality(CountedSince(t)) \in Nat /\ Cardinality(CountedSince(t)') \in Nat
  BY <1>2, FS_Subset, FS_CardinalityType, ActivityAssumption
<1>4. ASSUME Elapsed(began, length) PROVE Window(now, 0 + 1, length)'
  <2>1. e \in CountedSince(now)'
    BY <1>1 DEF CountedSince, TypeOK
  <2>2. Cardinality(CountedSince(now)') # 0
    BY <1>3, <2>1, FS_EmptySet
  <2> QED
    BY <1>1, <1>3, <2>2 DEF Window
<1>5. ASSUME ~Elapsed(began, length) PROVE Window(began, count + 1, length)'
  <2>1. began # Never /\ began \in Nat /\ now - began <= length /\ began <= now
    BY <1>1, <1>5 DEF Elapsed, Window
  <2>2. CountedSince(began)' = CountedSince(began) \cup {e} /\ e \notin CountedSince(began)
    BY <1>1, <2>1 DEF CountedSince, TypeOK
  <2>3. Cardinality(CountedSince(began)') = Cardinality(CountedSince(began)) + 1
    BY <1>3, <2>2, FS_AddElement
  <2>4. count <= Cardinality(CountedSince(began))
    BY <2>1 DEF Window
  <2>5. count + 1 <= Cardinality(CountedSince(began)')
    BY <1>3, <2>3, <2>4
  <2> QED
    BY <1>1, <2>1, <2>5 DEF Window
<1> QED
  BY <1>4, <1>5

LEMMA WindowsNext == TypeOK /\ Windows /\ [Next]_vars => Windows'
<1> SUFFICES ASSUME TypeOK, Windows, [Next]_vars PROVE Windows'
  OBVIOUS
<1>1. ASSUME NEW e \in Evaluations, Update(e) PROVE Windows'
  <2>1. PICK q : row' = Updated(row, e, q)
    BY <1>1 DEF Update
  <2>2. /\ counted[e] = Never /\ now' = now /\ counted' = [counted EXCEPT ![e] = now]
        /\ row'.lastSeen = now
    BY <1>1, <2>1 DEF Update, Updated
  <2>3. /\ row.reset1h \in Times \cup {Never} /\ row.reset24h \in Times \cup {Never}
        /\ row.count1h \in Nat /\ row.count24h \in Nat
        /\ Hour \in Nat /\ Day \in Nat
    BY ActivityAssumption DEF TypeOK, Profiles
  <2>4. Window(row.reset1h, row.count1h, Hour)'
    <3>1. CASE Elapsed(row.reset1h, Hour)
      <4>1. row'.reset1h = now /\ row'.count1h = 0 + 1
        BY <2>1, <3>1 DEF Updated
      <4> QED
        BY <2>2, <2>3, <3>1, <4>1, WindowStep DEF Windows, Window, CountedSince
    <3>2. CASE ~Elapsed(row.reset1h, Hour)
      <4>1. row'.reset1h = row.reset1h /\ row'.count1h = row.count1h + 1
        BY <2>1, <3>2 DEF Updated
      <4> QED
        BY <2>2, <2>3, <3>2, <4>1, WindowStep DEF Windows, Window, CountedSince
    <3> QED
      BY <3>1, <3>2
  <2>5. Window(row.reset24h, row.count24h, Day)'
    <3>1. CASE Elapsed(row.reset24h, Day)
      <4>1. row'.reset24h = now /\ row'.count24h = 0 + 1
        BY <2>1, <3>1 DEF Updated
      <4> QED
        BY <2>2, <2>3, <3>1, <4>1, WindowStep DEF Windows, Window, CountedSince
    <3>2. CASE ~Elapsed(row.reset24h, Day)
      <4>1. row'.reset24h = row.reset24h /\ row'.count24h = row.count24h + 1
        BY <2>1, <3>2 DEF Updated
      <4> QED
        BY <2>2, <2>3, <3>2, <4>1, WindowStep DEF Windows, Window, CountedSince
    <3> QED
      BY <3>1, <3>2
  <2> QED
    BY <2>4, <2>5 DEF Windows
<1>2. CASE row' = row /\ counted' = counted /\ (now' = now \/ now' = now + 1)
  <2>1. /\ now \in Nat
        /\ \A t \in {row.reset1h, row.reset24h} : t \in Int
    <3>1. row.reset1h \in Times \cup {Never} /\ row.reset24h \in Times \cup {Never}
      BY DEF TypeOK, Profiles
    <3>2. \A t \in Times \cup {Never} : t \in Int
      BY ConstantTypes
    <3> QED
      BY <3>1, <3>2, TimeTypes
  <2>2. \A t : CountedSince(t)' = CountedSince(t)
    BY <1>2 DEF CountedSince
  <2> QED
    BY <1>2, <2>1, <2>2 DEF Windows, Window
<1>3. CASE row' = Blank(TRUE)
  BY <1>3 DEF Windows, Window, Blank
<1> QED
  BY <1>1, <1>2, <1>3, RowSteps

(* WindowsHoldTrue: the hourly and the daily counter, which are started    *)
(* over when the worker finds them too old, never count a transaction that *)
(* is out of the window as of the account's latest one.                    *)
THEOREM WindowsHoldTrue == Spec => []WindowsNeverOvercount
<1>1. Init => TypeOK /\ Asked /\ Windows
  BY TypeInit DEF Init, Asked, Windows, Window, Blank
<1>2. TypeOK /\ Asked /\ Windows /\ [Next]_vars => TypeOK' /\ Asked' /\ Windows'
  BY TypeNext, AskedNext, WindowsNext
<1>3. TypeOK /\ Windows => WindowsNeverOvercount
  <2> SUFFICES ASSUME TypeOK, Windows PROVE WindowsNeverOvercount
    OBVIOUS
  <2> DEFINE Since(length) ==
        {e \in Evaluations : counted[e] # Never /\ row.lastSeen - counted[e] <= length}
  <2>1. ASSUME NEW began \in Times \cup {Never}, NEW count \in Nat, NEW length \in Nat,
               Window(began, count, length)
        PROVE  count <= Cardinality(Since(length))
    <3>1. /\ IsFiniteSet(Since(length)) /\ Cardinality(Since(length)) \in Nat
      <4>1. Since(length) \in SUBSET Evaluations
        OBVIOUS
      <4> QED
        BY <4>1, FS_Subset, FS_CardinalityType, ActivityAssumption
    <3>2. CASE began = Never
      BY <2>1, <3>1, <3>2 DEF Window
    <3>3. CASE began # Never
      <4>1. began \in Nat /\ row.lastSeen \in Nat /\ row.lastSeen - began <= length
        BY <2>1, <3>3, ConstantTypes DEF Window, TypeOK, Profiles
      <4>2. \A e \in Evaluations : counted[e] # Never => counted[e] \in Nat
        BY ConstantTypes DEF TypeOK
      <4>3. CountedSince(began) \in SUBSET Since(length)
        BY <4>1, <4>2, ActivityAssumption DEF CountedSince
      <4>4. /\ Cardinality(CountedSince(began)) <= Cardinality(Since(length))
            /\ Cardinality(CountedSince(began)) \in Nat
        BY <3>1, <4>3, FS_Subset, FS_CardinalityType
      <4> QED
        BY <2>1, <3>1, <3>3, <4>4 DEF Window
    <3> QED
      BY <3>2, <3>3
  <2>2. /\ row.reset1h \in Times \cup {Never} /\ row.reset24h \in Times \cup {Never}
        /\ row.count1h \in Nat /\ row.count24h \in Nat
        /\ Hour \in Nat /\ Day \in Nat
    BY ActivityAssumption DEF TypeOK, Profiles
  <2>3. row.count1h <= Cardinality(Since(Hour)) /\ row.count24h <= Cardinality(Since(Day))
    BY <2>1, <2>2 DEF Windows
  <2> QED
    BY <2>3 DEF WindowsNeverOvercount
<1> QED
  BY <1>1, <1>2, <1>3, PTL DEF Spec

-----------------------------------------------------------------------------
(* What makes a name known.                                                *)

Same(e, f, n) == Txn[e][n] = Txn[f][n]

(* The SADD of e answered that the name was new to the set. *)
First(e, n) == at[e][n] # Never /\ answer[e][n] = 1

SomeoneCounted(n, d) ==
  n \in Carried /\ \E f \in Evaluations : counted[f] # Never /\ Txn[f][n] = d

(* The names in a profile, in its copies and in what is made of them are   *)
(* of counted transactions; an evaluation that is not at its end was not   *)
(* counted.                                                                *)
Origins(n) ==
  /\ \A d \in row.known[n] : SomeoneCounted(n, d)
  /\ \A profile \in cache : \A d \in profile.known[n] : SomeoneCounted(n, d)
  /\ \A e \in Evaluations : \A d \in seen[e].known[n] : SomeoneCounted(n, d)
  /\ \A e \in Evaluations : pc[e] \in {"idle", "create", "gather"} => counted[e] = Never
  /\ \A e \in Evaluations : Txn[e][n] \in seen[e].known[n] =>
       /\ n \in Carried
       /\ \E f \in Evaluations \ {e} : counted[f] # Never /\ Same(e, f, n)

LEMMA CountedStays ==
  ASSUME TypeOK, [Next]_vars
  PROVE  \A f \in Evaluations : counted[f] # Never => counted'[f] # Never
<1>1. ASSUME NEW e \in Evaluations, Update(e)
      PROVE  \A f \in Evaluations : counted[f] # Never => counted'[f] # Never
  BY <1>1 DEF Update, TypeOK
<1> QED
  BY <1>1, RowSteps

LEMMA OriginsNext ==
  ASSUME TypeOK, NEW n \in Names, Origins(n), [Next]_vars
  PROVE  Origins(n)'
<1>0. /\ \A f \in Evaluations : counted[f] # Never => counted'[f] # Never
      /\ \A d : SomeoneCounted(n, d) => SomeoneCounted(n, d)'
  BY CountedStays DEF SomeoneCounted
<1>1. ASSUME NEW e \in Evaluations, Load(e) \/ Create(e) PROVE Origins(n)'
  <2>1. /\ pc[e] \in {"idle", "create"}
        /\ UNCHANGED <<cache, counted>>
        /\ row' = row \/ row' = Blank(TRUE)
        /\ \/ \E profile \in Copies :
                 /\ profile \in cache \/ profile = Copy(row) \/ profile = Unread
                 /\ Loaded(e, profile)
           \/ (Goto(e, "create") \/ Goto(e, "failed")) /\ seen' = seen
    BY <1>1, LoadSteps
  <2>2. \A d \in row'.known[n] : SomeoneCounted(n, d)
    BY <2>1 DEF Blank, Nothing, Origins
  <2>3. counted[e] = Never
    BY <2>1 DEF Origins
  <2>4. \A f \in Evaluations : pc'[f] \in {"idle", "create", "gather"} => counted[f] = Never
    BY <2>1, <2>3 DEF Loaded, Goto, Origins, TypeOK
  <2>5. /\ \A d \in seen'[e].known[n] : SomeoneCounted(n, d) \/ seen' = seen
        /\ \A f \in Evaluations : f # e => seen'[f] = seen[f]
    <3>1. \A d \in Copy(row).known[n] : SomeoneCounted(n, d)
      BY DEF Copy, Origins
    <3>2. \A d \in Unread.known[n] : SomeoneCounted(n, d)
      BY DEF Unread, Nothing
    <3> QED
      BY <2>1, <3>1, <3>2 DEF Loaded, Origins, TypeOK
  <2>6. \A d \in seen'[e].known[n] : SomeoneCounted(n, d)
    BY <2>5 DEF Origins
  <2>7. Txn[e][n] \in seen'[e].known[n] =>
          /\ n \in Carried
          /\ \E f \in Evaluations \ {e} : counted[f] # Never /\ Same(e, f, n)
    BY <2>3, <2>6 DEF SomeoneCounted, Same
  <2>8. SomeoneCounted(n, Txn[e][n])' = SomeoneCounted(n, Txn[e][n])
    BY <2>1 DEF SomeoneCounted
  <2> QED
    BY <1>0, <2>1, <2>2, <2>4, <2>5, <2>6, <2>7 DEF Origins, Same
<1>2. ASSUME NEW e \in Evaluations, FillCache(e) PROVE Origins(n)'
  BY <1>0, <1>2 DEF FillCache, Origins, history, Same
<1>3. ASSUME NEW e \in Evaluations, Update(e) PROVE Origins(n)'
  <2>1. PICK q : row' = Updated(row, e, q)
    BY <1>3 DEF Update
  <2>2. row'.known[n] = row.known[n] \cup (IF n \in Carried THEN {Txn[e][n]} ELSE {})
    BY <2>1 DEF Updated, Learned
  <2>3. /\ UNCHANGED <<pc, seen>> /\ cache' \subseteq cache
        /\ pc[e] \in {"done", "failed", "abandoned"}
        /\ counted' = [counted EXCEPT ![e] = now]
    BY <1>3 DEF Update
  <2>4. now # Never
    BY TimeTypes, ConstantTypes
  <2>5. n \in Carried => SomeoneCounted(n, Txn[e][n])'
    BY <2>3, <2>4 DEF SomeoneCounted, TypeOK
  <2>6. \A f \in Evaluations : pc[f] \in {"idle", "create", "gather"} => counted'[f] = Never
    BY <2>3 DEF Origins, TypeOK
  <2> QED
    BY <1>0, <2>2, <2>3, <2>5, <2>6 DEF Origins, Same
<1>4. ASSUME NEW e \in Evaluations, Judge(e) \/ Cancel(e) PROVE Origins(n)'
  <2>1. /\ UNCHANGED <<row, cache, seen, counted>>
        /\ pc'[e] \in {"done", "abandoned"}
        /\ \A f \in Evaluations : f # e => pc'[f] = pc[f]
    BY <1>4 DEF Judge, Cancel, Goto, redis, history, TypeOK
  <2> QED
    BY <1>0, <2>1 DEF Origins, Same
<1>5. ASSUME UNCHANGED <<row, pc, seen, counted>>, cache' \subseteq cache PROVE Origins(n)'
  BY <1>0, <1>5 DEF Origins, Same
<1>6. ASSUME NEW e \in Evaluations,
             Break(e) \/ \E k \in Keys : Execute(e, k) \/ Refresh(e, k)
      PROVE  UNCHANGED <<row, cache, pc, seen, counted>>
  BY <1>6 DEF Break, Execute, Refresh, redis, history
<1>7. CASE Tick
  BY <1>5, <1>7 DEF Tick, history
<1> QED
  BY <1>1, <1>2, <1>3, <1>4, <1>5, <1>6, <1>7, OtherSteps

(* What the set of names holds, and what its answers meant.  Of two        *)
(* evaluations that both found their name new, the first's value was gone  *)
(* before the second came, and so its EXPIRE was late.                     *)
Asks(n) ==
  \A e \in Evaluations :
    /\ n \in flight[e] \/ at[e][n] # Never => New(seen[e], e, n)
    /\ answer[e][n] \in {Never, 0, 1}
    /\ answer[e][n] = 0 =>
         \E f \in Evaluations \ {e} : Same(e, f, n) /\ First(f, n)
    /\ pc[e] = "done" => (n \in judged[e].new) =
         (New(seen[e], e, n) /\ (e \in broken \/ answer[e][n] # 0))

Firsts(n) ==
  /\ \A e \in key[n].members : First(e, n)
  /\ \A e \in Evaluations : First(e, n) /\ at[e][n] = now => e \in key[n].members
  /\ \A e, f \in Evaluations :
       /\ e # f /\ Same(e, f, n) /\ First(e, n) /\ First(f, n)
       /\ at[e][n] <= at[f][n]
       => /\ e \notin key[n].members
          /\ at[e][n] < at[f][n]
          /\ at[f][n] < at[e][n] + Burst => <<e, n>> \notin kept

LEMMA AsksNext ==
  ASSUME TypeOK, Discipline, NEW n \in Names, Firsts(n), Asks(n), [Next]_vars
  PROVE  Asks(n)'
<1> USE ConstantTypes
<1>0. n \in Keys /\ n # "velocity"
  BY DEF Keys
<1>1. ASSUME NEW e \in Evaluations, Load(e) \/ Create(e) PROVE Asks(n)'
  <2>1. /\ pc[e] \in {"idle", "create"}
        /\ UNCHANGED <<answer, broken, judged, at>>
        /\ \/ \E profile : Loaded(e, profile)
           \/ (Goto(e, "create") \/ Goto(e, "failed")) /\ UNCHANGED <<seen, flight>>
    BY <1>1, LoadSteps
  <2>2. \A f \in Evaluations : f # e =>
          pc'[f] = pc[f] /\ flight'[f] = flight[f] /\ seen'[f] = seen[f]
    BY <2>1 DEF Loaded, Goto, TypeOK
  <2>3. /\ pc'[e] # "done" /\ at[e][n] = Never
        /\ n \in flight'[e] => New(seen'[e], e, n)
    BY <1>0, <2>1 DEF Loaded, Goto, Sent, TypeOK, Discipline
  <2>4. \A f \in Evaluations : First(f, n)' = First(f, n)
    BY <2>1 DEF First
  <2> QED
    BY <2>1, <2>2, <2>3, <2>4 DEF Asks, Same, New
<1>2. ASSUME NEW e \in Evaluations, NEW k \in Keys, Execute(e, k) PROVE Asks(n)'
  <2>1. /\ UNCHANGED <<pc, seen, broken, judged>>
        /\ k \in flight[e] /\ flight'[e] \subseteq flight[e]
        /\ \A f \in Evaluations : f # e =>
             /\ flight'[f] = flight[f]
             /\ at'[f][n] = at[f][n]
             /\ answer'[f][n] = answer[f][n]
    BY <1>0, <1>2 DEF Execute, TypeOK
  <2>2. at[e][k] = Never /\ (pc[e] = "done" => e \in broken)
    BY <2>1 DEF Discipline
  <2>3. \A f \in Evaluations : f # e => (First(f, n)' = First(f, n))
    BY <2>1 DEF First
  <2>4. CASE k # n
    <3>1. at'[e][n] = at[e][n] /\ answer'[e][n] = answer[e][n]
      BY <1>0, <1>2, <2>4 DEF Execute, TypeOK
    <3>2. \A f \in Evaluations : First(f, n)' = First(f, n)
      BY <2>3, <3>1 DEF First
    <3> QED
      BY <2>1, <3>1, <3>2 DEF Asks, Same, New
  <2>5. CASE k = n
    <3>1. ~First(e, n)
      BY <2>2, <2>5 DEF First
    <3>2. New(seen[e], e, n)
      BY <2>1, <2>5 DEF Asks
    <3>3. /\ Holds(k, Value(e, k)) => answer'[e][n] = 0
          /\ ~Holds(k, Value(e, k)) => answer'[e][n] = 1
      BY <1>0, <1>2, <2>5 DEF Execute, TypeOK
    <3>4. Holds(k, Value(e, k)) => \E f \in Evaluations \ {e} : Same(e, f, n) /\ First(f, n)
      <4>1. key[k].members \subseteq Evaluations
        BY TimeTypes
      <4> QED
        BY <1>0, <2>5, <3>1, <4>1 DEF Holds, Value, Same, Firsts
    <3> QED
      BY <2>1, <2>2, <2>3, <3>1, <3>2, <3>3, <3>4 DEF Asks, Same, New
  <2> QED
    BY <2>4, <2>5
<1>3. ASSUME NEW e \in Evaluations, Judge(e) PROVE Asks(n)'
  <2>1. /\ UNCHANGED <<seen, flight, answer, broken, at>>
        /\ \A f \in Evaluations : f # e => pc'[f] = pc[f] /\ judged'[f] = judged[f]
        /\ (n \in judged'[e].new) =
             (New(seen[e], e, n) /\ (e \in broken \/ answer[e][n] # 0))
    BY <1>3 DEF Judge, Goto, TypeOK, history
  <2>2. \A f \in Evaluations : First(f, n)' = First(f, n)
    BY <2>1 DEF First
  <2> QED
    BY <2>1, <2>2 DEF Asks, Same, New
<1>4. ASSUME NEW e \in Evaluations, Break(e) \/ Cancel(e) PROVE Asks(n)'
  <2>1. /\ UNCHANGED <<seen, flight, answer, at, judged>>
        /\ \A f \in Evaluations : f # e => pc'[f] = pc[f] /\ (f \in broken' <=> f \in broken)
        /\ pc'[e] # "done"
    BY <1>4 DEF Break, Cancel, Goto, TypeOK, history
  <2>2. \A f \in Evaluations : First(f, n)' = First(f, n)
    BY <2>1 DEF First
  <2> QED
    BY <2>1, <2>2 DEF Asks, Same, New
<1>5. ASSUME UNCHANGED <<pc, seen, flight, answer, broken, judged, at>> PROVE Asks(n)'
  BY <1>5 DEF Asks, Same, New, First
<1>6. ASSUME NEW e \in Evaluations,
             FillCache(e) \/ Update(e) \/ \E k \in Keys : Refresh(e, k)
      PROVE  UNCHANGED <<pc, seen, flight, answer, broken, judged, at>>
  BY <1>6 DEF FillCache, Update, Refresh, history
<1>7. CASE Tick
  BY <1>5, <1>7 DEF Tick, history
<1> QED
  BY <1>1, <1>2, <1>3, <1>4, <1>5, <1>6, <1>7, OtherSteps

LEMMA FirstsNext ==
  ASSUME TypeOK, Discipline, Remembered, NEW n \in Names, Asks(n), Firsts(n), [Next]_vars
  PROVE  Firsts(n)'
<1> USE ConstantTypes
<1>0. /\ n \in Keys /\ n # "velocity"
      /\ Ttl[n] = Burst /\ Burst \in Nat
      /\ now \in Nat
      /\ \A e \in Evaluations : at[e][n] <= now /\ at[e][n] \in Int
      /\ key[n].members \subseteq Evaluations
  BY TimeTypes, ActivityAssumption DEF Keys, Ttl, Discipline
<1>1. ASSUME NEW e \in Evaluations, Execute(e, n) PROVE Firsts(n)'
  <2>1. /\ now' = now /\ kept' = kept /\ n \in flight[e]
        /\ at'[e][n] = now
        /\ \A f \in Evaluations : f # e =>
             /\ at'[f][n] = at[f][n]
             /\ answer'[f][n] = answer[f][n]
    BY <1>0, <1>1 DEF Execute, TypeOK
  <2>2. ~First(e, n) /\ \A f \in Evaluations : f # e => (First(f, n)' = First(f, n))
    BY <1>0, <2>1 DEF First, Discipline
  <2>3. CASE Holds(n, Value(e, n))
    <3>1. answer'[e][n] = 0 /\ key'[n].members = key[n].members
      BY <1>0, <1>1, <2>3 DEF Execute, TypeOK
    <3>2. \A f \in Evaluations : First(f, n)' = First(f, n)
      BY <2>2, <3>1 DEF First
    <3>3. \A f \in Evaluations : First(f, n) => at'[f][n] = at[f][n]
      BY <2>1, <2>2
    <3> QED
      BY <1>0, <2>1, <3>1, <3>2, <3>3 DEF Firsts, Same
  <2>4. CASE ~Holds(n, Value(e, n))
    <3>1. answer'[e][n] = 1 /\ key'[n].members = key[n].members \cup {e}
      BY <1>0, <1>1, <2>4 DEF Execute, TypeOK
    <3>2. First(e, n)'
      BY <1>0, <2>1, <3>1 DEF First
    <3>3. ASSUME NEW g \in Evaluations, g # e, Same(g, e, n), First(g, n)
          PROVE  /\ g \notin key'[n].members
                 /\ at[g][n] < now
                 /\ now < at[g][n] + Burst => <<g, n>> \notin kept
      <4>1. \A f \in key[n].members : Value(f, n) # Value(e, n)
        BY <2>4 DEF Holds
      <4>2. Value(g, n) = Value(e, n)
        BY <3>3 DEF Same, Value
      <4>3. g \notin key[n].members
        BY <4>1, <4>2
      <4>4. at[g][n] # now
        BY <3>3, <4>3 DEF Firsts
      <4>5. now < at[g][n] + Burst => <<g, n>> \notin kept
        BY <1>0, <2>4, <3>3, <4>2 DEF Remembered, First
      <4> QED
        BY <1>0, <3>1, <3>3, <4>3, <4>4, <4>5
    <3>4. \A f \in key'[n].members : First(f, n)'
      BY <1>0, <2>2, <3>1, <3>2 DEF Firsts
    <3>5. \A f \in Evaluations : First(f, n)' /\ at'[f][n] = now =>
            f \in key'[n].members
      BY <2>1, <2>2, <3>1 DEF Firsts
    <3>6. ASSUME NEW f \in Evaluations, NEW g \in Evaluations, f # g, Same(f, g, n),
                 First(f, n)', First(g, n)', at'[f][n] <= at'[g][n]
          PROVE  /\ f \notin key'[n].members
                 /\ at'[f][n] < at'[g][n]
                 /\ at'[g][n] < at'[f][n] + Burst => <<f, n>> \notin kept
      <4>1. CASE g = e
        BY <2>1, <2>2, <3>3, <3>6, <4>1
      <4>2. CASE f = e
        <5>1. First(g, n) /\ Same(g, e, n) /\ at'[g][n] = at[g][n]
          BY <2>1, <2>2, <3>6, <4>2 DEF Same
        <5>2. at[g][n] < now /\ at[g][n] \in Int
          BY <1>0, <3>3, <3>6, <4>2, <5>1
        <5> QED
          BY <1>0, <2>1, <3>6, <4>2, <5>1, <5>2
      <4>3. CASE f # e /\ g # e
        BY <2>1, <2>2, <3>1, <3>6, <4>3 DEF Firsts
      <4> QED
        BY <4>1, <4>2, <4>3
    <3> QED
      BY <2>1, <3>4, <3>5, <3>6 DEF Firsts, Same
  <2> QED
    BY <2>3, <2>4
<1>2. ASSUME NEW e \in Evaluations, NEW k \in Keys, k # n, Execute(e, k) PROVE Firsts(n)'
  <2>1. /\ now' = now /\ kept' = kept
        /\ key'[n] = key[n]
        /\ \A f \in Evaluations : at'[f][n] = at[f][n]
        /\ \A f \in Evaluations : answer'[f][n] = answer[f][n]
    BY <1>0, <1>2 DEF Execute, TypeOK
  <2>2. \A f \in Evaluations : First(f, n)' = First(f, n)
    BY <2>1 DEF First
  <2> QED
    BY <1>0, <2>1, <2>2 DEF Firsts, Same
<1>3. ASSUME NEW e \in Evaluations, NEW k \in Keys, Refresh(e, k) PROVE Firsts(n)'
  <2>1. /\ UNCHANGED <<now, at, answer>>
        /\ key'[n].members = key[n].members
        /\ kept' = kept \/ (Survived(e, k) /\ kept' = kept \cup {<<e, k>>})
    BY <1>0, <1>3 DEF Refresh, TypeOK
  <2>2. \A f \in Evaluations : First(f, n)' = First(f, n)
    BY <2>1 DEF First
  <2>3. ASSUME NEW f \in Evaluations, e # f, Same(e, f, n), First(e, n), First(f, n),
               at[e][n] <= at[f][n], Survived(e, n)
        PROVE  FALSE
    <3>1. PICK g \in key[n].members :
            Same(g, e, n) /\ at[g][n] <= at[e][n]
      BY <2>3 DEF Survived, Value, Same
    <3>2. e \notin key[n].members
      BY <2>3 DEF Firsts
    <3>3. First(g, n) /\ g \in Evaluations
      BY <1>0, <3>1 DEF Firsts
    <3> QED
      BY <2>3, <3>1, <3>2, <3>3 DEF Firsts
  <2>4. ASSUME NEW f \in Evaluations, NEW g \in Evaluations, f # g, Same(f, g, n),
               First(f, n), First(g, n), at[f][n] <= at[g][n],
               at[g][n] < at[f][n] + Burst
        PROVE  <<f, n>> \notin kept'
    <3>1. <<f, n>> \notin kept
      BY <2>4 DEF Firsts
    <3>2. f = e /\ k = n => ~Survived(e, k)
      BY <2>3, <2>4
    <3> QED
      BY <2>1, <3>1, <3>2
  <2>5. /\ \A f \in key'[n].members : First(f, n)'
        /\ \A f \in Evaluations : First(f, n)' /\ at'[f][n] = now' =>
             f \in key'[n].members
    BY <2>1, <2>2, <1>0 DEF Firsts
  <2>6. ASSUME NEW f \in Evaluations, NEW g \in Evaluations, f # g, Same(f, g, n),
               First(f, n)', First(g, n)', at'[f][n] <= at'[g][n]
        PROVE  /\ f \notin key'[n].members
               /\ at'[f][n] < at'[g][n]
               /\ at'[g][n] < at'[f][n] + Burst => <<f, n>> \notin kept'
    <3>1. First(f, n) /\ First(g, n) /\ at[f][n] <= at[g][n]
      BY <2>1, <2>2, <2>6
    <3>2. f \notin key[n].members /\ at[f][n] < at[g][n]
      BY <2>6, <3>1 DEF Firsts
    <3> QED
      BY <2>1, <2>4, <2>6, <3>1, <3>2
  <2> QED
    BY <2>5, <2>6 DEF Firsts, Same
<1>4. CASE Tick
  <2>1. /\ now' = now + 1 /\ UNCHANGED <<at, answer, kept>>
        /\ key'[n].members \subseteq key[n].members
    BY <1>0, <1>4 DEF Tick, TypeOK, history
  <2>2. \A f \in Evaluations : (First(f, n)' = First(f, n)) /\ at[f][n] # now + 1
    BY <1>0, <2>1 DEF First
  <2> QED
    BY <1>0, <2>1, <2>2 DEF Firsts, Same
<1>5. ASSUME UNCHANGED <<now, key, answer, at, kept>> PROVE Firsts(n)'
  BY <1>5 DEF Firsts, First, Same
<1>6. ASSUME NEW e \in Evaluations,
             \/ Load(e) \/ Create(e) \/ Break(e) \/ Judge(e) \/ Cancel(e)
             \/ FillCache(e) \/ Update(e)
      PROVE  UNCHANGED <<now, key, answer, at, kept>>
  BY <1>6, LoadSteps DEF Break, Judge, Cancel, FillCache, Update, redis, history
<1> QED
  BY <1>1, <1>2, <1>3, <1>4, <1>5, <1>6, OtherSteps

NameInv(n) == Origins(n) /\ Asks(n) /\ Firsts(n)

Inv ==
  /\ TypeOK /\ Asked /\ Discipline /\ Remembered
  /\ \A n \in Names : NameInv(n)

LEMMA InvInit == Init => Inv
<1> SUFFICES ASSUME Init PROVE Inv
  OBVIOUS
<1>1. ASSUME NEW n \in Names PROVE NameInv(n)
  <2>1. n \in Keys
    BY DEF Keys
  <2>2. \A e \in Evaluations :
          /\ at[e][n] = Never /\ answer[e][n] = Never /\ flight[e] = {}
          /\ pc[e] = "idle" /\ seen[e].known[n] = {} /\ counted[e] = Never
    BY <2>1 DEF Init, Unread, Nothing
  <2>3. Origins(n)
    BY <2>2 DEF Init, Origins, Blank, Nothing
  <2>4. Asks(n)
    BY <2>2, ConstantTypes DEF Asks
  <2>5. Firsts(n)
    BY <2>1, <2>2 DEF Init, Firsts, First
  <2> QED
    BY <2>3, <2>4, <2>5 DEF NameInv
<1>2. Asked /\ Remembered
  BY DEF Init, Asked, Remembered
<1> QED
  BY <1>1, <1>2, TypeInit, DisciplineInit DEF Inv

LEMMA InvNext == Inv /\ [Next]_vars => Inv'
<1> SUFFICES ASSUME Inv, [Next]_vars PROVE Inv'
  OBVIOUS
<1>1. ASSUME NEW n \in Names PROVE NameInv(n)'
  BY OriginsNext, AsksNext, FirstsNext DEF Inv, NameInv
<1>2. TypeOK' /\ Asked' /\ Discipline' /\ Remembered'
  BY TypeNext, AskedNext, DisciplineNext, RememberedNext DEF Inv
<1> QED
  BY <1>1, <1>2 DEF Inv

(* FlaggedOnce: of any number of evaluations that name one device, or      *)
(* receiver, in any order, two that flag it as new are a whole burst apart,*)
(* unless the TTL task of the first came after the set had expired, or     *)
(* never.                                                                  *)
THEOREM FlaggedOnce == Spec => []FlaggedOncePerBurst
<1>1. Inv => FlaggedOncePerBurst
  <2> SUFFICES ASSUME Inv, NEW e \in Evaluations, NEW f \in Evaluations, NEW n \in Names,
                      e # f, Txn[e][n] = Txn[f][n], Flagged(e, n), Flagged(f, n),
                      <<e, n>> \in kept, at[f][n] >= at[e][n]
               PROVE  at[f][n] >= at[e][n] + Burst
    BY DEF FlaggedOncePerBurst
  <2>1. \A g \in Evaluations : Flagged(g, n) => First(g, n)
    <3> SUFFICES ASSUME NEW g \in Evaluations, Flagged(g, n) PROVE First(g, n)
      OBVIOUS
    <3>1. n \in Keys
      BY DEF Keys
    <3>2. at[g][n] # Never /\ answer[g][n] # Never
      BY <3>1 DEF Flagged, Inv, Discipline
    <3>3. New(seen[g], g, n) /\ (g \in broken \/ answer[g][n] # 0)
      BY DEF Flagged, Judged, Inv, NameInv, Asks
    <3>4. answer[g][n] # 0
      BY <3>3 DEF Flagged
    <3>5. answer[g][n] \in {Never, 0, 1}
      BY DEF Inv, NameInv, Asks
    <3> QED
      BY <3>2, <3>4, <3>5 DEF First
  <2>2. at[e][n] \in Int /\ at[f][n] \in Int /\ Burst \in Int
    BY TimeTypes, ActivityAssumption DEF Inv, Keys
  <2> QED
    BY <2>1, <2>2 DEF Inv, NameInv, Firsts, Same
<1> QED
  BY <1>1, InvInit, InvNext, PTL DEF Spec

(* NothingIsLaundered: a device, or a receiver, that the rules are told is *)
(* known was named by another transaction, one it was learned from, one    *)
(* that flagged it or is about to, or one that was cancelled, for any      *)
(* number of evaluations and whatever fails.                               *)
THEOREM NothingIsLaundered == Spec => []KnownWasSeen
<1>1. Inv => KnownWasSeen
  <2> SUFFICES ASSUME Inv, NEW e \in Evaluations, NEW n \in Names,
                      Judged(e), n \notin judged[e].new, Txn[e][n] # NoDevice
               PROVE  \E f \in Evaluations \ {e} :
                        /\ Txn[f][n] = Txn[e][n]
                        /\ \/ n \in Carried /\ counted[f] # Never
                           \/ /\ at[f][n] # Never
                              /\ pc[f] \in {"gather", "abandoned"} \/ n \in judged[f].new
    BY DEF KnownWasSeen
  <2>1. CASE Txn[e][n] \in seen[e].known[n]
    BY <2>1 DEF Inv, NameInv, Origins, Same
  <2>2. CASE Txn[e][n] \notin seen[e].known[n]
    <3>1. New(seen[e], e, n)
      BY <2>2 DEF New
    <3>2. answer[e][n] = 0
      BY <3>1 DEF Inv, NameInv, Asks, Judged
    <3>3. PICK f \in Evaluations \ {e} : Same(e, f, n) /\ First(f, n)
      BY <3>2 DEF Inv, NameInv, Asks
    <3>4. at[f][n] # Never /\ New(seen[f], f, n)
      BY <3>3 DEF Inv, NameInv, Asks, First
    <3>5. pc[f] \in {"gather", "abandoned", "done"}
      BY <3>3, <3>4 DEF Inv, Discipline, TypeOK, Steps, Keys
    <3>6. answer[f][n] # 0
      BY <3>3 DEF First
    <3>7. pc[f] = "done" => n \in judged[f].new
      BY <3>4, <3>6 DEF Inv, NameInv, Asks
    <3> QED
      BY <3>3, <3>4, <3>5, <3>7 DEF Same
  <2> QED
    BY <2>1, <2>2
<1> QED
  BY <1>1, InvInit, InvNext, PTL DEF Spec

=============================================================================

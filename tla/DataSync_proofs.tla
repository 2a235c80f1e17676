--------------------------- MODULE DataSync_proofs --------------------------
(***************************************************************************)
(* Theorems about DataSync for every store, cache and content of Redis,    *)
(* all entities, classes and versions, and any number of loads, changes    *)
(* and crashes.                                                            *)
(***************************************************************************)
EXTENDS DataSync, FiniteSetTheorems, SequenceTheorems, TLAPS

(* The tasks of the pool; a write is of one class.                         *)
Written == UNION {[InClass(c) -> Objects \cup {None}] : c \in Classes}
Work    == {LoadTask} \cup [kind : {"read"}, classes : SUBSET Classes]
             \cup [kind : {"write"}, objects : Written]
Partial(f, S) == DOMAIN f \subseteq Entities /\ \A e \in DOMAIN f : f[e] \in S
Tell    == [entity : Entities, action : {"UPDATE", "DELETE"}]

(* What TypeOK does not say of the data that are passed on.                *)
DataTyped ==
  /\ tasks \in Seq(Work)
  /\ Partial(answer, Versions \cup {None})
  /\ DOMAIN plan = {"load", "change"} /\ \A t \in DOMAIN plan : Partial(plan[t], Objects)
  /\ notices \subseteq Tell
  /\ cpc # "idle" => subject \in Entities
TypeInv == TypeOK /\ DataTyped

-----------------------------------------------------------------------------
(* Sequences of tasks, and maps                                            *)

LEMMA RemoveAtFacts ==
  ASSUME NEW S, NEW s \in Seq(S), NEW i \in DOMAIN s
  PROVE  /\ RemoveAt(s, i) \in Seq(S) /\ Len(RemoveAt(s, i)) = Len(s) - 1
         /\ \A n \in 1..(Len(s) - 1) :
              RemoveAt(s, i)[n] = IF n < i THEN s[n] ELSE s[n + 1]
<1> DEFINE a == SubSeq(s, 1, i - 1)
           b == SubSeq(s, i + 1, Len(s))
<1>1. Len(s) \in Nat /\ i \in 1..Len(s) /\ i \in Nat
  OBVIOUS
<1>2. /\ a \in Seq(S) /\ Len(a) = i - 1
      /\ \A n \in 1..(i - 1) : a[n] = s[n]
  BY <1>1
<1>3. /\ b \in Seq(S) /\ Len(b) = Len(s) - i
      /\ \A n \in 1..(Len(s) - i) : b[n] = s[n + i]
  BY <1>1
<1>4. RemoveAt(s, i) = a \o b
  BY DEF RemoveAt
<1> HIDE DEF a, b
<1>5. a \o b \in Seq(S) /\ Len(a \o b) = Len(s) - 1
  BY <1>1, <1>2, <1>3
<1>6. ASSUME NEW n \in 1..(Len(s) - 1)
      PROVE  (a \o b)[n] = IF n < i THEN s[n] ELSE s[n + 1]
  <2>1. CASE n < i
    <3>1. n \in 1..Len(a)
      BY <1>1, <1>2, <2>1
    <3>2. (a \o b)[n] = a[n]
      BY <1>2, <1>3, <3>1
    <3> QED BY <1>2, <2>1, <3>1, <3>2
  <2>2. CASE n >= i
    <3> DEFINE m == n - i + 1
    <3>1. m \in 1..(Len(s) - i) /\ m = n - Len(a) /\ m + i = n + 1
      BY <1>1, <1>2, <2>2
    <3>2. ~(n <= Len(a)) /\ n \in 1..(Len(a) + Len(b))
      BY <1>1, <1>2, <1>3, <2>2
    <3>3. (a \o b)[n] = b[n - Len(a)]
      BY <1>2, <1>3, <3>2, ConcatProperties
    <3> HIDE DEF m
    <3>4. b[m] = s[n + 1]
      BY <1>3, <3>1
    <3>5. ~(n < i)
      BY <1>1, <2>2
    <3>6. (a \o b)[n] = s[n + 1]
      BY <3>1, <3>3, <3>4
    <3> QED BY <3>5, <3>6
  <2>3. n < i \/ n >= i
    BY <1>1
  <2> QED BY <2>1, <2>2, <2>3
<1> QED BY <1>4, <1>5, <1>6

LEMMA RemoveAtSet ==
  ASSUME NEW S, NEW s \in Seq(S), NEW i \in DOMAIN s
  PROVE  /\ ToSet(RemoveAt(s, i)) \subseteq ToSet(s)
         /\ ToSet(s) \subseteq ToSet(RemoveAt(s, i)) \cup {s[i]}
<1>1. /\ RemoveAt(s, i) \in Seq(S) /\ Len(RemoveAt(s, i)) = Len(s) - 1
      /\ \A n \in 1..(Len(s) - 1) : RemoveAt(s, i)[n] = IF n < i THEN s[n] ELSE s[n + 1]
  BY RemoveAtFacts
<1>2. Len(s) \in Nat /\ i \in 1..Len(s) /\ DOMAIN s = 1..Len(s)
  OBVIOUS
<1>3. DOMAIN RemoveAt(s, i) = 1..(Len(s) - 1)
  BY <1>2, <1>1
<1>4. ASSUME NEW n \in DOMAIN RemoveAt(s, i) PROVE \E m \in DOMAIN s : RemoveAt(s, i)[n] = s[m]
  BY <1>2, <1>1, <1>3
<1>5. ASSUME NEW m \in DOMAIN s, m # i PROVE \E n \in DOMAIN RemoveAt(s, i) : RemoveAt(s, i)[n] = s[m]
  <2>1. CASE m < i
    BY <1>2, <1>1, <1>3, <2>1
  <2>2. CASE m > i
    <3>1. m - 1 \in 1..(Len(s) - 1) /\ ~(m - 1 < i) /\ (m - 1) + 1 = m
      BY <1>2, <1>1, <2>2
    <3> QED BY <1>2, <1>1, <1>3, <3>1
  <2> QED BY <1>2, <1>1, <1>5, <2>1, <2>2
<1> QED BY <1>4, <1>5 DEF ToSet

LEMMA AppendSet ==
  ASSUME NEW S, NEW s \in Seq(S), NEW t \in S
  PROVE  Append(s, t) \in Seq(S) /\ ToSet(Append(s, t)) = ToSet(s) \cup {t}
<1>1. /\ Append(s, t) \in Seq(S) /\ Len(s) \in Nat /\ DOMAIN s = 1..Len(s)
      /\ DOMAIN Append(s, t) = 1..(Len(s) + 1) /\ Append(s, t)[Len(s) + 1] = t
      /\ \A n \in 1..Len(s) : Append(s, t)[n] = s[n]
  OBVIOUS
<1>2. ASSUME NEW x PROVE x \in ToSet(Append(s, t)) <=> x \in ToSet(s) \cup {t}
  BY <1>1 DEF ToSet
<1> QED BY <1>1, <1>2

LEMMA ConcatSet ==
  ASSUME NEW S, NEW s \in Seq(S), NEW t \in Seq(S)
  PROVE  s \o t \in Seq(S) /\ ToSet(s \o t) = ToSet(s) \cup ToSet(t)
<1>1. /\ s \o t \in Seq(S) /\ Len(s) \in Nat /\ Len(t) \in Nat
      /\ DOMAIN s = 1..Len(s) /\ DOMAIN t = 1..Len(t)
      /\ DOMAIN (s \o t) = 1..(Len(s) + Len(t))
      /\ \A n \in 1..Len(s) : (s \o t)[n] = s[n]
      /\ \A n \in 1..Len(t) : (s \o t)[Len(s) + n] = t[n]
  OBVIOUS
<1>2. ASSUME NEW n \in DOMAIN (s \o t)
      PROVE  (s \o t)[n] \in ToSet(s) \cup ToSet(t)
  <2>1. CASE n <= Len(s)
    BY <1>1, <2>1 DEF ToSet
  <2>2. CASE n > Len(s)
    <3>1. n - Len(s) \in 1..Len(t) /\ n = Len(s) + (n - Len(s))
      BY <1>1, <2>2
    <3> QED BY <1>1, <3>1 DEF ToSet
  <2> QED BY <1>1, <2>1, <2>2
<1>3. \A n \in DOMAIN s : s[n] \in ToSet(s \o t)
  BY <1>1 DEF ToSet
<1>4. ASSUME NEW n \in DOMAIN t PROVE t[n] \in ToSet(s \o t)
  <2>1. Len(s) + n \in DOMAIN (s \o t)
    BY <1>1
  <2> QED BY <1>1, <2>1 DEF ToSet
<1> QED BY <1>1, <1>2, <1>3, <1>4 DEF ToSet

(* An order of some classes is a sequence of them.                         *)
LEMMA Orders ==
  ASSUME NEW q \in SetToAllKPermutations(Classes)
  PROVE  q \in Seq(Classes)
<1>1. PICK s \in SUBSET Classes : q \in SetToSeqs(s)
  BY DEF SetToAllKPermutations
<1>2. Cardinality(s) \in Nat
  BY FS_Subset, FS_CardinalityType, DataSyncAssumption
<1>3. q \in [1..Cardinality(s) -> s]
  BY <1>1 DEF SetToSeqs
<1> QED BY <1>2, <1>3

LEMMA OverrideType ==
  ASSUME NEW m \in Maps, NEW f, \A e \in DOMAIN f \cap Entities : f[e] \in Objects \cup {None}
  PROVE  Override(m, f) \in Maps
BY DEF Override, Maps

LEMMA WriteTaskType ==
  ASSUME NEW m \in Maps, NEW c \in Classes
  PROVE  /\ WriteTask(m, c) \in Work /\ WriteTask(m, c).kind = "write"
         /\ WriteTask(m, c).objects = [e \in InClass(c) |-> m[e]]
<1>1. [e \in InClass(c) |-> m[e]] \in [InClass(c) -> Objects \cup {None}]
  BY DEF Maps, InClass
<1> QED BY <1>1 DEF WriteTask, Work, Written

LEMMA TaskOfWork ==
  ASSUME NEW t \in Work
  PROVE  /\ t.kind \in {"load", "read", "write"}
         /\ t.kind = "write" => \E c \in Classes : t.objects \in [InClass(c) -> Objects \cup {None}]
BY DEF Work, Written, LoadTask

LEMMA ReadTaskType ==
  ASSUME NEW C \in SUBSET Classes
  PROVE  ReadTask(C) \in Work /\ ReadTask(C).kind = "read" /\ ReadTask(C).classes = C
BY DEF Work, ReadTask

LEMMA WorkTyped ==
  ASSUME NEW q \in Seq(Work), NEW i \in DOMAIN q, q[i].kind = "write"
  PROVE  \E c \in Classes : DOMAIN q[i].objects = InClass(c)
<1>1. q[i] \in Work
  OBVIOUS
<1> QED BY <1>1, TaskOfWork

LEMMA NothingType == Nothing \in Maps
BY DEF Nothing, Maps

LEMMA WriteTasksType ==
  ASSUME NEW m \in Maps, NEW q \in Seq(Classes)
  PROVE  WriteTasks(m, q) \in Seq(Work)
<1>1. ASSUME NEW i \in DOMAIN q PROVE WriteTask(m, q[i]) \in Work
  <2>1. q[i] \in Classes
    BY <1>1
  <2> QED BY <2>1, WriteTaskType
<1> QED BY <1>1 DEF WriteTasks

-----------------------------------------------------------------------------
(* Types                                                                   *)

(* What a step changes and what it leaves, for its type.                   *)
StateTyped ==
  /\ handler \in Handlers /\ store \in [Entities -> Versions \cup {None}] /\ notices \subseteq Tell
MapsTyped  == cache \in Maps /\ redis \in Maps /\ es \in Maps /\ loaded \in Maps
LoadTyped  ==
  /\ lpc \in {"idle", "queued", "reading", "loaded", "begin", "class", "compare",
              "keys", "allkeys", "elastic", "index"}
  /\ old \subseteq Entities \X Objects /\ todo \subseteq Classes /\ changed \in BOOLEAN
  /\ Partial(answer, Versions \cup {None})
ChangeTyped ==
  /\ cpc \in {"idle", "delkeys", "unindex", "save", "keys", "elastic", "index"}
  /\ subject \in Entities \cup {None}
  /\ cpc # "idle" => subject \in Entities
PlanTyped ==
  DOMAIN plan = {"load", "change"} /\ \A t \in DOMAIN plan : Partial(plan[t], Objects)
KeysTyped == keys \subseteq Classes /\ saving \in [{"load", "change"} -> SUBSET Classes]
RestTyped == appState \in 0..2 /\ steady \in BOOLEAN /\ calm \in 0..2
Parts == /\ StateTyped /\ MapsTyped /\ tasks \in Seq(Work) /\ LoadTyped /\ ChangeTyped
         /\ PlanTyped /\ KeysTyped /\ RestTyped

LEMMA TypeParts == TypeInv <=> Parts
<1>1. TypeInv => Parts
  BY DEF TypeInv, TypeOK, DataTyped, Parts, StateTyped, MapsTyped, LoadTyped, ChangeTyped,
         PlanTyped, KeysTyped, RestTyped
<1>2. Parts => TypeInv
  BY WorkTyped DEF TypeInv, TypeOK, DataTyped, Parts, StateTyped, MapsTyped, LoadTyped, ChangeTyped,
         PlanTyped, KeysTyped, RestTyped
<1> QED BY <1>1, <1>2


LEMMA InitType == Init => TypeInv
<1> SUFFICES ASSUME Init PROVE Parts
  BY TypeParts
<1>1. LoadTask \in Work
  BY DEF Work
<1>2. tasks \in Seq(Work)
  BY <1>1 DEF Init
<1>3. MapsTyped
  BY NothingType DEF Init, MapsTyped
<1>4. StateTyped
  BY DEF Init, StateTyped
<1>5. Partial(answer, Versions \cup {None}) /\ PlanTyped
  BY DEF Init, PlanTyped, Partial
<1>8. changed \in BOOLEAN /\ steady \in BOOLEAN
  BY DEF Init
<1>9. LoadTyped
  BY <1>5, <1>8 DEF Init, LoadTyped
<1>6. ChangeTyped
  BY DEF Init, ChangeTyped
<1>7. RestTyped
  BY <1>8 DEF Init, RestTyped
<1>10. KeysTyped
  BY DEF Init, KeysTyped
<1> QED BY <1>2, <1>3, <1>4, <1>5, <1>6, <1>7, <1>9, <1>10 DEF Parts

(* A part that a step leaves alone keeps its type.                         *)
LEMMA Kept ==
  /\ StateTyped /\ UNCHANGED <<handler, store, notices>> => StateTyped'
  /\ MapsTyped /\ UNCHANGED <<cache, redis, es, loaded>> => MapsTyped'
  /\ LoadTyped /\ UNCHANGED <<lpc, old, todo, changed, answer>> => LoadTyped'
  /\ ChangeTyped /\ UNCHANGED <<cpc, subject>> => ChangeTyped'
  /\ PlanTyped /\ UNCHANGED plan => PlanTyped'
  /\ KeysTyped /\ UNCHANGED keyVars => KeysTyped'
  /\ RestTyped /\ UNCHANGED <<appState, steady, calm>> => RestTyped'
BY DEF StateTyped, MapsTyped, LoadTyped, ChangeTyped, PlanTyped, KeysTyped, RestTyped, Partial,
       keyVars

LEMMA StutterType == TypeInv /\ UNCHANGED vars => TypeInv'
<1> SUFFICES ASSUME Parts, UNCHANGED vars PROVE Parts'
  BY TypeParts, PTL
<1> QED BY Kept DEF Parts, vars, envVars, loadVars, changeVars, history

LEMMA ReadKeysType ==
  ASSUME KeysTyped, NEW t \in {"load", "change"}, NEW C \in SUBSET Classes, ReadKeys(t, C)
  PROVE  KeysTyped'
BY DEF KeysTyped, ReadKeys

LEMMA EndLoadType ==
  ASSUME Parts, EndLoad PROVE LoadTyped' /\ loaded' \in Maps
<1>1. changed' \in BOOLEAN
  BY DEF EndLoad
<1>2. Partial(answer, Versions \cup {None})'
  BY DEF EndLoad, Partial
<1> QED BY <1>1, <1>2, NothingType DEF EndLoad, LoadTyped

LEMMA PoolType ==
  ASSUME Parts, NEW i \in 1..Threads, StartLoad(i) \/ ReadRedis(i) \/ WriteRedis(i)
  PROVE  Parts'
<1>1. i \in DOMAIN tasks /\ RemoveAt(tasks, i) \in Seq(Work)
  BY RemoveAtFacts DEF Parts, StartLoad, ReadRedis, WriteRedis, Runs
<1>2. CASE StartLoad(i)
  <2>1. ReadTask(keys) \in Work
    BY ReadTaskType DEF Parts, KeysTyped
  <2>2. tasks' \in Seq(Work)
    BY <1>1, <1>2, <2>1 DEF StartLoad
  <2>3. LoadTyped'
    BY <1>2 DEF Parts, StartLoad, LoadTyped, Partial
  <2>4. RestTyped'
    BY <1>2 DEF Parts, StartLoad, RestTyped
  <2> QED BY <1>2, <2>2, <2>3, <2>4, Kept DEF Parts, StartLoad, envVars, changeVars
<1>3. CASE ReadRedis(i)
  <2>1. tasks' \in Seq(Work)
    BY <1>1, <1>3 DEF ReadRedis
  <2>2. LoadTyped'
    BY <1>3 DEF Parts, ReadRedis, LoadTyped, Partial
  <2>4. loaded' \in Maps
    <3>1. redis \in [Entities -> Objects \cup {None}]
      BY DEF Parts, MapsTyped, Maps
    <3> QED BY <1>3, <3>1 DEF ReadRedis, Maps
  <2>3. MapsTyped'
    BY <1>3, <2>4 DEF Parts, ReadRedis, MapsTyped
  <2> QED BY <1>3, <2>1, <2>2, <2>3, Kept DEF Parts, ReadRedis, envVars, changeVars, history
<1>4. CASE WriteRedis(i)
  <2>1. tasks' \in Seq(Work)
    BY <1>1, <1>4 DEF WriteRedis
  <2>2. tasks[i] \in Work /\ tasks[i].kind = "write"
    BY <1>1, <1>4 DEF WriteRedis, Runs, Parts
  <2>3. PICK c \in Classes : tasks[i].objects \in [InClass(c) -> Objects \cup {None}]
    BY <2>2, TaskOfWork
  <2>4. redis' \in Maps
    BY <1>4, <2>3, OverrideType DEF WriteRedis, Parts, MapsTyped
  <2>5. MapsTyped'
    BY <1>4, <2>4 DEF Parts, WriteRedis, MapsTyped, loadVars
  <2> QED BY <1>4, <2>1, <2>5, Kept DEF Parts, WriteRedis, envVars, loadVars, changeVars, history
<1> QED BY <1>2, <1>3, <1>4


LEMMA DisturbType == ASSUME Disturb, appState' \in 0..2 PROVE RestTyped'
<1>1. steady' \in BOOLEAN
  BY DEF Disturb
<1> QED BY <1>1 DEF Disturb, RestTyped

LEMMA InstallType == ASSUME Parts, Install PROVE Parts'
<1>1. appState' \in 0..2
  BY DEF Parts, RestTyped, Install
<1>2. RestTyped'
  <2>1. CASE UNCHANGED history
    BY <1>1, <2>1 DEF Parts, RestTyped, history
  <2> QED BY <1>1, <2>1, DisturbType DEF Install
<1>3. MapsTyped'
  BY NothingType DEF Parts, Install, MapsTyped
<1>4. LoadTyped'
  BY DEF Parts, Install, LoadTyped, Partial
<1> QED BY <1>2, <1>3, <1>4, Kept DEF Parts, Install, envVars, changeVars

LEMMA BeginType == ASSUME Parts, BeginUpdate PROVE Parts'
<1>1. old' \subseteq Entities \X Objects
  BY DEF Parts, BeginUpdate, MapsTyped, Maps, Present
<1>2. todo' \subseteq Classes
  BY DataSyncAssumption DEF Parts, BeginUpdate, Present
<1>3. changed' \in BOOLEAN
  BY DEF BeginUpdate
<1>4. LoadTyped'
  BY <1>1, <1>2, <1>3 DEF Parts, BeginUpdate, LoadTyped, Partial
<1> QED BY <1>4, Kept DEF Parts, BeginUpdate, envVars, changeVars, history

LEMMA FetchType ==
  ASSUME Parts, NEW c \in Classes, FetchClass(c) PROVE Parts'
<1>1. Partial(answer, Versions \cup {None})'
  BY DEF Parts, StateTyped, FetchClass, Partial, InClass
<1>2. LoadTyped'
  BY <1>1 DEF Parts, FetchClass, LoadTyped
<1> QED BY <1>2, Kept DEF Parts, FetchClass, envVars, changeVars, history

(* What a comparison does to the cache, to old and to the tasks.           *)
LEMMA UpdateType ==
  ASSUME Parts, NEW got, NEW kept, DOMAIN got \subseteq Entities,
         \A e \in DOMAIN got : got[e] \in Objects, Update(got, kept)
  PROVE  /\ cache' \in Maps /\ tasks' \in Seq(Work)
         /\ old' \subseteq Entities \X Objects /\ changed' \in BOOLEAN
         /\ KeysTyped' /\ lpc' \in {"class", "keys"}
<1>1. cache' \in Maps
  BY OverrideType DEF Parts, MapsTyped, Update, PutClass
<1>2. old' \subseteq Entities \X Objects
  BY DEF Parts, LoadTyped, Update, PutClass
<1>3. changed' \in BOOLEAN
  BY DEF Update, PutClass
<1>4. tasks' \in Seq(Work) /\ KeysTyped' /\ lpc' \in {"class", "keys"}
  <2>1. CASE DOMAIN got = {}
    BY <2>1, Kept DEF Parts, Update, PutClass
  <2>2. CASE DOMAIN got # {}
    <3> DEFINE e == CHOOSE e \in DOMAIN got : TRUE
    <3>1. e \in Entities
      BY <2>2
    <3>2. ClassOf[e] \in Classes
      BY <3>1, DataSyncAssumption
    <3>3. WriteTask(cache', ClassOf[e]) \in Work
      BY <1>1, <3>2, WriteTaskType
    <3>4. /\ tasks' = Append(tasks, WriteTask(cache', ClassOf[e]))
          /\ ReadKeys("load", {ClassOf[e]}) /\ lpc' = "keys"
      BY <2>2 DEF Update, PutClass
    <3> HIDE DEF e
    <3>5. KeysTyped'
      BY <3>2, <3>4, ReadKeysType DEF Parts
    <3> QED BY <3>3, <3>4, <3>5, AppendSet DEF Parts
  <2> QED BY <2>1, <2>2
<1> QED BY <1>1, <1>2, <1>3, <1>4

LEMMA CompareType == ASSUME Parts, CompareFuseki \/ CompareTrellis PROVE Parts'
<1>1. PICK got, kept :
        /\ DOMAIN got \subseteq Entities /\ \A e \in DOMAIN got : got[e] \in Objects
        /\ Update(got, kept) /\ (UNCHANGED history \/ Disturb)
  <2>1. CASE CompareFuseki
    <3>1. PICK K \in SUBSET Listed :
            /\ Update([e \in K \ Same |-> answer[e]], K \cap Same)
            /\ IF K = Listed THEN UNCHANGED history ELSE Disturb
      BY <2>1 DEF CompareFuseki
    <3> DEFINE got == [e \in K \ Same |-> answer[e]]
    <3>2. DOMAIN got \subseteq Entities /\ \A e \in DOMAIN got : got[e] \in Objects
      BY DEF Parts, LoadTyped, Partial, Listed, Objects
    <3> QED BY <3>1, <3>2
  <2>2. CASE CompareTrellis
    <3>1. PICK got \in Answers :
            /\ Update(got, Whole)
            /\ IF DOMAIN got = Listed \ Whole /\ \A e \in DOMAIN got : got[e] # Blank
                 THEN UNCHANGED history ELSE Disturb
      BY <2>2 DEF CompareTrellis
    <3>2. PICK G \in SUBSET (Listed \ Whole) :
            got \in {g \in [G -> Objects] : \A e \in G : g[e] \in {answer[e], Blank}}
      BY DEF Answers
    <3>3. DOMAIN got \subseteq Entities /\ \A e \in DOMAIN got : got[e] \in Objects
      BY <3>2 DEF Parts, LoadTyped, Partial, Listed
    <3> QED BY <3>1, <3>3
  <2> QED BY <2>1, <2>2
<1>2. /\ cache' \in Maps /\ tasks' \in Seq(Work)
      /\ old' \subseteq Entities \X Objects /\ changed' \in BOOLEAN
      /\ KeysTyped' /\ lpc' \in {"class", "keys"}
  BY <1>1, UpdateType
<1>3. /\ answer' = <<>>
      /\ UNCHANGED <<envVars, redis, es, loaded, todo, changeVars, plan, appState>>
  BY DEF CompareFuseki, CompareTrellis
<1>4. LoadTyped'
  BY <1>2, <1>3 DEF Parts, LoadTyped, Partial
<1>5. MapsTyped'
  BY <1>2, <1>3 DEF Parts, MapsTyped
<1>6. RestTyped'
  <2>1. CASE UNCHANGED history
    BY <1>3, <2>1 DEF Parts, RestTyped, history
  <2> QED BY <1>1, <1>3, <2>1, DisturbType DEF Parts, RestTyped
<1> QED BY <1>2, <1>3, <1>4, <1>5, <1>6, Kept DEF Parts, envVars, changeVars

LEMMA BreaksType == ASSUME Parts, CompareBreaks PROVE Parts'
<1>1. PICK got \in Answers : cache' = Override(cache, got)
  BY DEF CompareBreaks
<1>2. PICK G \in SUBSET (Listed \ Whole) :
        got \in {g \in [G -> Objects] : \A e \in G : g[e] \in {answer[e], Blank}}
  BY DEF Answers
<1>3. cache' \in Maps
  BY <1>1, <1>2, OverrideType DEF Parts, MapsTyped
<1>4. LoadTyped' /\ loaded' \in Maps
  BY EndLoadType DEF CompareBreaks
<1>5. MapsTyped'
  BY <1>3, <1>4 DEF Parts, MapsTyped, CompareBreaks
<1>6. RestTyped'
  BY DisturbType DEF Parts, RestTyped, CompareBreaks
<1> QED BY <1>4, <1>5, <1>6, Kept DEF Parts, CompareBreaks, envVars, changeVars


LEMMA RemoveType == ASSUME Parts, RemoveMissing PROVE Parts'
<1> DEFINE gone == [e \in {o[1] : o \in old} |-> None]
           next == Override(cache, gone)
<1>1. next \in Maps
  BY OverrideType DEF Parts, MapsTyped
<1>2. cache' \in Maps
  BY <1>1 DEF RemoveMissing, Parts, MapsTyped
<1> HIDE DEF next
<1>3. tasks' \in Seq(Work)
  <2>1. CASE changed \/ old # {}
    <3>1. PICK q \in SetToAllKPermutations(Classes) : tasks' = tasks \o WriteTasks(next, q)
      BY <2>1 DEF RemoveMissing, next
    <3>2. WriteTasks(next, q) \in Seq(Work)
      BY <1>1, Orders, WriteTasksType
    <3> QED BY <3>1, <3>2, ConcatSet DEF Parts
  <2> QED BY <2>1 DEF RemoveMissing, Parts
<1>4. /\ old' = {} /\ appState' \in {appState, 2} /\ lpc' \in {"allkeys", "elastic"}
      /\ UNCHANGED <<envVars, redis, es, loaded, todo, answer, changed, changeVars, plan, history>>
  BY DEF RemoveMissing
<1>8. KeysTyped'
  <2>1. CASE changed \/ old # {}
    <3>1. PICK q \in SetToAllKPermutations(Classes) : ReadKeys("load", ToSet(q))
      BY <2>1 DEF RemoveMissing
    <3>2. ToSet(q) \subseteq Classes
      BY Orders DEF ToSet
    <3> QED BY <3>1, <3>2, ReadKeysType DEF Parts
  <2> QED BY <2>1, Kept DEF RemoveMissing, Parts
<1>5. MapsTyped'
  BY <1>2, <1>4 DEF Parts, MapsTyped
<1>6. LoadTyped'
  BY <1>4 DEF Parts, LoadTyped, Partial
<1>7. RestTyped'
  BY <1>4 DEF Parts, RestTyped, history
<1> QED BY <1>3, <1>4, <1>5, <1>6, <1>7, <1>8, Kept DEF Parts, envVars, changeVars

LEMMA KeysType ==
  ASSUME Parts, NEW t \in {"load", "change"}, WriteKeys(t) PROVE Parts'
<1>1. KeysTyped'
  BY DEF Parts, KeysTyped, WriteKeys
<1>2. LoadTyped'
  BY DEF Parts, LoadTyped, WriteKeys, Partial
<1>3. ChangeTyped'
  BY DEF Parts, ChangeTyped, WriteKeys
<1>4. RestTyped'
  <2>1. appState' \in 0..2
    BY DEF Parts, RestTyped, WriteKeys
  <2>2. CASE UNCHANGED history
    BY <2>1, <2>2 DEF Parts, RestTyped, history
  <2> QED BY <2>1, <2>2, DisturbType DEF WriteKeys
<1> QED BY <1>1, <1>2, <1>3, <1>4, Kept DEF Parts, WriteKeys, envVars

LEMMA FailsType == ASSUME Parts, LoadFails PROVE Parts'
<1>1. LoadTyped' /\ loaded' \in Maps
  BY EndLoadType DEF LoadFails
<1>2. MapsTyped'
  BY <1>1 DEF Parts, MapsTyped, LoadFails
<1>3. RestTyped'
  BY DisturbType DEF Parts, RestTyped, LoadFails
<1> QED BY <1>1, <1>2, <1>3, Kept DEF Parts, LoadFails, envVars, changeVars

LEMMA PlanType ==
  ASSUME Parts, NEW t \in {"load", "change"}, ElasticPlan(t) PROVE Parts'
<1>1. Partial(MissingInElastic, Objects)
  BY DEF Parts, MapsTyped, Maps, MissingInElastic, Present, Partial
<1>2. PlanTyped'
  BY <1>1 DEF Parts, PlanTyped, ElasticPlan
<1>3. LoadTyped'
  BY DEF Parts, LoadTyped, ElasticPlan, Partial
<1>4. ChangeTyped'
  BY DEF Parts, ChangeTyped, ElasticPlan
<1> QED BY <1>2, <1>3, <1>4, Kept DEF Parts, ElasticPlan, envVars, history

LEMMA IndexedType ==
  ASSUME Parts, NEW t \in {"load", "change"}, NEW C PROVE Indexed(t, C) \in Maps
<1>1. Partial(plan[t], Objects)
  BY DEF Parts, PlanTyped
<1> QED BY <1>1, OverrideType DEF Parts, MapsTyped, Indexed, Partial

LEMMA ClearPlanType ==
  ASSUME Parts, NEW t \in {"load", "change"}, plan' = [plan EXCEPT ![t] = <<>>] PROVE PlanTyped'
BY DEF Parts, PlanTyped, Partial

LEMMA FinishType == ASSUME Parts, FinishLoad PROVE Parts'
<1>1. es' \in Maps
  BY IndexedType DEF FinishLoad
<1>2. LoadTyped' /\ loaded' \in Maps
  BY EndLoadType DEF FinishLoad
<1>3. MapsTyped'
  BY <1>1, <1>2 DEF Parts, MapsTyped, FinishLoad
<1>4. appState' = appState /\ appState \in 0..2
  BY DEF Parts, RestTyped, FinishLoad
<1>5. RestTyped'
  <2>1. CASE Disturb
    BY <1>4, <2>1, DisturbType
  <2>2. CASE ~Disturb
    <3>1. steady' = steady /\ calm' = IF ~steady THEN 0 ELSE IF calm = 2 THEN 2 ELSE calm + 1
      BY <2>2 DEF FinishLoad
    <3>2. calm' \in 0..2
      BY <3>1 DEF Parts, RestTyped
    <3> QED BY <1>4, <3>1, <3>2 DEF Parts, RestTyped
  <2> QED BY <2>1, <2>2
<1>6. PlanTyped'
  BY ClearPlanType DEF FinishLoad
<1> QED BY <1>2, <1>3, <1>5, <1>6, Kept DEF Parts, FinishLoad, envVars, changeVars

LEMMA FinishChangeType == ASSUME Parts, FinishChange PROVE Parts'
<1>1. es' \in Maps
  BY IndexedType DEF FinishChange
<1>2. MapsTyped'
  BY <1>1 DEF Parts, MapsTyped, FinishChange, loadVars
<1>3. RestTyped'
  BY DisturbType DEF Parts, RestTyped, FinishChange
<1>4. ChangeTyped'
  BY DEF FinishChange, ChangeTyped
<1>5. PlanTyped'
  BY ClearPlanType DEF FinishChange
<1> QED BY <1>2, <1>3, <1>4, <1>5, Kept DEF Parts, FinishChange, envVars, loadVars

LEMMA NoticeType ==
  ASSUME Parts, NEW n \in notices, TakeNotice(n) PROVE Parts'
<1>1. n.entity \in Entities /\ ClassOf[n.entity] \in Classes
  BY DataSyncAssumption DEF Parts, StateTyped, Tell
<1>2. StateTyped'
  BY DEF Parts, StateTyped, TakeNotice
<1>3. RestTyped'
  BY DisturbType DEF Parts, RestTyped, TakeNotice
<1>4. cache' \in Maps
  BY <1>1 DEF Parts, MapsTyped, Maps, TakeNotice
<1>5. MapsTyped'
  BY <1>4 DEF Parts, MapsTyped, TakeNotice, loadVars
<1>6. ChangeTyped'
  BY <1>1 DEF Parts, ChangeTyped, TakeNotice, changeVars
<1>7. tasks' \in Seq(Work)
  <2>1. WriteTask(cache', ClassOf[n.entity]) \in Work
    BY <1>1, <1>4, WriteTaskType
  <2>2. tasks' = tasks \/ tasks' = Append(tasks, WriteTask(cache', ClassOf[n.entity]))
    BY DEF TakeNotice
  <2> QED BY <2>1, <2>2, AppendSet DEF Parts
<1>8. KeysTyped'
  BY <1>1, Kept, ReadKeysType DEF Parts, TakeNotice
<1> QED BY <1>2, <1>3, <1>5, <1>6, <1>7, <1>8, Kept DEF Parts, TakeNotice, loadVars

LEMMA DeleteType == ASSUME Parts, DeleteFromElastic PROVE Parts'
<1>1. es' \in Maps
  BY DEF Parts, MapsTyped, Maps, DeleteFromElastic
<1>2. MapsTyped'
  BY <1>1 DEF Parts, MapsTyped, DeleteFromElastic, loadVars
<1>3. RestTyped'
  BY DisturbType DEF Parts, RestTyped, DeleteFromElastic
<1>4. ChangeTyped'
  BY DEF Parts, ChangeTyped, DeleteFromElastic
<1> QED BY <1>2, <1>3, <1>4, Kept DEF Parts, DeleteFromElastic, envVars, loadVars

LEMMA SaveType == ASSUME Parts, SaveChange PROVE Parts'
<1>1. subject \in Entities /\ ClassOf[subject] \in Classes
  BY DataSyncAssumption DEF Parts, ChangeTyped, SaveChange
<1>2. tasks' \in Seq(Work)
  <2>1. WriteTask(cache, ClassOf[subject]) \in Work
    BY <1>1, WriteTaskType DEF Parts, MapsTyped
  <2>2. tasks' = tasks \/ tasks' = Append(tasks, WriteTask(cache, ClassOf[subject]))
    BY DEF SaveChange
  <2> QED BY <2>1, <2>2, AppendSet DEF Parts
<1>3. RestTyped'
  BY DisturbType DEF Parts, RestTyped, SaveChange
<1>4. ChangeTyped'
  BY DEF Parts, ChangeTyped, SaveChange
<1>5. KeysTyped'
  BY <1>1, ReadKeysType DEF Parts, SaveChange
<1> QED BY <1>2, <1>3, <1>4, <1>5, Kept DEF Parts, SaveChange, envVars, loadVars

LEMMA StoreType ==
  ASSUME Parts, NEW e \in Entities, StoreChanges(e) PROVE Parts'
<1>1. PICK v \in (Versions \cup {None}) \ {store[e]} :
        /\ store' = [store EXCEPT ![e] = v]
        /\ notices' = notices \cup {[entity |-> e, action |-> IF v = None THEN "DELETE" ELSE "UPDATE"]}
  BY DEF StoreChanges
<1>2. StateTyped'
  BY <1>1 DEF Parts, StateTyped, StoreChanges, Tell
<1>3. RestTyped'
  BY DisturbType DEF Parts, RestTyped, StoreChanges
<1> QED BY <1>2, <1>3, Kept DEF Parts, StoreChanges, loadVars, changeVars

LEMMA ReloadType == ASSUME Parts, Reload PROVE Parts'
<1>1. LoadTask \in Work
  BY DEF Work
<1>2. tasks' \in Seq(Work)
  BY <1>1, AppendSet DEF Parts, Reload
<1>3. LoadTyped'
  BY DEF Parts, LoadTyped, Reload, Partial
<1> QED BY <1>2, <1>3, Kept DEF Parts, Reload, changeVars, history

LEMMA CrashType == ASSUME Parts, Crash PROVE Parts'
<1>1. LoadTask \in Work
  BY DEF Work
<1>2. tasks' \in Seq(Work)
  BY <1>1 DEF Crash
<1>3. MapsTyped'
  BY NothingType DEF Parts, MapsTyped, Crash
<1>4. changed' \in BOOLEAN
  BY DEF Crash
<1>9. Partial(answer, Versions \cup {None})'
  BY DEF Crash, Partial
<1>5. LoadTyped'
  BY <1>4, <1>9 DEF LoadTyped, Crash
<1>6. ChangeTyped'
  BY DEF ChangeTyped, Crash
<1>7. PlanTyped'
  BY DEF PlanTyped, Crash, Partial
<1>8. RestTyped'
  BY DisturbType DEF Crash
<1>10. KeysTyped'
  BY DEF Parts, KeysTyped, Crash
<1> QED BY <1>2, <1>3, <1>5, <1>6, <1>7, <1>8, <1>10, Kept DEF Parts, Crash

LEMMA NextType == ASSUME TypeInv, Next PROVE TypeInv'
<1>1. Parts
  BY TypeParts
<1>2. Parts'
  BY <1>1, PoolType, InstallType, BeginType, FetchType, CompareType, BreaksType, RemoveType,
     KeysType, FailsType, PlanType, FinishType, FinishChangeType, NoticeType, DeleteType, SaveType,
     StoreType, ReloadType, CrashType
     DEF Next, PoolStep, LoadStep, ChangeStep, Environment
<1> QED BY <1>2, TypeParts, PTL

(* The types hold at every step.                                           *)
THEOREM TypesHold == Spec => []TypeInv
<1>1. TypeInv /\ [Next]_vars => TypeInv'
  BY NextType, StutterType
<1> QED BY <1>1, InitType, PTL DEF Spec

(* Every variable keeps its type, for every number of entities, classes    *)
(* and versions.                                                           *)
THEOREM DataTypeCorrect == Spec => []TypeOK
<1>1. TypeInv => TypeOK
  BY DEF TypeInv
<1> QED BY <1>1, TypesHold, PTL


-----------------------------------------------------------------------------
(* The queue of the pool                                                   *)

(* At most one task of q is not a write, and it is of kind k.              *)
AllWrites(q) == \A i \in DOMAIN q : q[i].kind = "write"
OneOther(q, k) ==
  /\ \A i \in DOMAIN q : q[i].kind \in {"write", k}
  /\ \A i, n \in DOMAIN q : q[i].kind # "write" /\ q[n].kind # "write" => i = n
LastIs(q, k) == \E i \in DOMAIN q : i = Len(q) /\ q[i].kind = k

(* The task of the load is there only while the load waits for it; the     *)
(* read of a load that nothing disturbed has only earlier writes before it.*)
TasksOK ==
  /\ lpc = "queued" => OneOther(tasks, "load")
  /\ lpc = "reading" => OneOther(tasks, "read") /\ (steady => LastIs(tasks, "read"))
  /\ lpc \notin {"queued", "reading"} => AllWrites(tasks)

LEMMA RemoveOther ==
  ASSUME NEW q \in Seq(Work), NEW k, NEW i \in DOMAIN q, OneOther(q, k)
  PROVE  /\ OneOther(RemoveAt(q, i), k)
         /\ q[i].kind # "write" => AllWrites(RemoveAt(q, i))
         /\ q[i].kind = "write" /\ k # "write" /\ LastIs(q, k) => LastIs(RemoveAt(q, i), k)
<1> DEFINE r == RemoveAt(q, i)
<1>1. /\ r \in Seq(Work) /\ Len(r) = Len(q) - 1
      /\ \A n \in 1..(Len(q) - 1) : r[n] = IF n < i THEN q[n] ELSE q[n + 1]
  BY RemoveAtFacts
<1>2. Len(q) \in Nat /\ i \in 1..Len(q) /\ DOMAIN q = 1..Len(q)
  OBVIOUS
<1> HIDE DEF r
<1>3. DOMAIN r = 1..(Len(q) - 1)
  BY <1>1, <1>2
<1>4. \A n \in DOMAIN r : /\ n < i => n \in DOMAIN q /\ r[n] = q[n]
                          /\ ~(n < i) => n + 1 \in DOMAIN q /\ r[n] = q[n + 1]
  BY <1>1, <1>2, <1>3
<1>5. \A n \in DOMAIN r : r[n].kind \in {"write", k}
  BY <1>4 DEF OneOther
<1>6. ASSUME NEW m \in DOMAIN r, NEW n \in DOMAIN r, r[m].kind # "write", r[n].kind # "write"
      PROVE  m = n
  <2>1. m \in Nat /\ n \in Nat
    BY <1>2, <1>3, <1>6
  <2>2. CASE m < i /\ n < i
    BY <1>4, <1>6, <2>2 DEF OneOther
  <2>3. CASE m < i /\ ~(n < i)
    <3>1. m = n + 1
      BY <1>4, <1>6, <2>3 DEF OneOther
    <3> QED BY <1>2, <2>1, <2>3, <3>1
  <2>4. CASE ~(m < i) /\ n < i
    <3>1. m + 1 = n
      BY <1>4, <1>6, <2>4 DEF OneOther
    <3> QED BY <1>2, <2>1, <2>4, <3>1
  <2>5. CASE ~(m < i) /\ ~(n < i)
    <3>1. m + 1 = n + 1
      BY <1>4, <1>6, <2>5 DEF OneOther
    <3> QED BY <2>1, <3>1
  <2> QED BY <2>2, <2>3, <2>4, <2>5
<1>7. ASSUME q[i].kind # "write", NEW n \in DOMAIN r PROVE r[n].kind = "write"
  <2>1. n \in Nat
    BY <1>2, <1>3, <1>7
  <2>2. CASE n < i
    <3>1. n # i
      BY <1>2, <2>1, <2>2
    <3> QED BY <1>4, <1>7, <2>2, <3>1 DEF OneOther
  <2>3. CASE ~(n < i)
    <3>1. n + 1 # i
      BY <1>2, <2>1, <2>3
    <3> QED BY <1>4, <1>7, <2>3, <3>1 DEF OneOther
  <2> QED BY <2>2, <2>3
<1>8. ASSUME q[i].kind = "write", k # "write", LastIs(q, k) PROVE LastIs(r, k)
  <2>1. Len(q) \in DOMAIN q /\ q[Len(q)].kind = k
    BY <1>8 DEF LastIs
  <2>2. i # Len(q)
    BY <1>8, <2>1
  <2>3. Len(q) - 1 \in DOMAIN r /\ ~(Len(q) - 1 < i) /\ (Len(q) - 1) + 1 = Len(q)
    BY <1>2, <1>3, <2>2
  <2>4. r[Len(q) - 1] = q[Len(q)]
    BY <1>4, <2>3
  <2> QED BY <1>1, <2>1, <2>3, <2>4 DEF LastIs
<1> QED BY <1>5, <1>6, <1>7, <1>8 DEF OneOther, AllWrites, r

LEMMA RemoveWrite ==
  ASSUME NEW q \in Seq(Work), NEW i \in DOMAIN q, AllWrites(q)
  PROVE  AllWrites(RemoveAt(q, i))
<1>1. OneOther(q, "write")
  BY DEF OneOther, AllWrites
<1>2. OneOther(RemoveAt(q, i), "write")
  BY <1>1, RemoveOther
<1> QED BY <1>2 DEF OneOther, AllWrites

LEMMA AppendTask ==
  ASSUME NEW q \in Seq(Work), NEW t \in Work
  PROVE  /\ AllWrites(q) => OneOther(Append(q, t), t.kind) /\ LastIs(Append(q, t), t.kind)
         /\ t.kind = "write" /\ AllWrites(q) => AllWrites(Append(q, t))
         /\ \A k : t.kind = "write" /\ OneOther(q, k) => OneOther(Append(q, t), k)
<1> DEFINE r == Append(q, t)
<1>1. /\ Len(q) \in Nat /\ DOMAIN q = 1..Len(q) /\ DOMAIN r = 1..(Len(q) + 1)
      /\ Len(r) = Len(q) + 1 /\ r[Len(q) + 1] = t /\ \A n \in 1..Len(q) : r[n] = q[n]
  OBVIOUS
<1> HIDE DEF r
<1>2. \A n \in DOMAIN r : (n \in DOMAIN q /\ r[n] = q[n]) \/ (n = Len(q) + 1 /\ r[n] = t)
  BY <1>1
<1>3. LastIs(r, t.kind)
  BY <1>1 DEF LastIs
<1>4. AllWrites(q) => OneOther(r, t.kind)
  BY <1>2 DEF OneOther, AllWrites
<1>5. t.kind = "write" /\ AllWrites(q) => AllWrites(r)
  BY <1>2 DEF AllWrites
<1>6. \A k : t.kind = "write" /\ OneOther(q, k) => OneOther(r, k)
  BY <1>2 DEF OneOther
<1> QED BY <1>3, <1>4, <1>5, <1>6 DEF r

LEMMA WriteTaskFacts ==
  ASSUME NEW m, NEW q \in Seq(Classes)
  PROVE  /\ AllWrites(WriteTasks(m, q))
         /\ ToSet(WriteTasks(m, q)) = {WriteTask(m, c) : c \in ToSet(q)}
<1>1. /\ DOMAIN WriteTasks(m, q) = DOMAIN q
      /\ \A i \in DOMAIN q : WriteTasks(m, q)[i] = WriteTask(m, q[i])
  BY DEF WriteTasks
<1>2. AllWrites(WriteTasks(m, q))
  BY <1>1 DEF AllWrites, WriteTask
<1>3. ToSet(WriteTasks(m, q)) = {WriteTask(m, c) : c \in ToSet(q)}
  BY <1>1 DEF ToSet
<1> QED BY <1>2, <1>3

LEMMA ConcatWrites ==
  ASSUME NEW q \in Seq(Work), NEW r \in Seq(Work), AllWrites(q), AllWrites(r)
  PROVE  AllWrites(q \o r)
<1>1. ToSet(q \o r) = ToSet(q) \cup ToSet(r) /\ q \o r \in Seq(Work)
  BY ConcatSet
<1>2. \A t \in ToSet(q) \cup ToSet(r) : t.kind = "write"
  BY DEF AllWrites, ToSet
<1>3. \A i \in DOMAIN (q \o r) : (q \o r)[i] \in ToSet(q \o r)
  BY DEF ToSet
<1> QED BY <1>1, <1>2, <1>3 DEF AllWrites


LEMMA QueueInit == Init => TasksOK
BY DEF Init, TasksOK, OneOther, LoadTask

LEMMA QueueKept ==
  ASSUME TasksOK, UNCHANGED <<tasks, lpc>>, steady' => steady
  PROVE  TasksOK'
BY DEF TasksOK

LEMMA QueueGrows ==
  ASSUME Parts, TasksOK, UNCHANGED lpc, NEW t \in Work, t.kind = "write",
         tasks' = Append(tasks, t), steady' => lpc # "reading"
  PROVE  TasksOK'
<1>1. tasks \in Seq(Work)
  BY DEF Parts
<1> QED BY <1>1, AppendTask DEF TasksOK

LEMMA QueuePool ==
  ASSUME Parts, TasksOK, NEW i \in 1..Threads, StartLoad(i) \/ ReadRedis(i) \/ WriteRedis(i)
  PROVE  TasksOK'
<1>1. tasks \in Seq(Work)
  BY DEF Parts
<1>2. CASE StartLoad(i)
  <2>1. i \in DOMAIN tasks /\ tasks[i].kind = "load"
    BY <1>2 DEF StartLoad, Runs
  <2>2. lpc = "queued"
    BY <2>1 DEF TasksOK, OneOther, AllWrites
  <2>3. AllWrites(RemoveAt(tasks, i)) /\ RemoveAt(tasks, i) \in Seq(Work)
    BY <1>1, <2>1, <2>2, RemoveOther, RemoveAtFacts DEF TasksOK
  <2>4. ReadTask(keys) \in Work /\ ReadTask(keys).kind = "read"
    BY ReadTaskType DEF Parts, KeysTyped
  <2>5. OneOther(tasks', "read") /\ LastIs(tasks', "read")
    BY <1>2, <2>3, <2>4, AppendTask DEF StartLoad
  <2> QED BY <1>2, <2>5 DEF StartLoad, TasksOK
<1>3. CASE ReadRedis(i)
  <2>1. i \in DOMAIN tasks /\ tasks[i].kind = "read"
    BY <1>3 DEF ReadRedis, Runs
  <2>2. lpc = "reading"
    BY <2>1 DEF TasksOK, OneOther, AllWrites
  <2>3. AllWrites(RemoveAt(tasks, i))
    BY <1>1, <2>1, <2>2, RemoveOther DEF TasksOK
  <2> QED BY <1>3, <2>3 DEF ReadRedis, TasksOK
<1>4. CASE WriteRedis(i)
  <2>1. i \in DOMAIN tasks /\ tasks[i].kind = "write"
    BY <1>4 DEF WriteRedis, Runs
  <2>2. tasks' = RemoveAt(tasks, i) /\ UNCHANGED <<lpc, steady>>
    BY <1>4 DEF WriteRedis, loadVars, history
  <2> QED BY <1>1, <2>1, <2>2, RemoveOther, RemoveWrite DEF TasksOK
<1> QED BY <1>2, <1>3, <1>4

(* What a comparison makes of the queue.                                   *)
LEMMA UpdateTasks ==
  ASSUME Parts, NEW got, NEW kept, DOMAIN got \subseteq Entities,
         \A e \in DOMAIN got : got[e] \in Objects, Update(got, kept)
  PROVE  \/ DOMAIN got = {} /\ tasks' = tasks /\ UNCHANGED keyVars /\ lpc' = "class"
         \/ \E e \in DOMAIN got :
              /\ WriteTask(cache', ClassOf[e]) \in Work
              /\ tasks' = Append(tasks, WriteTask(cache', ClassOf[e]))
              /\ ReadKeys("load", {ClassOf[e]}) /\ lpc' = "keys"
<1>1. CASE DOMAIN got = {}
  BY <1>1 DEF Update, PutClass
<1>2. CASE DOMAIN got # {}
  <2> DEFINE e == CHOOSE e \in DOMAIN got : TRUE
  <2>1. e \in DOMAIN got /\ ClassOf[e] \in Classes
    BY <1>2, DataSyncAssumption
  <2>2. cache' \in Maps
    BY UpdateType
  <2>3. WriteTask(cache', ClassOf[e]) \in Work
    BY <2>1, <2>2, WriteTaskType
  <2>4. /\ tasks' = Append(tasks, WriteTask(cache', ClassOf[e]))
        /\ ReadKeys("load", {ClassOf[e]}) /\ lpc' = "keys"
    BY <1>2 DEF Update, PutClass
  <2> HIDE DEF e
  <2> QED BY <2>1, <2>3, <2>4
<1> QED BY <1>1, <1>2

(* An update of a class that nothing disturbs, for both kinds of store:    *)
(* the objects the cache has rightly are kept, the others are fetched.     *)
Good(e) == IF handler = "fuseki" THEN {store[e]} ELSE Versions

LEMMA CompareFacts ==
  ASSUME Parts, CompareFuseki \/ CompareTrellis
  PROVE  \E got, kept :
    /\ DOMAIN got \subseteq Listed /\ \A e \in DOMAIN got : got[e] \in Objects
    /\ Update(got, kept)
    /\ \/ Disturb
       \/ /\ UNCHANGED history
          /\ DOMAIN got = Listed \ kept
          /\ handler = "fuseki" => kept = Same /\ \A e \in DOMAIN got : got[e] = answer[e]
          /\ handler # "fuseki" => kept = Whole /\ \A e \in DOMAIN got : got[e] \in Versions
<1>1. CASE CompareFuseki
  <2>1. PICK K \in SUBSET Listed :
          /\ Update([e \in K \ Same |-> answer[e]], K \cap Same)
          /\ IF K = Listed THEN UNCHANGED history ELSE Disturb
    BY <1>1 DEF CompareFuseki
  <2> DEFINE got == [e \in K \ Same |-> answer[e]]
  <2>2. DOMAIN got \subseteq Listed /\ \A e \in DOMAIN got : got[e] \in Objects
    BY DEF Parts, LoadTyped, Partial, Listed, Objects
  <2>3. K = Listed => DOMAIN got = Listed \ (K \cap Same) /\ K \cap Same = Same
    BY DEF Same
  <2>4. handler = "fuseki" /\ \A e \in DOMAIN got : got[e] = answer[e]
    BY <1>1 DEF CompareFuseki
  <2> QED BY <2>1, <2>2, <2>3, <2>4
<1>2. CASE CompareTrellis
  <2>1. PICK got \in Answers :
          /\ Update(got, Whole)
          /\ IF DOMAIN got = Listed \ Whole /\ \A e \in DOMAIN got : got[e] # Blank
               THEN UNCHANGED history ELSE Disturb
    BY <1>2 DEF CompareTrellis
  <2>2. PICK G \in SUBSET (Listed \ Whole) :
          got \in {g \in [G -> Objects] : \A e \in G : g[e] \in {answer[e], Blank}}
    BY DEF Answers
  <2>3. /\ DOMAIN got \subseteq Listed
        /\ \A e \in DOMAIN got : got[e] \in Objects
        /\ \A e \in DOMAIN got : got[e] # Blank => got[e] = answer[e] /\ answer[e] \in Versions
    BY <2>2 DEF Parts, LoadTyped, Partial, Listed
  <2>4. handler # "fuseki"
    BY <1>2 DEF CompareTrellis
  <2> QED BY <2>1, <2>3, <2>4
<1> QED BY <1>1, <1>2

LEMMA QueueCompare ==
  ASSUME Parts, TasksOK, CompareFuseki \/ CompareTrellis
  PROVE  TasksOK'
<1>1. PICK got, kept : DOMAIN got \subseteq Listed /\ (\A e \in DOMAIN got : got[e] \in Objects)
                       /\ Update(got, kept)
  BY CompareFacts
<1>2. DOMAIN got \subseteq Entities
  BY <1>1 DEF Parts, LoadTyped, Partial, Listed
<1>3. lpc = "compare" /\ lpc' \in {"class", "keys"}
  BY <1>1, <1>2, UpdateType DEF CompareFuseki, CompareTrellis
<1>4. AllWrites(tasks) /\ tasks \in Seq(Work)
  BY <1>3 DEF TasksOK, Parts
<1>5. \/ tasks' = tasks
      \/ \E e \in DOMAIN got :
              /\ WriteTask(cache', ClassOf[e]) \in Work
              /\ tasks' = Append(tasks, WriteTask(cache', ClassOf[e]))
  BY <1>1, <1>2, UpdateTasks
<1>6. AllWrites(tasks')
  <2>1. CASE tasks' = tasks
    BY <1>4, <2>1
  <2>2. ASSUME NEW t \in Work, t.kind = "write", tasks' = Append(tasks, t) PROVE AllWrites(tasks')
    BY <1>4, <2>2, AppendTask
  <2>3. \A m, c : WriteTask(m, c).kind = "write"
    BY DEF WriteTask
  <2> QED BY <1>5, <2>1, <2>2, <2>3
<1> QED BY <1>3, <1>6 DEF TasksOK

LEMMA RemoveTasks ==
  ASSUME Parts, RemoveMissing
  PROVE  \/ UNCHANGED <<cache, tasks, keyVars>> /\ old = {} /\ lpc' = "elastic"
         \/ \E q \in Seq(Classes) :
              /\ ReadKeys("load", ToSet(q)) /\ lpc' = "allkeys"
              /\ {ClassOf[e] : e \in Present(cache)} \subseteq ToSet(q)
              /\ cache' = Override(cache, [e \in {o[1] : o \in old} |-> None])
              /\ tasks' = tasks \o WriteTasks(cache', q)
              /\ WriteTasks(cache', q) \in Seq(Work)
<1> DEFINE next == Override(cache, [e \in {o[1] : o \in old} |-> None])
<1>1. next \in Maps
  BY OverrideType DEF Parts, MapsTyped
<1> HIDE DEF next
<1>2. CASE changed \/ old # {}
  <2>1. PICK q \in SetToAllKPermutations(Classes) :
          /\ {ClassOf[e] : e \in Present(cache)} \subseteq ToSet(q)
          /\ tasks' = tasks \o WriteTasks(next, q)
          /\ ReadKeys("load", ToSet(q))
    BY <1>2 DEF RemoveMissing, next
  <2>2. cache' = next /\ lpc' = "allkeys"
    BY <1>2 DEF RemoveMissing, next
  <2>3. q \in Seq(Classes) /\ WriteTasks(next, q) \in Seq(Work)
    BY <1>1, Orders, WriteTasksType
  <2> QED BY <2>1, <2>2, <2>3 DEF next
<1> QED BY <1>2 DEF RemoveMissing

LEMMA QueueRemove == ASSUME Parts, TasksOK, RemoveMissing PROVE TasksOK'
<1>1. lpc = "class" /\ lpc' \in {"allkeys", "elastic"}
  BY DEF RemoveMissing
<1>2. AllWrites(tasks) /\ tasks \in Seq(Work)
  BY <1>1 DEF TasksOK, Parts
<1>3. AllWrites(tasks')
  BY <1>2, RemoveTasks, WriteTaskFacts, ConcatWrites
<1> QED BY <1>1, <1>3 DEF TasksOK

LEMMA QueueStep == ASSUME Parts, TasksOK, Next PROVE TasksOK'
<1>1. LoadTask \in Work /\ LoadTask.kind = "load"
  BY DEF Work, LoadTask
<1>2. ASSUME Disturb, UNCHANGED lpc,
             UNCHANGED tasks \/ \E t \in Work : t.kind = "write" /\ tasks' = Append(tasks, t)
      PROVE  TasksOK'
  BY <1>2, QueueKept, QueueGrows DEF Disturb
<1>3. CASE PoolStep
  BY <1>3, QueuePool DEF PoolStep
<1>4. CASE LoadStep
  <2>1. CASE \/ Install \/ BeginUpdate \/ CompareBreaks \/ \E c \in Classes : FetchClass(c)
             \/ LoadFails \/ WriteKeys("load") \/ ElasticPlan("load") \/ FinishLoad
    <3>1. UNCHANGED tasks /\ lpc \notin {"queued", "reading"} /\ lpc' \notin {"queued", "reading"}
      BY <2>1 DEF Install, BeginUpdate, CompareBreaks, FetchClass, LoadFails, WriteKeys,
                  ElasticPlan, FinishLoad, EndLoad
    <3> QED BY <3>1 DEF TasksOK
  <2> QED BY <1>4, <2>1, QueueCompare, QueueRemove DEF LoadStep
<1>5. CASE ChangeStep
  <2>1. ASSUME NEW n \in notices, TakeNotice(n) PROVE TasksOK'
    <3>1. n.entity \in Entities /\ ClassOf[n.entity] \in Classes
      BY DataSyncAssumption DEF Parts, StateTyped, Tell
    <3>2. cache' \in Maps
      BY <2>1, <3>1 DEF Parts, MapsTyped, Maps, TakeNotice
    <3>3. WriteTask(cache', ClassOf[n.entity]) \in Work
          /\ WriteTask(cache', ClassOf[n.entity]).kind = "write"
      BY <3>1, <3>2, WriteTaskType
    <3>4. tasks' = tasks \/ tasks' = Append(tasks, WriteTask(cache', ClassOf[n.entity]))
      BY <2>1 DEF TakeNotice
    <3>5. Disturb /\ UNCHANGED lpc
      BY <2>1 DEF TakeNotice, loadVars
    <3> QED BY <1>2, <3>3, <3>4, <3>5
  <2>2. CASE SaveChange
    <3>1. subject \in Entities /\ ClassOf[subject] \in Classes
      BY <2>2, DataSyncAssumption DEF Parts, ChangeTyped, SaveChange
    <3>2. WriteTask(cache, ClassOf[subject]) \in Work
          /\ WriteTask(cache, ClassOf[subject]).kind = "write"
      BY <3>1, WriteTaskType DEF Parts, MapsTyped
    <3>3. tasks' = tasks \/ tasks' = Append(tasks, WriteTask(cache, ClassOf[subject]))
      BY <2>2 DEF SaveChange
    <3>4. Disturb /\ UNCHANGED lpc
      BY <2>2 DEF SaveChange, loadVars
    <3> QED BY <1>2, <3>2, <3>3, <3>4
  <2>3. CASE DeleteFromElastic \/ FinishChange
    BY <1>2, <2>3 DEF DeleteFromElastic, FinishChange, loadVars
  <2>4. CASE ElasticPlan("change")
    BY <2>4, QueueKept DEF ElasticPlan, history
  <2>5. CASE WriteKeys("change")
    BY <1>2, <2>5 DEF WriteKeys
  <2> QED BY <1>5, <2>1, <2>2, <2>3, <2>4, <2>5 DEF ChangeStep
<1>6. CASE Environment
  <2>1. ASSUME NEW e \in Entities, StoreChanges(e) PROVE TasksOK'
    BY <1>2, <2>1 DEF StoreChanges, loadVars
  <2>2. CASE Reload
    <3>1. AllWrites(tasks) /\ tasks \in Seq(Work) /\ lpc' = "queued"
      BY <2>2 DEF Reload, TasksOK, Parts
    <3>2. OneOther(tasks', "load")
      BY <1>1, <2>2, <3>1, AppendTask DEF Reload
    <3> QED BY <3>1, <3>2 DEF TasksOK
  <2>3. CASE Crash
    BY <1>1, <2>3 DEF Crash, TasksOK, OneOther
  <2> QED BY <1>6, <2>1, <2>2, <2>3 DEF Environment
<1> QED BY <1>3, <1>4, <1>5, <1>6 DEF Next


-----------------------------------------------------------------------------
(* What the copies have in common, in each phase of a load that nothing    *)
(* disturbed (steady), and what the load before it left (calm > 0).        *)

(* Good(e) is what the handler accepts for e: SPARQL the object of the     *)
(* store, Trellis any object with attributes.  An object is fair when a    *)
(* load may keep it: nothing, a good one, or one of an entity that the     *)
(* store has no more, which the load removes.                              *)
Fair(e, o) == store[e] = None \/ o = None \/ o \in Good(e)
Pend    == {t \in ToSet(tasks) : t.kind = "write"}
Has(e)  == \E t \in Pend : e \in DOMAIN t.objects
(* What the next load finds in Redis, once the load has written the keys.  *)
Named   == IF lpc \in {"keys", "allkeys"} THEN saving["load"] ELSE keys
Seen(e) == IF ClassOf[e] \in Named THEN redis[e] ELSE None
Left(e) == ClassOf[e] \in todo \/ (lpc = "compare" /\ e \in DOMAIN answer)

CalmOK == calm > 0 => steady

(* Redis is read after all writes, under the keys that are listed.         *)
ReadOK ==
  /\ steady /\ lpc = "reading" => \A t \in ToSet(tasks) : t.kind = "read" => t.classes = keys
  /\ steady /\ lpc = "loaded" => tasks = <<>> /\ loaded = [e \in Entities |-> Seen(e)]
  /\ steady /\ lpc = "begin" => tasks = <<>> /\ cache = [e \in Entities |-> Seen(e)]
  /\ steady /\ lpc \in {"loaded", "begin"} /\ calm > 0 => \A e \in Entities : Fair(e, Seen(e))

(* While classes are compared: what is still to be compared, or is not in  *)
(* the store, is in old as it is in the cache; what was compared is good.  *)
CompareOK == lpc = "compare" => \E c \in Classes \ todo : answer = [e \in InClass(c) |-> store[e]]
OldOf(e)  == \A o \in Objects : <<e, o>> \in old <=> o = cache[e]
OldOK == \A e \in Entities :
  /\ Left(e) \/ store[e] = None => OldOf(e)
  /\ ~Left(e) /\ store[e] # None =>
       cache[e] \in Good(e) /\ (calm > 0 => \A o \in Objects : <<e, o>> \notin old)
  /\ Left(e) /\ calm > 0 => Fair(e, cache[e])
WritesOK ==
  /\ \A t \in Pend : \A e \in DOMAIN t.objects : t.objects[e] = cache[e] /\ ~Left(e)
  /\ \A e \in Entities : Seen(e) = cache[e] \/ Has(e)
ListOK   == \A e \in Entities : cache[e] # None => ClassOf[e] \in Named
UpdateOK ==
  steady /\ lpc \in {"class", "compare", "keys"} => CompareOK /\ OldOK /\ WritesOK /\ ListOK

(* After the comparison, and until the next load has read Redis: the cache *)
(* has only good objects, all of them after a second load, and the last    *)
(* thing Redis will be told of an entity agrees with the cache.            *)
After == \/ steady /\ lpc \in {"allkeys", "elastic", "index"}
         \/ calm > 0 /\ lpc \in {"idle", "queued", "reading"}
Full  == \/ calm > 0 /\ lpc \in {"allkeys", "elastic", "index"}
         \/ calm = 2 /\ lpc \in {"idle", "queued", "reading"}
OnlyGood == \A e \in Entities : cache[e] = None \/ (store[e] # None /\ cache[e] \in Good(e))
AllThere == \A e \in Entities : store[e] # None => cache[e] # None
Agrees(e, o) == (cache[e] # None => o = cache[e]) /\ Fair(e, o)
PendOK  == \A t \in Pend : \A e \in DOMAIN t.objects : Agrees(e, t.objects[e])
RedisOK == \A e \in Entities : Has(e) \/ Agrees(e, Seen(e))
AfterOK == (After => OnlyGood /\ PendOK /\ RedisOK /\ ListOK) /\ (Full => AllThere)

IndexOK ==
  /\ steady /\ lpc = "index" => Present(cache) \ Present(es) \subseteq DOMAIN plan["load"]
  /\ calm > 0 /\ lpc = "idle" => Present(cache) \subseteq Present(es)

PhaseOK == CalmOK /\ ReadOK /\ UpdateOK /\ AfterOK /\ IndexOK
SyncInv == Parts /\ TasksOK /\ PhaseOK

(* A load that was disturbed has none of this to keep.                     *)
LEMMA Quiet == ASSUME ~steady', ~(calm' > 0), RestTyped' PROVE PhaseOK'
<1>1. ~(calm' = 2)
  BY DEF RestTyped
<1>2. CalmOK' /\ ReadOK' /\ UpdateOK' /\ IndexOK'
  BY DEF CalmOK, ReadOK, UpdateOK, IndexOK
<1>3. AfterOK'
  BY <1>1 DEF AfterOK, After, Full
<1> QED BY <1>2, <1>3 DEF PhaseOK

LEMMA Disturbed == ASSUME Disturb, Parts' PROVE PhaseOK'
<1>1. ~steady' /\ ~(calm' > 0)
  BY DEF Disturb
<1> QED BY <1>1, Quiet DEF Parts

(* The tasks that write, after a task was taken or added.                  *)
LEMMA PendRemove ==
  ASSUME Parts, NEW i \in DOMAIN tasks, tasks' = RemoveAt(tasks, i)
  PROVE  /\ Pend' \subseteq Pend /\ Pend \subseteq Pend' \cup {tasks[i]}
         /\ tasks[i].kind # "write" => Pend' = Pend
<1>1. tasks \in Seq(Work)
  BY DEF Parts
<1>2. ToSet(tasks)' \subseteq ToSet(tasks) /\ ToSet(tasks) \subseteq ToSet(tasks)' \cup {tasks[i]}
  BY <1>1, RemoveAtSet
<1> QED BY <1>2 DEF Pend

LEMMA PendAppend ==
  ASSUME Parts, NEW t \in Work, tasks' = Append(tasks, t)
  PROVE  Pend' = Pend \cup {x \in {t} : x.kind = "write"}
<1>1. ToSet(tasks)' = ToSet(tasks) \cup {t}
  BY AppendSet DEF Parts
<1> QED BY <1>1 DEF Pend

LEMMA PhaseInit == Init => PhaseOK
<1> SUFFICES ASSUME Init PROVE PhaseOK
  OBVIOUS
<1>1. ~steady /\ ~(calm > 0) /\ ~(calm = 2)
  BY DEF Init
<1> QED BY <1>1 DEF PhaseOK, CalmOK, ReadOK, UpdateOK, IndexOK, AfterOK, After, Full

-----------------------------------------------------------------------------
(* The pool                                                                *)

(* The load task is replaced by the read.                                  *)
LEMMA StartPhase ==
  ASSUME SyncInv, NEW i \in 1..Threads, StartLoad(i), Parts'
  PROVE  PhaseOK'
<1>1. /\ i \in DOMAIN tasks /\ tasks[i].kind = "load"
      /\ tasks' = Append(RemoveAt(tasks, i), ReadTask(keys)) /\ lpc' = "reading" /\ steady'
      /\ UNCHANGED <<handler, store, cache, redis, keys, calm>>
  BY DEF StartLoad, Runs, envVars, keyVars
<1>2. lpc = "queued"
  BY <1>1 DEF SyncInv, TasksOK, OneOther, AllWrites
<1>3. Pend' = Pend /\ \A t \in ToSet(tasks)' : t.kind = "read" => t.classes = keys
  <2>1. tasks \in Seq(Work)
    BY DEF Parts, SyncInv
  <2>2. /\ ToSet(RemoveAt(tasks, i)) \subseteq ToSet(tasks)
        /\ ToSet(tasks) \subseteq ToSet(RemoveAt(tasks, i)) \cup {tasks[i]}
        /\ RemoveAt(tasks, i) \in Seq(Work)
    BY <1>1, <2>1, RemoveAtSet, RemoveAtFacts
  <2>3. ReadTask(keys) \in Work /\ ReadTask(keys).kind = "read" /\ ReadTask(keys).classes = keys
    BY ReadTaskType DEF SyncInv, Parts, KeysTyped
  <2>4. ToSet(tasks)' = ToSet(RemoveAt(tasks, i)) \cup {ReadTask(keys)}
    BY <1>1, <2>2, <2>3, AppendSet
  <2>5. \A t \in ToSet(tasks) : t.kind # "read"
    BY <1>2 DEF SyncInv, TasksOK, OneOther, ToSet
  <2> QED BY <1>1, <2>2, <2>3, <2>4, <2>5 DEF Pend
<1>4. CalmOK' /\ ReadOK' /\ UpdateOK' /\ IndexOK'
  BY <1>1, <1>3 DEF CalmOK, ReadOK, UpdateOK, IndexOK
<1>5. AfterOK'
  <2>1. (After' => After) /\ (Full' => Full)
    BY <1>1, <1>2 DEF After, Full
  <2>4. \A e : Seen(e)' = Seen(e)
    BY <1>1, <1>2 DEF Seen, Named
  <2>5. ListOK' <=> ListOK
    BY <1>1, <1>2 DEF ListOK, Named
  <2>2. After => OnlyGood' /\ PendOK' /\ RedisOK' /\ ListOK'
    BY <1>1, <1>3, <2>4, <2>5 DEF SyncInv, PhaseOK, AfterOK, OnlyGood, PendOK, RedisOK, Has,
                                  Agrees, Fair, Good
  <2>3. Full => AllThere'
    BY <1>1 DEF SyncInv, PhaseOK, AfterOK, AllThere
  <2> QED BY <2>1, <2>2, <2>3 DEF AfterOK
<1> QED BY <1>4, <1>5 DEF PhaseOK

(* The read of a load that nothing disturbed is the only task left.        *)
LEMMA ReadPhase ==
  ASSUME SyncInv, NEW i \in 1..Threads, ReadRedis(i), Parts'
  PROVE  PhaseOK'
<1>1. /\ i \in DOMAIN tasks /\ i <= Free /\ tasks[i].kind = "read"
      /\ tasks' = RemoveAt(tasks, i) /\ lpc' = "loaded"
      /\ loaded' = [e \in Entities |-> IF ClassOf[e] \in tasks[i].classes THEN redis[e] ELSE None]
      /\ UNCHANGED <<handler, store, cache, redis, keys, calm, steady>>
  BY DEF ReadRedis, Runs, envVars, keyVars, history
<1>2. lpc = "reading"
  BY <1>1 DEF SyncInv, TasksOK, OneOther, AllWrites
<1>3. tasks \in Seq(Work)
  BY DEF SyncInv, Parts
<1>4. CASE ~steady
  BY <1>1, <1>4, Quiet DEF SyncInv, PhaseOK, CalmOK, Parts
<1>5. CASE steady
  <2>1. OneOther(tasks, "read") /\ LastIs(tasks, "read")
    BY <1>2, <1>5 DEF SyncInv, TasksOK
  <2>2. i = Len(tasks)
    BY <1>1, <2>1 DEF OneOther, LastIs
  <2>3. i = 1
    BY <1>1, <1>2 DEF Free, Threads
  <2>4. RemoveAt(tasks, i) \in Seq(Work) /\ Len(RemoveAt(tasks, i)) = 0
    <3>1. RemoveAt(tasks, i) \in Seq(Work) /\ Len(RemoveAt(tasks, i)) = Len(tasks) - 1
      BY <1>1, <1>3, RemoveAtFacts
    <3> QED BY <2>2, <2>3, <3>1
  <2>5. tasks' = <<>>
    BY <1>1, <2>4
  <2>6. Pend = {}
    <3>1. Len(tasks) = 1 /\ tasks[1].kind = "read"
      BY <1>1, <2>2, <2>3
    <3>2. \A n \in DOMAIN tasks : n = 1
      BY <1>3, <3>1
    <3> QED BY <3>1, <3>2 DEF Pend, ToSet
  <2>10. \A e : Seen(e)' = Seen(e)
    BY <1>1, <1>2 DEF Seen, Named
  <2>11. loaded' = [e \in Entities |-> Seen(e)]
    <3>1. tasks[i].classes = keys
      BY <1>1, <1>2, <1>5 DEF SyncInv, PhaseOK, ReadOK, ToSet
    <3> QED BY <1>1, <1>2, <3>1 DEF Seen, Named
  <2>7. calm > 0 => \A e \in Entities : Fair(e, Seen(e))
    <3>1. calm > 0 => RedisOK
      BY <1>2 DEF SyncInv, PhaseOK, AfterOK, After
    <3> QED BY <2>6, <3>1 DEF RedisOK, Has, Agrees
  <2>8. ReadOK'
    BY <1>1, <2>5, <2>7, <2>10, <2>11 DEF ReadOK, Fair, Good
  <2>9. CalmOK' /\ UpdateOK' /\ IndexOK' /\ AfterOK'
    BY <1>1 DEF SyncInv, PhaseOK, CalmOK, UpdateOK, IndexOK, AfterOK, After, Full
  <2> QED BY <2>8, <2>9 DEF PhaseOK
<1> QED BY <1>4, <1>5


(* A write tells Redis what it was created with; what it says agrees with  *)
(* the cache, whichever of the writes that are left runs first.            *)
LEMMA WritePhase ==
  ASSUME SyncInv, NEW i \in 1..Threads, WriteRedis(i), Parts'
  PROVE  PhaseOK'
<1> DEFINE t == tasks[i]
<1>1. /\ i \in DOMAIN tasks /\ t.kind = "write" /\ tasks' = RemoveAt(tasks, i)
      /\ redis' = Override(redis, t.objects)
      /\ UNCHANGED <<handler, store, cache, es, lpc, loaded, old, todo, answer, plan, keys, saving,
                     steady, calm>>
  BY DEF WriteRedis, Runs, envVars, keyVars, loadVars, history
<1>2. Pend' \subseteq Pend /\ Pend \subseteq Pend' \cup {t} /\ t \in Pend
  BY <1>1, PendRemove DEF SyncInv, Pend, ToSet
<1>3. \A e \in Entities :
        /\ Named' = Named
        /\ e \in DOMAIN t.objects => Seen(e)' = IF ClassOf[e] \in Named THEN t.objects[e] ELSE None
        /\ e \notin DOMAIN t.objects => Seen(e)' = Seen(e)
  BY <1>1 DEF Override, Seen, Named
<1> HIDE DEF t
<1>4. ASSUME NEW e \in Entities, Has(e) PROVE Has(e)' \/ e \in DOMAIN t.objects
  BY <1>2, <1>4 DEF Has
<1>5. CalmOK' /\ IndexOK'
  BY <1>1 DEF SyncInv, PhaseOK, CalmOK, IndexOK, Present
<1>6. ReadOK'
  <2>1. i \in DOMAIN tasks => tasks # <<>>
    OBVIOUS
  <2>2. ToSet(tasks)' \subseteq ToSet(tasks)
    BY <1>1, RemoveAtSet DEF SyncInv, Parts
  <2> QED BY <1>1, <2>1, <2>2 DEF SyncInv, PhaseOK, ReadOK
<1>7. UpdateOK'
  <2> SUFFICES ASSUME steady, lpc \in {"class", "compare", "keys"}
               PROVE  (CompareOK /\ OldOK /\ WritesOK /\ ListOK)'
    BY <1>1 DEF UpdateOK
  <2>1. CompareOK /\ OldOK /\ WritesOK /\ ListOK
    BY DEF SyncInv, PhaseOK, UpdateOK
  <2>2. CompareOK' /\ OldOK'
    BY <1>1, <2>1 DEF CompareOK, OldOK, OldOf, Left, Good, Fair
  <2>3. \A x \in Pend' : \A e \in DOMAIN x.objects : x.objects[e] = cache'[e] /\ ~Left(e)'
    BY <1>1, <1>2, <2>1 DEF WritesOK, Left
  <2>4. ASSUME NEW e \in Entities PROVE Seen(e)' = cache'[e] \/ Has(e)'
    BY <1>1, <1>2, <1>3, <1>4, <2>1 DEF WritesOK, ListOK
  <2>5. ListOK'
    BY <1>1, <2>1 DEF ListOK, Named
  <2> QED BY <2>2, <2>3, <2>4, <2>5 DEF WritesOK
<1>8. AfterOK'
  <2>1. (After' => After) /\ (Full' => Full)
    BY <1>1 DEF After, Full
  <2>2. Full => AllThere'
    BY <1>1 DEF SyncInv, PhaseOK, AfterOK, AllThere
  <2>3. ASSUME After PROVE OnlyGood' /\ PendOK' /\ RedisOK' /\ ListOK'
    <3>1. OnlyGood /\ PendOK /\ RedisOK /\ ListOK
      BY <2>3 DEF SyncInv, PhaseOK, AfterOK
    <3>2. OnlyGood' /\ (\A e, o : Agrees(e, o)' <=> Agrees(e, o))
      BY <1>1, <3>1 DEF OnlyGood, Agrees, Fair, Good
    <3>3. \A x \in Pend' : \A e \in DOMAIN x.objects : Agrees(e, x.objects[e])
      BY <1>2, <3>1 DEF PendOK
    <3>4. PendOK'
      BY <1>1, <3>3 DEF PendOK, Agrees, Fair, Good
    <3>5. ASSUME NEW e \in Entities, ~Has(e)'
          PROVE  (cache[e] # None => Seen(e)' = cache[e]) /\ Fair(e, Seen(e)')
      <4>1. cache[e] # None => ClassOf[e] \in Named
        BY <3>1 DEF ListOK
      <4>2. CASE e \in DOMAIN t.objects
        BY <1>2, <1>3, <3>1, <4>1, <4>2 DEF PendOK, Agrees, Fair
      <4>3. CASE e \notin DOMAIN t.objects
        BY <1>3, <1>4, <3>1, <3>5, <4>3 DEF RedisOK, Agrees
      <4> QED BY <4>2, <4>3
    <3>6. RedisOK'
      BY <1>1, <3>5 DEF RedisOK, Agrees, Fair, Good
    <3>7. ListOK'
      BY <1>1, <3>1 DEF ListOK, Named
    <3> QED BY <3>2, <3>4, <3>6, <3>7
  <2> QED BY <2>1, <2>2, <2>3 DEF AfterOK
<1> QED BY <1>5, <1>6, <1>7, <1>8 DEF PhaseOK

-----------------------------------------------------------------------------
(* The load                                                                *)

LEMMA InstallPhase == ASSUME SyncInv, Install, Parts' PROVE PhaseOK'
<1>1. CASE Disturb
  BY <1>1, Disturbed
<1>2. CASE ~Disturb
  <2>1. /\ lpc = "loaded" /\ lpc' = "begin" /\ cache' = loaded
        /\ UNCHANGED <<handler, store, redis, keys, tasks, steady, calm>>
    BY <1>2 DEF Install, envVars, keyVars, history
  <2>4. \A e : Seen(e)' = Seen(e)
    BY <2>1 DEF Seen, Named
  <2>2. ReadOK'
    BY <2>1, <2>4 DEF SyncInv, PhaseOK, ReadOK, Fair, Good
  <2>3. CalmOK' /\ UpdateOK' /\ IndexOK' /\ AfterOK'
    BY <2>1 DEF SyncInv, PhaseOK, CalmOK, UpdateOK, IndexOK, AfterOK, After, Full
  <2> QED BY <2>2, <2>3 DEF PhaseOK
<1> QED BY <1>1, <1>2

LEMMA BeginPhase == ASSUME SyncInv, BeginUpdate, Parts' PROVE PhaseOK'
<1>1. /\ lpc = "begin" /\ lpc' = "class"
      /\ old' = {<<e, cache[e]>> : e \in Present(cache)}
      /\ todo' = {ClassOf[e] : e \in Present(store)}
      /\ UNCHANGED <<handler, store, cache, redis, keys, tasks, steady, calm>>
  BY DEF BeginUpdate, envVars, keyVars, history
<1>4. Named' = Named /\ \A e : Seen(e)' = Seen(e)
  BY <1>1 DEF Seen, Named
<1>2. CalmOK' /\ ReadOK' /\ IndexOK' /\ AfterOK'
  BY <1>1 DEF SyncInv, PhaseOK, CalmOK, ReadOK, IndexOK, AfterOK, After, Full
<1>3. UpdateOK'
  <2> SUFFICES ASSUME steady PROVE (CompareOK /\ OldOK /\ WritesOK /\ ListOK)'
    BY <1>1 DEF UpdateOK
  <2>1. tasks = <<>> /\ cache = [e \in Entities |-> Seen(e)] /\ (calm > 0 => \A e \in Entities : Fair(e, cache[e]))
    BY <1>1 DEF SyncInv, PhaseOK, ReadOK
  <2>2. CompareOK'
    BY <1>1 DEF CompareOK
  <2>3. WritesOK'
    BY <1>1, <1>4, <2>1 DEF WritesOK, Pend, ToSet
  <2>8. ListOK'
    BY <1>1, <1>4, <2>1 DEF ListOK, Seen
  <2>4. \A e \in Entities : store[e] # None => Left(e)'
    BY <1>1 DEF Left, Present
  <2>5. \A e \in Entities : OldOf(e)'
    <3>1. ASSUME NEW e \in Entities, NEW o \in Objects PROVE <<e, o>> \in old' <=> o = cache'[e]
      BY <1>1, DataSyncAssumption DEF Present
    <3> QED BY <3>1 DEF OldOf
  <2>6. \A e \in Entities : calm > 0 => Fair(e, cache[e])'
    BY <1>1, <2>1 DEF Fair, Good
  <2>7. OldOK'
    BY <1>1, <2>4, <2>5, <2>6 DEF OldOK
  <2> QED BY <2>2, <2>3, <2>7, <2>8
<1> QED BY <1>2, <1>3 DEF PhaseOK

LEMMA FetchPhase ==
  ASSUME SyncInv, NEW c \in Classes, FetchClass(c), Parts' PROVE PhaseOK'
<1>1. /\ lpc = "class" /\ lpc' = "compare" /\ c \in todo /\ todo' = todo \ {c}
      /\ answer' = [e \in InClass(c) |-> store[e]]
      /\ UNCHANGED <<handler, store, cache, redis, keys, tasks, old, steady, calm>>
  BY DEF FetchClass, envVars, keyVars, history
<1>4. Named' = Named /\ \A e : Seen(e)' = Seen(e)
  BY <1>1 DEF Seen, Named
<1>2. CalmOK' /\ ReadOK' /\ IndexOK' /\ AfterOK'
  BY <1>1 DEF SyncInv, PhaseOK, CalmOK, ReadOK, IndexOK, AfterOK, After, Full
<1>3. UpdateOK'
  <2> SUFFICES ASSUME steady PROVE (CompareOK /\ OldOK /\ WritesOK /\ ListOK)'
    BY <1>1 DEF UpdateOK
  <2>1. OldOK /\ WritesOK /\ ListOK
    BY <1>1 DEF SyncInv, PhaseOK, UpdateOK
  <2>2. \A e \in Entities : Left(e)' <=> Left(e)
    BY <1>1 DEF Left, InClass
  <2>3. CompareOK'
    BY <1>1 DEF CompareOK
  <2>4. OldOK'
    BY <1>1, <2>1, <2>2 DEF OldOK, OldOf, Fair, Good
  <2>5. Pend' = Pend /\ \A t \in Pend : DOMAIN t.objects \subseteq Entities
    <3>1. ASSUME NEW t \in Pend PROVE DOMAIN t.objects \subseteq Entities
      <4>1. t \in Work /\ t.kind = "write"
        BY <3>1 DEF Pend, ToSet, SyncInv, Parts
      <4> QED BY <4>1, TaskOfWork DEF InClass
    <3> QED BY <1>1, <3>1 DEF Pend
  <2>6. WritesOK' /\ ListOK'
    BY <1>1, <1>4, <2>1, <2>2, <2>5 DEF WritesOK, ListOK, Has
  <2> QED BY <2>3, <2>4, <2>6
<1> QED BY <1>2, <1>3 DEF PhaseOK


(* A class is compared: its objects in the store become good, and what is  *)
(* left of it in old is what the store has no more.                        *)
LEMMA ComparePhase ==
  ASSUME SyncInv, CompareFuseki \/ CompareTrellis, Parts' PROVE PhaseOK'
<1>1. PICK got, kept :
    /\ DOMAIN got \subseteq Listed /\ \A e \in DOMAIN got : got[e] \in Objects
    /\ Update(got, kept)
    /\ \/ Disturb
       \/ /\ UNCHANGED history
          /\ DOMAIN got = Listed \ kept
          /\ handler = "fuseki" => kept = Same /\ \A e \in DOMAIN got : got[e] = answer[e]
          /\ handler # "fuseki" => kept = Whole /\ \A e \in DOMAIN got : got[e] \in Versions
  BY CompareFacts DEF SyncInv
<1>2. CASE Disturb
  BY <1>2, Disturbed
<1>3. CASE ~Disturb
  <2>5. \/ DOMAIN got = {} /\ tasks' = tasks /\ UNCHANGED keyVars /\ lpc' = "class"
        \/ \E e \in DOMAIN got :
             /\ WriteTask(cache', ClassOf[e]) \in Work
             /\ tasks' = Append(tasks, WriteTask(cache', ClassOf[e]))
             /\ ReadKeys("load", {ClassOf[e]}) /\ lpc' = "keys"
    <3>1. DOMAIN got \subseteq Entities
      BY <1>1 DEF SyncInv, Parts, LoadTyped, Partial, Listed
    <3> QED BY <1>1, <3>1, UpdateTasks DEF SyncInv
  <2>1. /\ lpc = "compare" /\ lpc' \in {"class", "keys"} /\ answer' = <<>>
        /\ UNCHANGED <<handler, store, redis, todo, steady, calm>>
    BY <1>1, <1>3, <2>5 DEF CompareFuseki, CompareTrellis, envVars, history
  <2>2. CalmOK' /\ ReadOK' /\ IndexOK' /\ AfterOK'
    BY <2>1 DEF SyncInv, PhaseOK, CalmOK, ReadOK, IndexOK, AfterOK, After, Full
  <2>3. UpdateOK'
    <3> SUFFICES ASSUME steady PROVE (CompareOK /\ OldOK /\ WritesOK /\ ListOK)'
      BY <2>1 DEF UpdateOK
    <3>1. OldOK /\ WritesOK /\ ListOK
      BY <2>1 DEF SyncInv, PhaseOK, UpdateOK
    <3>2. PICK c \in Classes \ todo : answer = [e \in InClass(c) |-> store[e]]
      BY <2>1 DEF SyncInv, PhaseOK, UpdateOK, CompareOK
    <3>3. Listed = {e \in InClass(c) : store[e] # None} /\ Listed \subseteq Entities
      BY <3>2 DEF Listed, InClass
    <3>4. /\ kept = {e \in Listed : cache[e] \in Good(e)}
          /\ \A e \in DOMAIN got : got[e] \in Good(e)
      <4>1. CASE handler = "fuseki"
        BY <1>1, <1>3, <3>2, <3>3, <4>1 DEF Good, Same
      <4>2. CASE handler # "fuseki"
        BY <1>1, <1>3, <4>2 DEF Good, Whole
      <4> QED BY <4>1, <4>2
    <3>5. /\ cache' = Override(cache, got)
          /\ old' = old \ {<<e, cache[e]>> : e \in kept}
      BY <1>1 DEF Update, PutClass
    <3>6. DOMAIN got = Listed \ kept
      BY <1>1, <1>3
    <3>7. \A e \in Entities : cache'[e] = IF e \in DOMAIN got THEN got[e] ELSE cache[e]
      BY <3>5 DEF Override
    <3>8. \A e \in Entities : /\ Left(e)' <=> ClassOf[e] \in todo
                              /\ Left(e) <=> ClassOf[e] \in todo \/ e \in InClass(c)
                              /\ e \in InClass(c) <=> ClassOf[e] = c
      BY <2>1, <3>2 DEF Left, InClass
    <3>9. CompareOK'
      BY <2>1 DEF CompareOK
    <3>10. OldOK'
      <4> SUFFICES ASSUME NEW e \in Entities
                   PROVE  /\ Left(e)' \/ store'[e] = None => OldOf(e)'
                          /\ ~Left(e)' /\ store'[e] # None =>
                               /\ cache'[e] \in Good(e)'
                               /\ calm' > 0 => \A o \in Objects : <<e, o>> \notin old'
                          /\ Left(e)' /\ calm' > 0 => Fair(e, cache[e])'
        BY DEF OldOK
      <4>1. Good(e)' = Good(e)
        BY <2>1 DEF Good
      <4>2. CASE e \notin Listed
        <5>1. cache'[e] = cache[e] /\ e \notin kept
          BY <3>4, <3>6, <3>7, <4>2
        <5>2. \A o : <<e, o>> \in old' <=> <<e, o>> \in old
          BY <3>5, <5>1
        <5>3. Left(e)' => Left(e)
          BY <3>8
        <5>4. store[e] # None => (Left(e)' <=> Left(e))
          BY <3>3, <3>8, <4>2
        <5> QED BY <2>1, <3>1, <4>1, <5>1, <5>2, <5>3, <5>4 DEF OldOK, OldOf, Fair
      <4>3. CASE e \in Listed
        <5>1. ~Left(e)' /\ Left(e) /\ store[e] # None
          BY <3>2, <3>3, <3>8, <4>3
        <5>2. cache'[e] \in Good(e)
          BY <3>4, <3>6, <3>7, <4>3
        <5>3. ASSUME calm > 0, NEW o \in Objects PROVE <<e, o>> \notin old'
          <6>1. <<e, o>> \in old => o = cache[e] /\ cache[e] \in Good(e)
            BY <3>1, <5>1, <5>3, DataSyncAssumption DEF OldOK, OldOf, Fair
          <6> QED BY <3>4, <3>5, <4>3, <6>1
        <5> QED BY <2>1, <4>1, <5>1, <5>2, <5>3
      <4> QED BY <4>2, <4>3
    <3>12. \A x : ReadKeys("load", {x}) /\ lpc' = "keys" => Named' = Named \cup {x}
      BY <2>1 DEF ReadKeys, Named, SyncInv, Parts, KeysTyped
    <3>13. ListOK'
      <4>1. CASE DOMAIN got = {}
        <5>1. \A e \in Entities : cache'[e] = cache[e]
          BY <3>7, <4>1
        <5>2. Named' = Named
          BY <2>1, <2>5, <4>1 DEF Named, keyVars
        <5> QED BY <3>1, <5>1, <5>2 DEF ListOK
      <4>2. CASE DOMAIN got # {}
        <5>1. PICK x \in DOMAIN got : ReadKeys("load", {ClassOf[x]}) /\ lpc' = "keys"
          BY <2>5, <4>2
        <5>2. ClassOf[x] = c
          BY <1>1, <3>3 DEF InClass
        <5>3. Named' = Named \cup {c}
          BY <3>12, <5>1, <5>2
        <5>4. \A e \in Entities : e \notin DOMAIN got => cache'[e] = cache[e]
          BY <3>7
        <5>5. \A e \in DOMAIN got : ClassOf[e] = c
          BY <1>1, <3>3 DEF InClass
        <5> QED BY <3>1, <5>3, <5>4, <5>5 DEF ListOK
      <4> QED BY <4>1, <4>2
    <3>11. WritesOK'
      <4>1. CASE DOMAIN got = {}
        <5>1. \A e \in Entities : cache'[e] = cache[e]
          BY <3>7, <4>1
        <5>2. Pend' = Pend /\ \A e : Seen(e)' = Seen(e)
          BY <2>1, <2>5, <4>1 DEF Pend, Seen, Named, keyVars
        <5>3. \A t \in Pend : DOMAIN t.objects \subseteq Entities
          <6>1. ASSUME NEW t \in Pend PROVE DOMAIN t.objects \subseteq Entities
            <7>1. t \in Work /\ t.kind = "write"
              BY <6>1 DEF Pend, ToSet, SyncInv, Parts
            <7> QED BY <7>1, TaskOfWork DEF InClass
          <6> QED BY <6>1
        <5> QED BY <2>1, <3>1, <3>8, <5>1, <5>2, <5>3 DEF WritesOK, Has
      <4>2. CASE DOMAIN got # {}
        <5>1. PICK x \in DOMAIN got :
                /\ WriteTask(cache', ClassOf[x]) \in Work
                /\ tasks' = Append(tasks, WriteTask(cache', ClassOf[x]))
                /\ ReadKeys("load", {ClassOf[x]}) /\ lpc' = "keys"
          BY <2>5, <4>2
        <5> DEFINE w == WriteTask(cache', c)
        <5>2. ClassOf[x] = c
          BY <1>1, <3>3 DEF InClass
        <5>3. w.kind = "write" /\ w.objects = [e \in InClass(c) |-> cache'[e]]
          BY DEF WriteTask
        <5>4. Pend' = Pend \cup {w}
          BY <5>1, <5>2, <5>3, PendAppend DEF SyncInv
        <5> HIDE DEF w
        <5>5. ASSUME NEW t \in Pend, NEW e \in DOMAIN t.objects
              PROVE  t.objects[e] = cache'[e] /\ ~Left(e)'
          <6>1. t \in Work /\ t.kind = "write"
            BY <5>5 DEF Pend, ToSet, SyncInv, Parts
          <6>2. e \in Entities
            BY <5>5, <6>1, TaskOfWork DEF InClass
          <6>3. t.objects[e] = cache[e] /\ ~Left(e)
            BY <3>1, <5>5 DEF WritesOK
          <6>4. e \notin DOMAIN got
            BY <1>1, <3>3, <3>8, <6>2, <6>3
          <6> QED BY <3>7, <3>8, <6>2, <6>3, <6>4
        <5>6. ASSUME NEW e \in InClass(c) PROVE w.objects[e] = cache'[e] /\ ~Left(e)'
          BY <3>2, <3>8, <5>3 DEF InClass
        <5>7. \A t \in Pend' : \A e \in DOMAIN t.objects : t.objects[e] = cache'[e] /\ ~Left(e)'
          BY <5>3, <5>4, <5>5, <5>6
        <5>8. ASSUME NEW e \in Entities PROVE Seen(e)' = cache'[e] \/ Has(e)'
          <6>1. CASE e \in InClass(c)
            <7>1. e \in DOMAIN w.objects
              BY <5>3, <6>1
            <7> QED BY <5>4, <7>1 DEF Has
          <6>2. CASE e \notin InClass(c)
            <7>1. e \notin DOMAIN got /\ ClassOf[e] # c
              BY <1>1, <3>3, <3>8, <6>2
            <7>4. Named' = Named \cup {ClassOf[x]}
              BY <3>12, <5>1
            <7>2. ClassOf[e] \in Named' <=> ClassOf[e] \in Named
              BY <5>2, <7>1, <7>4
            <7>3. Seen(e)' = Seen(e)
              BY <2>1, <7>2 DEF Seen
            <7> QED BY <3>1, <3>7, <5>4, <7>1, <7>3 DEF WritesOK, Has
          <6> QED BY <6>1, <6>2
        <5> QED BY <5>7, <5>8 DEF WritesOK
      <4> QED BY <4>1, <4>2
    <3> QED BY <3>9, <3>10, <3>11, <3>13
  <2> QED BY <2>2, <2>3 DEF PhaseOK
<1> QED BY <1>2, <1>3


(* What is left in old leaves the cache; what stays is good, and each of   *)
(* it is in one of the writes.                                             *)
LEMMA RemovePhase == ASSUME SyncInv, RemoveMissing, Parts' PROVE PhaseOK'
<1>1. /\ lpc = "class" /\ todo = {} /\ lpc' \in {"allkeys", "elastic"}
      /\ UNCHANGED <<handler, store, redis, steady, calm>>
  BY DEF RemoveMissing, envVars, history
<1>2. CASE ~steady
  BY <1>1, <1>2, Quiet DEF SyncInv, PhaseOK, CalmOK, Parts
<1>3. CASE steady
  <2>1. CalmOK' /\ ReadOK' /\ UpdateOK' /\ IndexOK'
    BY <1>1 DEF SyncInv, PhaseOK, CalmOK, ReadOK, UpdateOK, IndexOK
  <2>2. OldOK /\ WritesOK /\ ListOK /\ (\A e \in Entities : ~Left(e))
    BY <1>1, <1>3 DEF SyncInv, PhaseOK, UpdateOK, Left
  <2> DEFINE gone == {o[1] : o \in old}
  <2>3. ASSUME NEW e \in Entities PROVE e \in gone <=> \E o \in Objects : <<e, o>> \in old
    <3>1. ASSUME e \in gone PROVE \E o \in Objects : <<e, o>> \in old
      <4>1. PICK x \in old : e = x[1]
        BY <3>1
      <4>2. x = <<x[1], x[2]>> /\ x[2] \in Objects
        BY DEF SyncInv, Parts, LoadTyped
      <4> QED BY <4>1, <4>2
    <3>2. ASSUME NEW o \in Objects, <<e, o>> \in old PROVE e \in gone
      <4>1. <<e, o>>[1] = e
        OBVIOUS
      <4> QED BY <3>2, <4>1
    <3> QED BY <3>1, <3>2
  <2>4. ASSUME NEW e \in Entities, store[e] = None PROVE e \in gone <=> cache[e] # None
    <3>1. cache[e] \in Objects \cup {None}
      BY DEF SyncInv, Parts, MapsTyped, Maps
    <3>2. \A o \in Objects : <<e, o>> \in old <=> o = cache[e]
      BY <2>2, <2>4 DEF OldOK, OldOf
    <3> QED BY <2>3, <3>1, <3>2, DataSyncAssumption
  <2>5. \A e \in Entities : store[e] # None /\ calm > 0 => e \notin gone
    BY <2>2, <2>3 DEF OldOK
  <2>6. \A e \in Entities : store[e] # None => cache[e] \in Good(e) /\ Fair(e, cache[e])
    BY <2>2 DEF OldOK, Fair
  <2>7. \A e \in Entities : cache'[e] = IF e \in gone THEN None ELSE cache[e]
    <3>1. CASE UNCHANGED cache /\ old = {}
      BY <3>1
    <3>2. CASE cache' = Override(cache, [e \in gone |-> None])
      BY <3>2 DEF Override
    <3> QED BY <3>1, <3>2, RemoveTasks DEF SyncInv
  <2> HIDE DEF gone
  <2>8. OnlyGood'
    BY <1>1, <2>4, <2>6, <2>7 DEF OnlyGood, Good
  <2>9. calm > 0 => AllThere'
    <3>1. \A e \in Entities : store[e] # None => cache[e] # None
      <4>1. \A e \in Entities : None \notin Good(e) \/ store[e] = None
        BY DataSyncAssumption DEF Good, Objects
      <4> QED BY <2>6, <4>1
    <3> QED BY <1>1, <2>5, <2>7, <3>1 DEF AllThere
  <2> DEFINE NowAgrees(e, o) == (cache'[e] # None => o = cache'[e]) /\ Fair(e, o)
  <2>10. \A e \in Entities : NowAgrees(e, cache[e]) /\ NowAgrees(e, cache'[e])
    BY <2>6, <2>7 DEF Fair
  <2>14. /\ PendOK' <=> \A t \in Pend' : \A e \in DOMAIN t.objects : NowAgrees(e, t.objects[e])
         /\ RedisOK' <=> \A e \in Entities : Has(e)' \/ NowAgrees(e, Seen(e)')
    BY <1>1 DEF PendOK, RedisOK, Agrees, Fair, Good
  <2> HIDE DEF NowAgrees
  <2>11. \A t \in Pend : \A e \in DOMAIN t.objects : e \in Entities /\ t.objects[e] = cache[e]
    <3>1. ASSUME NEW t \in Pend PROVE DOMAIN t.objects \subseteq Entities
      <4>1. t \in Work /\ t.kind = "write"
        BY <3>1 DEF Pend, ToSet, SyncInv, Parts
      <4> QED BY <4>1, TaskOfWork DEF InClass
    <3> QED BY <2>2, <3>1 DEF WritesOK
  <2>15. \A C : ReadKeys("load", C) /\ lpc' = "allkeys" => Named' = Named \cup C
    BY <1>1 DEF ReadKeys, Named, SyncInv, Parts, KeysTyped
  <2>12. PendOK' /\ RedisOK'
    <3>1. CASE UNCHANGED <<cache, tasks, keyVars>> /\ lpc' = "elastic"
      <4>1. Pend' = Pend /\ \A e : Seen(e)' = Seen(e)
        BY <1>1, <3>1 DEF Pend, Seen, Named, keyVars
      <4>2. \A e \in Entities : Has(e)' <=> Has(e)
        BY <4>1 DEF Has
      <4> QED BY <2>2, <2>10, <2>11, <2>14, <4>1, <4>2 DEF WritesOK
    <3>2. ASSUME NEW q \in Seq(Classes),
                 {ClassOf[e] : e \in Present(cache)} \subseteq ToSet(q),
                 tasks' = tasks \o WriteTasks(cache', q), WriteTasks(cache', q) \in Seq(Work),
                 ReadKeys("load", ToSet(q)), lpc' = "allkeys"
          PROVE  PendOK' /\ RedisOK'
      <4>1. ToSet(tasks)' = ToSet(tasks) \cup {WriteTask(cache', c) : c \in ToSet(q)}
        BY <3>2, ConcatSet, WriteTaskFacts DEF SyncInv, Parts
      <4>2. Pend' = Pend \cup {WriteTask(cache', c) : c \in ToSet(q)}
        BY <4>1 DEF Pend, WriteTask
      <4>3. ASSUME NEW c, NEW e \in InClass(c)
            PROVE  NowAgrees(e, WriteTask(cache', c).objects[e])
        <5>1. WriteTask(cache', c).objects[e] = cache'[e] /\ e \in Entities
          BY <4>3 DEF WriteTask, InClass
        <5> QED BY <2>10, <5>1
      <4>4. \A c : DOMAIN WriteTask(cache', c).objects = InClass(c)
        BY DEF WriteTask
      <4>5. PendOK'
        <5>1. ASSUME NEW t \in Pend', NEW e \in DOMAIN t.objects PROVE NowAgrees(e, t.objects[e])
          BY <2>10, <2>11, <4>2, <4>3, <4>4
        <5> QED BY <2>14, <5>1
      <4>6. ASSUME NEW e \in Entities PROVE Has(e)' \/ NowAgrees(e, Seen(e)')
        <5>1. CASE ClassOf[e] \in ToSet(q)
          <6>1. e \in DOMAIN WriteTask(cache', ClassOf[e]).objects
            BY <4>4 DEF InClass
          <6> QED BY <4>2, <5>1, <6>1 DEF Has
        <5>2. CASE ClassOf[e] \notin ToSet(q)
          <6>1. Seen(e)' = Seen(e)
            BY <1>1, <2>15, <3>2, <5>2 DEF Seen
          <6>2. Seen(e) = cache[e] \/ Has(e)'
            BY <2>2, <4>2 DEF WritesOK, Has
          <6> QED BY <2>10, <6>1, <6>2
        <5> QED BY <5>1, <5>2
      <4> QED BY <2>14, <4>5, <4>6
    <3> QED BY <3>1, <3>2, RemoveTasks DEF SyncInv
  <2>16. ListOK'
    <3>1. Named \subseteq Named'
      <4>1. CASE UNCHANGED keyVars /\ lpc' = "elastic"
        BY <1>1, <4>1 DEF Named, keyVars
      <4>2. ASSUME NEW C, ReadKeys("load", C), lpc' = "allkeys" PROVE Named \subseteq Named'
        BY <2>15, <4>2
      <4> QED BY <4>1, <4>2, RemoveTasks DEF SyncInv
    <3> QED BY <2>2, <2>7, <3>1 DEF ListOK
  <2>13. AfterOK'
    BY <1>1, <2>8, <2>9, <2>12, <2>16 DEF AfterOK, After, Full
  <2> QED BY <2>1, <2>13 DEF PhaseOK
<1> QED BY <1>2, <1>3

(* The list that the load writes is the one it is said to find already.    *)
LEMMA KeysPhase == ASSUME SyncInv, WriteKeys("load"), Parts' PROVE PhaseOK'
<1>1. /\ \/ lpc = "keys" /\ lpc' = "class"
         \/ lpc = "allkeys" /\ lpc' = "elastic"
      /\ keys' = saving["load"]
      /\ UNCHANGED <<handler, store, cache, redis, tasks, old, todo, answer, steady, calm>>
  BY DEF WriteKeys, envVars, history
<1>2. Named' = Named /\ \A e : Seen(e)' = Seen(e)
  BY <1>1 DEF Seen, Named
<1>3. CalmOK' /\ ReadOK' /\ IndexOK'
  BY <1>1 DEF SyncInv, PhaseOK, CalmOK, ReadOK, IndexOK
<1>4. UpdateOK'
  <2>1. CASE lpc = "keys"
    <3>1. \A e : (Left(e)' <=> Left(e)) /\ (Has(e)' <=> Has(e))
      BY <1>1, <2>1 DEF Left, Has, Pend
    <3>2. Pend' = Pend
      BY <1>1 DEF Pend
    <3>3. CompareOK'
      BY <1>1, <2>1 DEF CompareOK
    <3>4. (OldOK' <=> OldOK) /\ (WritesOK' <=> WritesOK) /\ (ListOK' <=> ListOK)
      BY <1>1, <1>2, <3>1, <3>2 DEF OldOK, OldOf, WritesOK, ListOK, Fair, Good
    <3> QED BY <1>1, <2>1, <3>3, <3>4 DEF SyncInv, PhaseOK, UpdateOK
  <2>2. CASE lpc = "allkeys"
    BY <1>1, <2>2 DEF UpdateOK
  <2> QED BY <1>1, <2>1, <2>2
<1>5. AfterOK'
  <2>1. (After' => After) /\ (Full' => Full)
    BY <1>1 DEF After, Full
  <2> QED BY <1>1, <1>2, <2>1 DEF SyncInv, PhaseOK, AfterOK, OnlyGood, PendOK, RedisOK, ListOK,
                            AllThere, Has, Pend, Agrees, Fair, Good
<1> QED BY <1>3, <1>4, <1>5 DEF PhaseOK

-----------------------------------------------------------------------------
(* The index, and the next load                                            *)

LEMMA PlanPhase ==
  ASSUME SyncInv, NEW t \in {"load", "change"}, ElasticPlan(t), Parts' PROVE PhaseOK'
<1>1. /\ UNCHANGED <<handler, store, cache, redis, es, keys, saving, tasks, loaded, old, todo, answer, steady, calm>>
      /\ \/ t = "load" /\ lpc = "elastic" /\ lpc' = "index"
         \/ t = "change" /\ lpc' = lpc
      /\ plan' = [plan EXCEPT ![t] = MissingInElastic]
  BY DEF ElasticPlan, envVars, keyVars, history
<1>5. Named' = Named /\ \A e : Seen(e)' = Seen(e)
  BY <1>1 DEF Seen, Named
<1>2. IndexOK'
  <2>1. DOMAIN plan = {"load", "change"}
    BY DEF SyncInv, Parts, PlanTyped
  <2>2. CASE t = "load"
    BY <1>1, <2>1, <2>2 DEF IndexOK, MissingInElastic, Present
  <2>3. CASE t = "change"
    BY <1>1, <2>1, <2>3 DEF SyncInv, PhaseOK, IndexOK, Present
  <2> QED BY <2>2, <2>3
<1>3. CalmOK' /\ ReadOK' /\ UpdateOK'
  <2>1. CASE lpc' = lpc
    <3>1. CalmOK' /\ ReadOK'
      BY <1>1, <1>5, <2>1 DEF SyncInv, PhaseOK, CalmOK, ReadOK, Fair, Good
    <3>2. UNCHANGED <<handler, store, cache, redis, tasks, lpc, old, todo, answer, steady, calm>>
      BY <1>1, <2>1
    <3>3. /\ (CompareOK' <=> CompareOK) /\ (OldOK' <=> OldOK)
          /\ (WritesOK' <=> WritesOK) /\ (ListOK' <=> ListOK)
      BY <1>5, <3>2 DEF CompareOK, OldOK, OldOf, WritesOK, ListOK, Left, Has, Pend, Fair, Good
    <3>4. UpdateOK'
      BY <3>2, <3>3 DEF SyncInv, PhaseOK, UpdateOK
    <3> QED BY <3>1, <3>4
  <2>2. CASE lpc' = "index"
    BY <1>1, <2>2 DEF SyncInv, PhaseOK, CalmOK, ReadOK, UpdateOK
  <2> QED BY <1>1, <2>1, <2>2
<1>4. AfterOK'
  <2>1. (After' => After) /\ (Full' => Full)
    BY <1>1 DEF After, Full
  <2> QED BY <1>1, <1>5, <2>1 DEF SyncInv, PhaseOK, AfterOK, OnlyGood, PendOK, RedisOK, ListOK,
                            AllThere, Has, Pend, Agrees, Fair, Good
<1> QED BY <1>2, <1>3, <1>4 DEF PhaseOK

LEMMA FinishPhase == ASSUME SyncInv, FinishLoad, Parts' PROVE PhaseOK'
<1>1. CASE Disturb
  BY <1>1, Disturbed
<1>2. CASE ~Disturb
  <2>1. /\ lpc = "index" /\ lpc' = "idle" /\ es' = Indexed("load", Classes) /\ steady' = steady
        /\ calm' = IF ~steady THEN 0 ELSE IF calm = 2 THEN 2 ELSE calm + 1
        /\ UNCHANGED <<handler, store, cache, redis, keys, tasks>>
    BY <1>2 DEF FinishLoad, EndLoad, envVars, keyVars
  <2>4. Named' = Named /\ \A e : Seen(e)' = Seen(e)
    BY <2>1 DEF Seen, Named
  <2>2. CASE ~steady
    BY <2>1, <2>2, Quiet DEF Parts
  <2>3. CASE steady
    <3>1. CalmOK' /\ ReadOK' /\ UpdateOK'
      BY <2>1, <2>3 DEF CalmOK, ReadOK, UpdateOK
    <3>2. IndexOK'
      <4>1. Present(cache) \ Present(es) \subseteq DOMAIN plan["load"]
        BY <2>1, <2>3 DEF SyncInv, PhaseOK, IndexOK
      <4>2. \A e \in DOMAIN plan["load"] : plan["load"][e] # None
        BY DataSyncAssumption DEF SyncInv, Parts, PlanTyped, Partial
      <4>3. \A e \in Entities : es'[e] = IF e \in DOMAIN plan["load"] THEN plan["load"][e] ELSE es[e]
        BY <2>1, DataSyncAssumption DEF Indexed, Override
      <4>4. Present(cache') \subseteq Present(es')
        BY <2>1, <4>1, <4>2, <4>3 DEF Present
      <4> QED BY <2>1, <4>4 DEF IndexOK, Present
    <3>3. AfterOK'
      <4>1. After /\ (Full' => Full)
        BY <2>1, <2>3 DEF After, Full, SyncInv, Parts, RestTyped
      <4> QED BY <2>1, <2>4, <4>1 DEF SyncInv, PhaseOK, AfterOK, OnlyGood, PendOK, RedisOK, ListOK,
                                AllThere, Has, Pend, Agrees, Fair, Good
    <3> QED BY <3>1, <3>2, <3>3 DEF PhaseOK
  <2> QED BY <2>2, <2>3
<1> QED BY <1>1, <1>2

LEMMA ReloadPhase == ASSUME SyncInv, Reload, Parts' PROVE PhaseOK'
<1>1. /\ lpc = "idle" /\ lpc' = "queued" /\ tasks' = Append(tasks, LoadTask)
      /\ UNCHANGED <<handler, store, cache, redis, keys, steady, calm>>
  BY DEF Reload, keyVars, history
<1>6. Named' = Named /\ \A e : Seen(e)' = Seen(e)
  BY <1>1 DEF Seen, Named
<1>2. Pend' = Pend
  <2>1. LoadTask \in Work /\ LoadTask.kind # "write"
    BY DEF Work, LoadTask
  <2> QED BY <1>1, <2>1, PendAppend DEF SyncInv
<1>3. CalmOK' /\ ReadOK' /\ UpdateOK' /\ IndexOK'
  BY <1>1 DEF SyncInv, PhaseOK, CalmOK, ReadOK, UpdateOK, IndexOK
<1>4. (After' => After) /\ (Full' => Full)
  BY <1>1 DEF After, Full
<1>5. AfterOK'
  BY <1>1, <1>2, <1>4, <1>6 DEF SyncInv, PhaseOK, AfterOK, OnlyGood, PendOK, RedisOK, ListOK,
                          AllThere, Has, Agrees, Fair, Good
<1> QED BY <1>3, <1>5 DEF PhaseOK

-----------------------------------------------------------------------------
(* The invariant, and what follows from it                                 *)

LEMMA StutterPhase == ASSUME SyncInv, UNCHANGED vars PROVE SyncInv'
<1>1. UNCHANGED <<handler, store, cache, redis, es, keys, saving, tasks, lpc, loaded, old, todo,
                  answer, plan, steady, calm>>
  BY DEF vars, envVars, keyVars, loadVars, history
<1>7. Named' = Named /\ \A e : Seen(e)' = Seen(e)
  BY <1>1 DEF Seen, Named
<1>2. Parts'
  BY Kept DEF SyncInv, Parts, vars, envVars, loadVars, changeVars, history
<1>3. TasksOK'
  BY <1>1, QueueKept DEF SyncInv
<1>4. CalmOK' /\ ReadOK' /\ IndexOK'
  BY <1>1, <1>7 DEF SyncInv, PhaseOK, CalmOK, ReadOK, IndexOK, Present, Fair, Good
<1>5. UpdateOK'
  <2>1. Pend' = Pend /\ \A e : (Left(e)' <=> Left(e)) /\ (Has(e)' <=> Has(e))
    BY <1>1 DEF Left, Has, Pend
  <2>2. (CompareOK' <=> CompareOK) /\ (ListOK' <=> ListOK)
    BY <1>1, <1>7 DEF CompareOK, ListOK
  <2>3. (OldOK' <=> OldOK) /\ (WritesOK' <=> WritesOK)
    BY <1>1, <1>7, <2>1 DEF OldOK, OldOf, WritesOK, Fair, Good
  <2> QED BY <1>1, <2>2, <2>3 DEF SyncInv, PhaseOK, UpdateOK
<1>6. AfterOK'
  BY <1>1, <1>7 DEF SyncInv, PhaseOK, AfterOK, After, Full, OnlyGood, PendOK, RedisOK, ListOK,
                    AllThere, Has, Pend, Agrees, Fair, Good
<1> QED BY <1>2, <1>3, <1>4, <1>5, <1>6 DEF SyncInv, PhaseOK

LEMMA SyncStep == ASSUME SyncInv, Next PROVE SyncInv'
<1>1. Parts'
  <2>1. Parts
    BY DEF SyncInv
  <2> QED BY <2>1, PoolType, InstallType, BeginType, FetchType, CompareType, BreaksType,
         RemoveType, KeysType, FailsType, PlanType, FinishType, FinishChangeType, NoticeType, DeleteType,
         SaveType, StoreType, ReloadType, CrashType
         DEF Next, PoolStep, LoadStep, ChangeStep, Environment
<1>2. TasksOK'
  BY QueueStep DEF SyncInv
<1>3. PhaseOK'
  <2>1. CASE PoolStep
    BY <1>1, <2>1, StartPhase, ReadPhase, WritePhase DEF PoolStep
  <2>2. CASE LoadStep
    <3>1. CASE CompareBreaks \/ LoadFails
      BY <1>1, <3>1, Disturbed DEF CompareBreaks, LoadFails
    <3> QED BY <1>1, <2>2, <3>1, InstallPhase, BeginPhase, FetchPhase, ComparePhase, RemovePhase,
               KeysPhase, PlanPhase, FinishPhase DEF LoadStep
  <2>3. CASE ChangeStep
    <3>1. CASE ElasticPlan("change")
      BY <1>1, <3>1, PlanPhase
    <3>2. CASE Disturb
      BY <1>1, <3>2, Disturbed
    <3>3. WriteKeys("change") => Disturb
      BY DEF WriteKeys
    <3> QED BY <2>3, <3>1, <3>2, <3>3 DEF ChangeStep, TakeNotice, DeleteFromElastic, SaveChange,
                                          FinishChange
  <2>4. CASE Environment
    <3>1. CASE Disturb
      BY <1>1, <3>1, Disturbed
    <3> QED BY <1>1, <2>4, <3>1, ReloadPhase DEF Environment, StoreChanges, Crash
  <2> QED BY <2>1, <2>2, <2>3, <2>4 DEF Next
<1> QED BY <1>1, <1>2, <1>3 DEF SyncInv

THEOREM CopiesAgree == Spec => []SyncInv
<1>1. Init => SyncInv
  BY InitType, TypeParts, QueueInit, PhaseInit DEF SyncInv
<1>2. SyncInv /\ [Next]_vars => SyncInv'
  BY SyncStep, StutterPhase
<1> QED BY <1>1, <1>2, PTL DEF Spec

(* Two loads in a row that nothing disturbs bring the cache to the store,  *)
(* whatever the cache and Redis held before, and whatever writes to Redis  *)
(* were waiting: the comparisons and removals of updateTriplesMap and      *)
(* updateCachedData leave no wrong object, lost one or one too many.       *)
THEOREM Converges == Spec => []CacheConverges
<1>1. SyncInv => CacheConverges
  <2> SUFFICES ASSUME SyncInv, Rest(2), NEW e \in Entities
               PROVE  /\ (cache[e] = None) = (store[e] = None)
                      /\ handler = "fuseki" => cache[e] = store[e]
    BY DEF CacheConverges
  <2>1. calm = 2 /\ lpc = "idle"
    BY DEF Rest, SyncInv, Parts, RestTyped
  <2>2. After /\ Full
    BY <2>1 DEF After, Full
  <2>3. /\ cache[e] = None \/ (store[e] # None /\ cache[e] \in Good(e))
        /\ store[e] # None => cache[e] # None
    BY <2>2 DEF SyncInv, PhaseOK, AfterOK, OnlyGood, AllThere
  <2> QED BY <2>3 DEF Good
<1> QED BY <1>1, CopiesAgree, PTL

(* After a load that nothing disturbed, updateElasticData has put in the   *)
(* index whatever the cache has and the index lacked.                      *)
THEOREM AllSearchable == Spec => []Searchable
<1>1. SyncInv => Searchable
  BY DEF SyncInv, Parts, RestTyped, PhaseOK, IndexOK, Searchable, Rest
<1> QED BY <1>1, CopiesAgree, PTL

(* The two threads of the pool may write the classes to Redis in another   *)
(* order than they were saved in, and saves of the same class may follow   *)
(* one another, and saves of other threads may have written an old list of *)
(* keys back: after a load that nothing disturbed, once its writes are     *)
(* done, Redis has what the cache has, under keys that are listed.         *)
THEOREM RestartSafe == Spec => []RestartLosesNothing
<1>1. SyncInv => RestartLosesNothing
  <2> SUFFICES ASSUME SyncInv, Rest(1), tasks = <<>>, NEW e \in Present(cache)
               PROVE  redis[e] = cache[e] /\ ClassOf[e] \in keys
    BY DEF RestartLosesNothing
  <2>1. After /\ Named = keys
    BY DEF Rest, SyncInv, Parts, RestTyped, After, Named
  <2>2. ~Has(e)
    BY DEF Has, Pend, ToSet
  <2>3. Seen(e) = cache[e] /\ ClassOf[e] \in Named
    BY <2>1, <2>2 DEF SyncInv, PhaseOK, AfterOK, RedisOK, ListOK, Agrees, Present
  <2> QED BY <2>1, <2>3 DEF Seen
<1> QED BY <1>1, CopiesAgree, PTL

=============================================================================

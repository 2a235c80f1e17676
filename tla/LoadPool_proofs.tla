--------------------------- MODULE LoadPool_proofs --------------------------
(***************************************************************************)
(* Theorems about LoadPool for every size of the pool, number of loads and *)
(* length of the list.                                                     *)
(***************************************************************************)
EXTENDS LoadPool, FiniteSetTheorems, TLAPS

(* The pool keeps its bounds, and tasks wait only when the core has all    *)
(* its threads.                                                            *)
PoolTyped ==
  /\ queue \in Seq(AllTasks) /\ Len(queue) <= QueueCapacity
  /\ running \subseteq AllTasks /\ IsFiniteSet(running)
  /\ Cardinality(running) <= workers /\ workers \in 1..MaxPoolSize
  /\ queue # <<>> => workers >= CorePoolSize
TypeInv == TypeOK /\ PoolTyped

(* The tasks that the pool has accepted and that have not ended.           *)
Accepted == running \cup ToSet(queue)

(* Only a load that reads waits for reads.                                 *)
OnlyReadersWait == \A l \in Loads : waiting[l] # {} => stage[l] = "reading"

(* A load in the queue has not begun, and is there once.                   *)
QueuedOnce ==
  \A i \in DOMAIN queue : queue[i].kind = "load" =>
    /\ stage[queue[i].load] = "queued"
    /\ \A j \in DOMAIN queue : queue[j] = queue[i] => j = i

(* The bound on the loads that read.                                       *)
ReadersBounded == IsFiniteSet(Reading) /\ Cardinality(Reading) <= AtOnce

Inv ==
  /\ TypeInv /\ OnlyReadersWait /\ QueuedOnce /\ ReadersBounded
  /\ AwaitedIsScheduled

-----------------------------------------------------------------------------
(* The queue                                                               *)

LEMMA QueueFacts ==
  ASSUME NEW S, NEW q \in Seq(S), NEW t \in S
  PROVE  /\ Append(q, t) \in Seq(S) /\ Len(Append(q, t)) = Len(q) + 1
         /\ ToSet(Append(q, t)) = ToSet(q) \cup {t}
<1>1. /\ Len(q) \in Nat /\ DOMAIN q = 1..Len(q)
      /\ Append(q, t) \in Seq(S) /\ Len(Append(q, t)) = Len(q) + 1
      /\ DOMAIN Append(q, t) = 1..(Len(q) + 1)
      /\ \A i \in 1..Len(q) : Append(q, t)[i] = q[i]
      /\ Append(q, t)[Len(q) + 1] = t
  OBVIOUS
<1>2. ASSUME NEW x PROVE x \in ToSet(Append(q, t)) <=> x \in ToSet(q) \cup {t}
  BY <1>1 DEF ToSet
<1> QED BY <1>1, <1>2

LEMMA TailFacts ==
  ASSUME NEW S, NEW q \in Seq(S), q # <<>>
  PROVE  /\ Head(q) \in S /\ Tail(q) \in Seq(S) /\ Len(Tail(q)) = Len(q) - 1
         /\ ToSet(q) = {Head(q)} \cup ToSet(Tail(q))
         /\ Head(q) = q[1] /\ 1 \in DOMAIN q
         /\ \A i \in DOMAIN Tail(q) : i + 1 \in DOMAIN q /\ Tail(q)[i] = q[i + 1]
<1>1. /\ Len(q) \in Nat /\ DOMAIN q = 1..Len(q) /\ Len(q) > 0
      /\ Head(q) = q[1] /\ Head(q) \in S
      /\ Tail(q) \in Seq(S) /\ Len(Tail(q)) = Len(q) - 1
      /\ DOMAIN Tail(q) = 1..(Len(q) - 1)
      /\ \A i \in 1..(Len(q) - 1) : Tail(q)[i] = q[i + 1]
  OBVIOUS
<1>2. ASSUME NEW x \in ToSet(q) PROVE x \in {Head(q)} \cup ToSet(Tail(q))
  <2>1. PICK i \in 1..Len(q) : x = q[i]
    BY <1>1 DEF ToSet
  <2>2. CASE i = 1
    BY <1>1, <2>1, <2>2
  <2>3. CASE i # 1
    <3>1. i - 1 \in 1..(Len(q) - 1) /\ (i - 1) + 1 = i
      BY <1>1, <2>3
    <3> QED BY <1>1, <2>1, <3>1 DEF ToSet
  <2> QED BY <2>2, <2>3
<1>3. \A x \in {Head(q)} \cup ToSet(Tail(q)) : x \in ToSet(q)
  BY <1>1 DEF ToSet
<1> QED BY <1>1, <1>2, <1>3

-----------------------------------------------------------------------------
(* What a submission does                                                  *)

LEMMA ExecuteFacts ==
  ASSUME NEW t, workers \in Nat, PoolIs(Execute(t))
  PROVE  \/ /\ Execute(t).ok /\ Execute(t).running = running \cup {t} /\ workers < MaxPoolSize
            /\ queue' = queue /\ running' = running \cup {t} /\ workers' = workers + 1
         \/ /\ Execute(t).ok /\ Execute(t).running = running
            /\ workers >= CorePoolSize /\ Len(queue) < QueueCapacity
            /\ queue' = Append(queue, t) /\ running' = running /\ workers' = workers
         \/ ~Execute(t).ok /\ UNCHANGED <<queue, running, workers>>
<1> USE LoadPoolAssumption
<1>1. /\ Started(t).queue = queue /\ Started(t).running = running \cup {t}
      /\ Started(t).workers = workers + 1 /\ Started(t).ok
  BY DEF Started, Pool
<1>2. /\ Delayed(t).queue = Append(queue, t) /\ Delayed(t).running = running
      /\ Delayed(t).workers = workers /\ Delayed(t).ok
  BY DEF Delayed, Pool
<1>3. /\ Rejected(t).queue = queue /\ Rejected(t).running = running
      /\ Rejected(t).workers = workers /\ ~Rejected(t).ok
  BY DEF Rejected, Pool
<1>4. \/ Execute(t) = Started(t) /\ workers < MaxPoolSize
      \/ Execute(t) = Delayed(t) /\ workers >= CorePoolSize /\ Len(queue) < QueueCapacity
      \/ Execute(t) = Rejected(t)
  BY DEF Execute
<1> QED BY <1>1, <1>2, <1>3, <1>4 DEF PoolIs

LEMMA OneMore ==
  ASSUME NEW S, IsFiniteSet(S), NEW t
  PROVE  /\ IsFiniteSet(S \cup {t}) /\ Cardinality(S) \in Nat
         /\ Cardinality(S \cup {t}) \in Nat
         /\ Cardinality(S \cup {t}) <= Cardinality(S) + 1
<1>1. Cardinality(S) \in Nat
  BY FS_CardinalityType
<1>2. /\ IsFiniteSet(S \cup {t})
      /\ Cardinality(S \cup {t}) = IF t \in S THEN Cardinality(S) ELSE Cardinality(S) + 1
  BY FS_AddElement
<1> QED BY <1>1, <1>2

LEMMA OneLess ==
  ASSUME NEW S, IsFiniteSet(S), NEW t
  PROVE  /\ IsFiniteSet(S \ {t}) /\ Cardinality(S) \in Nat
         /\ Cardinality(S \ {t}) \in Int
         /\ Cardinality(S \ {t}) <= Cardinality(S)
<1>1. Cardinality(S) \in Nat
  BY FS_CardinalityType
<1>2. /\ IsFiniteSet(S \ {t})
      /\ Cardinality(S \ {t}) = IF t \in S THEN Cardinality(S) - 1 ELSE Cardinality(S)
  BY FS_RemoveElement
<1> QED BY <1>1, <1>2

LEMMA ExecuteTyped ==
  ASSUME PoolTyped, NEW t \in AllTasks, PoolIs(Execute(t))
  PROVE  /\ PoolTyped' /\ Accepted \subseteq Accepted'
         /\ Accepted' \subseteq Accepted \cup {t} /\ workers' >= workers
         /\ Execute(t).ok => /\ t \in Accepted'
                             /\ CorePoolSize > 1 => workers' > 1
<1> USE LoadPoolAssumption
<1>1. /\ Append(queue, t) \in Seq(AllTasks) /\ Len(Append(queue, t)) = Len(queue) + 1
      /\ ToSet(Append(queue, t)) = ToSet(queue) \cup {t} /\ Len(queue) \in Nat
  BY QueueFacts DEF PoolTyped
<1>2. /\ IsFiniteSet(running \cup {t}) /\ Cardinality(running) \in Nat
      /\ Cardinality(running \cup {t}) \in Nat
      /\ Cardinality(running \cup {t}) <= Cardinality(running) + 1
      /\ workers \in Nat /\ workers > 0
  <2>1. IsFiniteSet(running) /\ workers \in 1..MaxPoolSize
    BY DEF PoolTyped
  <2>2. workers \in Nat /\ workers > 0
    BY <2>1
  <2> QED BY <2>1, <2>2, OneMore, Zenon
<1>3. CASE /\ Execute(t).ok /\ workers < MaxPoolSize
           /\ queue' = queue /\ running' = running \cup {t} /\ workers' = workers + 1
  <2>1. PoolTyped'
    BY <1>2, <1>3 DEF PoolTyped
  <2>2. Accepted' = Accepted \cup {t}
    BY <1>3 DEF Accepted
  <2> QED BY <1>2, <1>3, <2>1, <2>2
<1>4. CASE /\ Execute(t).ok /\ workers >= CorePoolSize /\ Len(queue) < QueueCapacity
           /\ queue' = Append(queue, t) /\ running' = running /\ workers' = workers
  <2>1. PoolTyped'
    BY <1>1, <1>2, <1>4 DEF PoolTyped
  <2>2. Accepted' = Accepted \cup {t}
    BY <1>1, <1>4 DEF Accepted
  <2> QED BY <1>2, <1>4, <2>1, <2>2
<1>5. CASE ~Execute(t).ok /\ UNCHANGED <<queue, running, workers>>
  <2>1. PoolTyped'
    BY <1>5 DEF PoolTyped
  <2>2. Accepted' = Accepted
    BY <1>5 DEF Accepted
  <2> QED BY <1>2, <1>5, <2>1, <2>2
<1> QED BY <1>2, <1>3, <1>4, <1>5, ExecuteFacts

(* A task that ends, or a load, leaves its thread.                         *)
LEMMA RunningTyped ==
  ASSUME PoolTyped, NEW t, running' = running \ {t}, UNCHANGED <<queue, workers>>
  PROVE  PoolTyped' /\ Accepted \subseteq Accepted' \cup {t} /\ Accepted' \subseteq Accepted
<1> USE LoadPoolAssumption
<1>1. /\ IsFiniteSet(running \ {t}) /\ Cardinality(running) \in Nat
      /\ Cardinality(running \ {t}) <= Cardinality(running)
      /\ Cardinality(running \ {t}) \in Int
  <2>1. IsFiniteSet(running)
    BY DEF PoolTyped
  <2> QED BY <2>1, OneLess, Zenon
<1>2. /\ running \ {t} \subseteq AllTasks /\ Cardinality(running) <= workers
      /\ workers \in 1..MaxPoolSize /\ workers \in Int
  BY DEF PoolTyped
<1>3. Cardinality(running \ {t}) <= workers
  BY <1>1, <1>2
<1>4. PoolTyped'
  BY <1>1, <1>2, <1>3 DEF PoolTyped
<1> QED BY <1>4 DEF Accepted

LEMMA TakeTyped ==
  ASSUME PoolTyped, TakeTask
  PROVE  PoolTyped' /\ Accepted' = Accepted /\ Head(queue) \in AllTasks
<1> USE LoadPoolAssumption
<1>1. /\ Head(queue) \in AllTasks /\ Tail(queue) \in Seq(AllTasks)
      /\ Len(Tail(queue)) = Len(queue) - 1 /\ Len(queue) \in Nat
      /\ ToSet(queue) = {Head(queue)} \cup ToSet(Tail(queue))
  BY TailFacts DEF PoolTyped, TakeTask
<1>2. /\ IsFiniteSet(running \cup {Head(queue)}) /\ Cardinality(running) \in Nat
      /\ Cardinality(running \cup {Head(queue)}) \in Nat
      /\ Cardinality(running \cup {Head(queue)}) <= Cardinality(running) + 1
      /\ workers \in Nat
  <2>1. IsFiniteSet(running) /\ workers \in 1..MaxPoolSize
    BY DEF PoolTyped
  <2>2. workers \in Nat
    BY <2>1
  <2> QED BY <2>1, <2>2, OneMore, Zenon
<1>3. /\ queue' = Tail(queue) /\ running' = running \cup {Head(queue)}
      /\ workers' = workers /\ Cardinality(running) < workers
  BY DEF TakeTask, Idle
<1>4. PoolTyped'
  BY <1>1, <1>2, <1>3 DEF PoolTyped
<1>5. Accepted' = Accepted
  BY <1>1, <1>3 DEF Accepted
<1> QED BY <1>1, <1>4, <1>5

-----------------------------------------------------------------------------
(* Types                                                                   *)

LEMMA TaskFacts ==
  /\ NoticeTask \in AllTasks /\ NoticeTask.kind = "write"
  /\ \A l \in Loads : LoadTask(l) \in AllTasks /\ LoadTask(l).kind = "load"
                                             /\ LoadTask(l).load = l
  /\ \A l \in Loads, k \in Keys, kind \in {"read", "write", "save"} :
       Task(l, kind, k) \in AllTasks /\ Task(l, kind, k).kind = kind
  /\ \A t \in AllTasks :
       /\ t.kind = "load" => t.load \in Loads /\ t = LoadTask(t.load)
       /\ t.kind = "read" => /\ t.load \in Loads /\ t.key \in Keys
                             /\ t = Task(t.load, "read", t.key)
BY DEF AllTasks, NoticeTask, LoadTask, Task

LEMMA InitInv == Init => Inv
<1> SUFFICES ASSUME Init PROVE Inv
  OBVIOUS
<1> USE LoadPoolAssumption
<1>1. IsFiniteSet(running) /\ Cardinality(running) = 1
  BY FS_Singleton DEF Init
<1>2. queue \in Seq(AllTasks) /\ Len(queue) = 0
  BY DEF Init
<1>3. running \subseteq AllTasks
  BY TaskFacts DEF Init
<1>4. PoolTyped
  BY <1>1, <1>2, <1>3 DEF Init, PoolTyped
<1>5. /\ stage \in [Loads -> Stages] /\ left \in [Loads -> SUBSET Keys]
      /\ waiting \in [Loads -> SUBSET Keys] /\ appState \in 0..2
  BY DEF Init, Stages
<1>6. \A l \in Loads : waiting[l] = {}
  BY DEF Init
<1>7. TypeInv /\ OnlyReadersWait /\ AwaitedIsScheduled
  BY <1>4, <1>5, <1>6
  DEF TypeInv, TypeOK, PoolTyped, OnlyReadersWait, AwaitedIsScheduled
<1>8. QueuedOnce
  BY DEF Init, QueuedOnce
<1>9. ReadersBounded
  <2>1. Reading = {FirstLoad}
    BY DEF Init, Reading
  <2>2. IsFiniteSet(Reading) /\ Cardinality(Reading) = 1
    BY <2>1, FS_Singleton, Zenon
  <2> QED BY <2>2 DEF ReadersBounded
<1> QED BY <1>7, <1>8, <1>9 DEF Inv

LEMMA FewerRead ==
  ASSUME ReadersBounded, Reading' \subseteq Reading PROVE ReadersBounded'
<1>1. /\ IsFiniteSet(Reading') /\ Cardinality(Reading') <= Cardinality(Reading)
      /\ Cardinality(Reading) \in Nat /\ Cardinality(Reading') \in Nat
  BY FS_Subset, FS_CardinalityType DEF ReadersBounded
<1> QED BY <1>1, LoadPoolAssumption DEF ReadersBounded

LEMMA QueueTyped ==
  ASSUME PoolTyped
  PROVE  /\ queue \in Seq(AllTasks) /\ Len(queue) \in Nat /\ DOMAIN queue = 1..Len(queue)
         /\ \A i \in DOMAIN queue : queue[i] \in AllTasks
BY DEF PoolTyped

(* What is submitted other than a load leaves those in the queue alone.    *)
LEMMA QueuedKept ==
  ASSUME PoolTyped, QueuedOnce, NEW t \in AllTasks, t.kind # "load",
         PoolIs(Execute(t)), UNCHANGED stage
  PROVE  QueuedOnce'
<1>1. workers \in Nat
  BY LoadPoolAssumption DEF PoolTyped
<1>2. CASE queue' = queue
  BY <1>2 DEF QueuedOnce
<1>3. CASE queue' = Append(queue, t)
  <2>1. /\ DOMAIN queue' = DOMAIN queue \cup {Len(queue) + 1}
        /\ queue'[Len(queue) + 1] = t
        /\ \A i \in DOMAIN queue : queue'[i] = queue[i]
    BY <1>3, QueueTyped
  <2>2. ASSUME NEW i \in DOMAIN queue', queue'[i].kind = "load"
        PROVE  i \in DOMAIN queue
    BY <2>1, <2>2
  <2> QED BY <2>1, <2>2 DEF QueuedOnce
<1> QED BY <1>1, <1>2, <1>3, ExecuteFacts

(* A write is submitted, by the load l or for a notice.                    *)
LEMMA WriteKeeps ==
  ASSUME Inv, NEW t \in AllTasks, t.kind \notin {"load", "read"}, PoolIs(Execute(t)),
         UNCHANGED <<stage, waiting, appState>>, left' \in [Loads -> SUBSET Keys],
         \A l \in Loads : left'[l] # left[l] => stage[l] # "reading"
  PROVE  Inv'
<1>1. PoolTyped' /\ Accepted \subseteq Accepted' /\ workers' >= workers
  BY ExecuteTyped DEF Inv, TypeInv
<1>2. TypeInv'
  BY <1>1 DEF Inv, TypeInv, TypeOK, PoolTyped
<1>3. OnlyReadersWait' /\ ReadersBounded'
  BY DEF Inv, OnlyReadersWait, ReadersBounded, Reading
<1>4. QueuedOnce'
  BY QueuedKept DEF Inv, TypeInv
<1>5. \A l \in Loads : waiting'[l] \ left'[l] = waiting[l] \ left[l]
  BY DEF Inv, OnlyReadersWait
<1>8. AwaitedIsScheduled'
  BY <1>1, <1>5 DEF Inv, AwaitedIsScheduled, Accepted
<1> QED BY <1>2, <1>3, <1>4, <1>8 DEF Inv

(* A load gets to its next stage.                                          *)
LEMMA StageKeeps ==
  ASSUME Inv, NEW l \in Loads,
         stage' \in [Loads -> Stages], left' \in [Loads -> SUBSET Keys],
         waiting' \in [Loads -> SUBSET Keys], appState' \in 0..2,
         \A m \in Loads \ {l} :
           stage'[m] = stage[m] /\ left'[m] = left[m] /\ waiting'[m] = waiting[m],
         stage[l] # "queued", stage'[l] \notin {"queued", "begin"},
         stage'[l] = "reading" => stage[l] = "begin",
         waiting'[l] \subseteq left'[l], waiting'[l] # {} => stage'[l] = "reading",
         running' = running \/ running' = running \ {LoadTask(l)},
         UNCHANGED <<queue, workers>>
  PROVE  Inv'
<1>1. /\ stage \in [Loads -> Stages] /\ left \in [Loads -> SUBSET Keys]
      /\ waiting \in [Loads -> SUBSET Keys] /\ PoolTyped /\ TypeOK
  BY DEF Inv, TypeInv, TypeOK
<1>2. PoolTyped'
  BY <1>1, RunningTyped DEF PoolTyped
<1>3. /\ stage' \in [Loads -> Stages] /\ left' \in [Loads -> SUBSET Keys]
      /\ waiting' \in [Loads -> SUBSET Keys]
  BY <1>1
<1>4. TypeInv'
  BY <1>2, <1>3 DEF TypeInv, TypeOK, PoolTyped
<1>5. OnlyReadersWait'
  BY <1>1 DEF Inv, OnlyReadersWait
<1>6. QueuedOnce'
  <2>1. ASSUME NEW i \in DOMAIN queue, queue[i].kind = "load"
        PROVE  queue[i].load \in Loads /\ stage[queue[i].load] = "queued"
    BY <1>1, <2>1, QueueTyped, TaskFacts DEF Inv, QueuedOnce
  <2> QED BY <1>1, <2>1 DEF Inv, QueuedOnce
<1>7. ReadersBounded'
  <2>1. Reading' \subseteq Reading
    BY <1>1 DEF Reading
  <2> QED BY <2>1, FewerRead DEF Inv
<1>8. \A m \in Loads : waiting'[m] \ left'[m] \subseteq waiting[m] \ left[m]
  BY <1>1
<1>10. ASSUME NEW m \in Loads, NEW k \in waiting'[m] \ left'[m]
       PROVE  Task(m, "read", k) \in Accepted'
  <2>1. Task(m, "read", k) \in Accepted
    BY <1>8 DEF Inv, AwaitedIsScheduled, Accepted
  <2>2. Task(m, "read", k) # LoadTask(l)
    BY DEF Task, LoadTask
  <2> QED BY <2>1, <2>2 DEF Accepted
<1>11. AwaitedIsScheduled'
  BY <1>10 DEF AwaitedIsScheduled, Accepted
<1> QED BY <1>4, <1>5, <1>6, <1>7, <1>11 DEF Inv

LEMMA TakeKeeps == ASSUME Inv, TakeTask PROVE Inv'
<1> DEFINE h == Head(queue)
<1>0. /\ TypeOK /\ PoolTyped /\ OnlyReadersWait /\ QueuedOnce /\ ReadersBounded
      /\ stage \in [Loads -> Stages]
  BY DEF Inv, TypeInv, TypeOK
<1>1. /\ queue # <<>> /\ queue' = Tail(queue)
      /\ stage' = IF h.kind # "load" THEN stage ELSE [stage EXCEPT ![h.load] = "begin"]
      /\ UNCHANGED <<workers, left, waiting, appState>>
  BY DEF TakeTask
<1>2. PoolTyped' /\ Accepted' = Accepted /\ h \in AllTasks
  BY <1>0, TakeTyped
<1>3. /\ h = queue[1] /\ 1 \in DOMAIN queue
      /\ \A i \in DOMAIN queue' : /\ i + 1 \in DOMAIN queue /\ i + 1 # 1
                                  /\ queue'[i] = queue[i + 1]
  <2>1. queue \in Seq(AllTasks) /\ DOMAIN queue' \subseteq Nat
    BY <1>0, <1>2, QueueTyped DEF PoolTyped
  <2>2. \A i \in Nat : i + 1 # 1 <=> i # 0
    OBVIOUS
  <2>3. 0 \notin DOMAIN queue'
    BY <1>2 DEF PoolTyped
  <2> QED BY <1>1, <2>1, <2>2, <2>3, TailFacts
<1> HIDE DEF h
<1>4. CASE h.kind # "load"
  <2>1. stage' = stage
    BY <1>1, <1>4
  <2>2. \A i, j \in DOMAIN queue' : i + 1 = j + 1 => i = j
    BY <1>2 DEF PoolTyped
  <2>3. QueuedOnce'
    BY <1>0, <1>3, <2>1, <2>2 DEF QueuedOnce
  <2> QED BY <1>0, <1>1, <1>2, <2>1, <2>3
    DEF Inv, TypeInv, TypeOK, PoolTyped, OnlyReadersWait, ReadersBounded, Reading,
        AwaitedIsScheduled, Accepted
<1>5. CASE h.kind = "load"
  <2>1. h.load \in Loads /\ h = LoadTask(h.load) /\ stage[h.load] = "queued"
    BY <1>0, <1>2, <1>3, <1>5, TaskFacts DEF QueuedOnce
  <2>2. /\ stage' \in [Loads -> Stages] /\ stage'[h.load] = "begin"
        /\ \A l \in Loads \ {h.load} : stage'[l] = stage[l]
    BY <1>0, <1>1, <1>5, <2>1 DEF Stages
  <2>3. OnlyReadersWait'
    BY <1>0, <1>1, <2>1, <2>2 DEF OnlyReadersWait
  <2>4. ASSUME NEW i \in DOMAIN queue', queue'[i].kind = "load"
        PROVE  /\ stage'[queue'[i].load] = "queued"
               /\ \A j \in DOMAIN queue' : queue'[j] = queue'[i] => j = i
    <3>1. i + 1 \in DOMAIN queue /\ queue'[i] = queue[i + 1] /\ i + 1 # 1
      BY <1>3
    <3>2. queue'[i] # h
      BY <1>0, <1>3, <2>4, <3>1 DEF QueuedOnce
    <3>3. queue'[i] \in AllTasks
      BY <1>2, <2>4 DEF PoolTyped
    <3>4. queue'[i].load \in Loads /\ queue'[i].load # h.load
      BY <2>1, <2>4, <3>2, <3>3, TaskFacts
    <3>5. stage[queue'[i].load] = "queued"
      BY <1>0, <2>4, <3>1 DEF QueuedOnce
    <3>6. \A j \in DOMAIN queue' : j + 1 = i + 1 => j = i
      BY <1>2 DEF PoolTyped
    <3>7. \A j \in DOMAIN queue' : queue'[j] = queue'[i] => j + 1 = i + 1
      BY <1>0, <1>3, <2>4, <3>1 DEF QueuedOnce
    <3> QED BY <2>2, <3>4, <3>5, <3>6, <3>7
  <2>5. QueuedOnce'
    BY <2>4 DEF QueuedOnce
  <2>6. Reading' = Reading
    BY <2>1, <2>2 DEF Reading
  <2> QED BY <1>0, <1>1, <1>2, <2>2, <2>3, <2>5, <2>6
    DEF Inv, TypeInv, TypeOK, PoolTyped, ReadersBounded, AwaitedIsScheduled, Accepted
<1> QED BY <1>4, <1>5

LEMMA RequestKeeps == ASSUME Inv, NEW l \in Loads, Request(l) PROVE Inv'
<1> DEFINE t == LoadTask(l)
<1>0. /\ TypeOK /\ PoolTyped /\ OnlyReadersWait /\ QueuedOnce /\ ReadersBounded
      /\ stage \in [Loads -> Stages] /\ workers \in Nat
  BY LoadPoolAssumption DEF Inv, TypeInv, TypeOK, PoolTyped
<1>1. /\ stage[l] = "new" /\ Cardinality(Reading) < AtOnce
      /\ PoolIs(Execute(t)) /\ UNCHANGED <<left, waiting, appState>>
      /\ stage' = [stage EXCEPT ![l] =
           IF ~Execute(t).ok THEN "refused"
           ELSE IF Execute(t).running # running THEN "begin" ELSE "queued"]
  BY DEF Request, Submit, LoadTask
<1>2. t \in AllTasks /\ t.kind = "load" /\ t.load = l
  BY TaskFacts
<1>3. PoolTyped' /\ Accepted \subseteq Accepted' /\ workers' >= workers /\ workers' \in Nat
  BY <1>0, <1>1, <1>2, ExecuteTyped, LoadPoolAssumption DEF PoolTyped
<1>4. /\ stage' \in [Loads -> Stages] /\ stage'[l] \in {"refused", "begin", "queued"}
      /\ \A m \in Loads \ {l} : stage'[m] = stage[m]
  BY <1>0, <1>1 DEF Stages
<1> HIDE DEF t
<1>5. OnlyReadersWait'
  <2>1. waiting' = waiting /\ stage[l] = "new"
    BY <1>1
  <2>2. waiting[l] = {}
    BY <1>0, <2>1 DEF OnlyReadersWait
  <2> QED BY <1>0, <1>4, <2>1, <2>2 DEF OnlyReadersWait
<1>6. ASSUME NEW i \in DOMAIN queue, queue[i].kind = "load"
      PROVE  queue[i].load \in Loads \ {l} /\ queue[i] # t
  <2>1. stage[queue[i].load] = "queued"
    BY <1>0, <1>6 DEF QueuedOnce
  <2>2. queue[i].load \in Loads
    BY <1>0, <1>6, QueueTyped, TaskFacts
  <2>3. stage[l] = "new"
    BY <1>1
  <2> QED BY <1>2, <2>1, <2>2, <2>3
<1>7. QueuedOnce'
  <2>1. CASE queue' = queue
    BY <1>0, <1>4, <1>6, <2>1 DEF QueuedOnce
  <2>2. CASE Execute(t).ok /\ Execute(t).running = running /\ queue' = Append(queue, t)
    <3>1. /\ DOMAIN queue' = DOMAIN queue \cup {Len(queue) + 1}
          /\ queue'[Len(queue) + 1] = t
          /\ \A i \in DOMAIN queue : queue'[i] = queue[i]
      BY <1>0, <1>2, <2>2, QueueTyped
    <3>2. stage'[l] = "queued"
      BY <1>0, <1>1, <2>2
    <3> QED BY <1>0, <1>2, <1>4, <1>6, <3>1, <3>2 DEF QueuedOnce
  <2> QED BY <1>0, <1>1, <2>1, <2>2, ExecuteFacts
<1>8. ReadersBounded'
  <2>1. Reading' \subseteq Reading \cup {l}
    BY <1>4 DEF Reading
  <2>2. /\ IsFiniteSet(Reading) /\ Cardinality(Reading) \in Nat
        /\ Cardinality(Reading) < AtOnce
    BY <1>0, <1>1, FS_CardinalityType DEF ReadersBounded
  <2>3. /\ IsFiniteSet(Reading \cup {l}) /\ Cardinality(Reading \cup {l}) \in Nat
        /\ Cardinality(Reading \cup {l}) <= AtOnce
    <3>1. /\ IsFiniteSet(Reading \cup {l}) /\ Cardinality(Reading \cup {l}) \in Nat
          /\ Cardinality(Reading \cup {l}) <= Cardinality(Reading) + 1
      BY <2>2, OneMore, Zenon
    <3> QED BY <2>2, <3>1, LoadPoolAssumption
  <2>4. IsFiniteSet(Reading') /\ Cardinality(Reading') <= Cardinality(Reading \cup {l})
    BY <2>1, <2>3, FS_Subset
  <2>5. Cardinality(Reading') \in Nat
    BY <2>4, FS_CardinalityType
  <2> QED BY <2>3, <2>4, <2>5, LoadPoolAssumption DEF ReadersBounded
<1> QED BY <1>0, <1>1, <1>3, <1>4, <1>5, <1>7, <1>8
  DEF Inv, TypeInv, TypeOK, PoolTyped, AwaitedIsScheduled, Accepted

(* Only a read that the load l submits itself is new to it.                *)
LEMMA ReadKeeps == ASSUME Inv, NEW l \in Loads, SubmitRead(l) PROVE Inv'
<1>0. /\ TypeOK /\ PoolTyped /\ OnlyReadersWait /\ QueuedOnce /\ ReadersBounded
      /\ AwaitedIsScheduled
      /\ left \in [Loads -> SUBSET Keys] /\ waiting \in [Loads -> SUBSET Keys]
      /\ workers \in Nat
  BY LoadPoolAssumption DEF Inv, TypeInv, TypeOK, PoolTyped
<1>1. PICK k \in left[l] :
        LET p == Execute(Task(l, "read", k)) IN
        /\ PoolIs(p)
        /\ left' = [left EXCEPT ![l] = IF p.ok THEN @ \ {k} ELSE {}]
        /\ waiting' = [waiting EXCEPT ![l] = IF p.ok THEN waiting[l] ELSE {}]
  BY DEF SubmitRead, First, Submit, Awaited
<1> DEFINE t == Task(l, "read", k)
<1>2. /\ PoolIs(Execute(t)) /\ stage[l] = "reading" /\ UNCHANGED <<stage, appState>>
      /\ left' = [left EXCEPT ![l] = IF Execute(t).ok THEN @ \ {k} ELSE {}]
      /\ waiting' = [waiting EXCEPT ![l] = IF Execute(t).ok THEN waiting[l] ELSE {}]
  BY <1>1 DEF SubmitRead
<1>3. t \in AllTasks /\ t.kind = "read" /\ t = Task(l, "read", k)
  BY <1>0, TaskFacts
<1> HIDE DEF t
<1>4. /\ PoolTyped' /\ Accepted \subseteq Accepted'
      /\ workers' >= workers /\ workers' \in Nat
      /\ Execute(t).ok => t \in Accepted' /\ (CorePoolSize > 1 => workers' > 1)
  BY <1>0, <1>2, <1>3, ExecuteTyped, LoadPoolAssumption DEF PoolTyped
<1>5. /\ left' \in [Loads -> SUBSET Keys] /\ waiting' \in [Loads -> SUBSET Keys]
      /\ \A m \in Loads \ {l} : left'[m] = left[m] /\ waiting'[m] = waiting[m]
      /\ IF Execute(t).ok THEN waiting'[l] \ left'[l] \subseteq (waiting[l] \ left[l]) \cup {k}
                          ELSE waiting'[l] = {}
      /\ waiting'[l] \subseteq waiting[l]
  BY <1>0, <1>2
<1>6. TypeInv'
  BY <1>0, <1>2, <1>4, <1>5 DEF TypeInv, TypeOK, PoolTyped
<1>7. OnlyReadersWait' /\ ReadersBounded'
  BY <1>0, <1>2, <1>5 DEF OnlyReadersWait, ReadersBounded, Reading
<1>8. QueuedOnce'
  BY <1>0, <1>2, <1>3, QueuedKept
<1>10. ASSUME NEW m \in Loads, NEW j \in waiting'[m] \ left'[m]
       PROVE  Task(m, "read", j) \in Accepted'
  <2>1. CASE j \in waiting[m] \ left[m]
    BY <1>0, <1>4, <2>1 DEF AwaitedIsScheduled, Accepted
  <2>2. CASE m = l /\ j = k /\ Execute(t).ok
    BY <1>3, <1>4, <2>2
  <2> QED BY <1>5, <2>1, <2>2
<1>11. AwaitedIsScheduled'
  BY <1>10 DEF AwaitedIsScheduled, Accepted
<1> QED BY <1>6, <1>7, <1>8, <1>11 DEF Inv

LEMMA EndKeeps == ASSUME Inv, NEW t \in running, EndTask(t) PROVE Inv'
<1>0. /\ TypeOK /\ PoolTyped /\ OnlyReadersWait /\ QueuedOnce /\ ReadersBounded
      /\ AwaitedIsScheduled /\ waiting \in [Loads -> SUBSET Keys]
      /\ t \in AllTasks
  BY DEF Inv, TypeInv, TypeOK, PoolTyped
<1>1. /\ running' = running \ {t} /\ UNCHANGED <<queue, workers, stage, left, appState>>
  BY DEF EndTask, EndRead, EndWrite
<1>2. PoolTyped' /\ Accepted \subseteq Accepted' \cup {t}
  BY <1>0, <1>1, RunningTyped
<1>3. QueuedOnce' /\ ReadersBounded'
  BY <1>0, <1>1 DEF QueuedOnce, ReadersBounded, Reading
<1>4. CASE EndWrite(t)
  <2>1. waiting' = waiting /\ \A l \in Loads, k \in Keys : Task(l, "read", k) # t
    BY <1>4, TaskFacts DEF EndWrite
  <2>2. AwaitedIsScheduled'
    BY <1>0, <1>1, <1>2, <2>1 DEF AwaitedIsScheduled, Accepted
  <2> QED BY <1>0, <1>1, <1>2, <1>3, <2>1, <2>2
    DEF Inv, TypeInv, TypeOK, PoolTyped, OnlyReadersWait
<1>5. CASE EndRead(t)
  <2>1. t.load \in Loads /\ t.key \in Keys
    BY <1>0, <1>5, TaskFacts DEF EndRead
  <2>2. /\ waiting' \in [Loads -> SUBSET Keys] /\ t.key \notin waiting'[t.load]
        /\ \A l \in Loads : waiting'[l] \subseteq waiting[l]
    <3>1. CASE waiting' = [waiting EXCEPT ![t.load] = @ \ {t.key}]
      BY <1>0, <2>1, <3>1
    <3>2. CASE waiting' = [waiting EXCEPT ![t.load] =
                             IF t.key \in @ THEN {k \in @ : k < t.key} ELSE @]
      <4>1. ~(t.key < t.key)
        BY <2>1, LoadPoolAssumption DEF Keys
      <4>2. /\ waiting'[t.load] = IF t.key \in waiting[t.load]
                                  THEN {k \in waiting[t.load] : k < t.key} ELSE waiting[t.load]
            /\ waiting' \in [Loads -> SUBSET Keys]
            /\ \A l \in Loads \ {t.load} : waiting'[l] = waiting[l]
        BY <1>0, <2>1, <3>2
      <4>3. waiting'[t.load] \subseteq waiting[t.load] /\ t.key \notin waiting'[t.load]
        BY <4>1, <4>2
      <4> QED BY <4>2, <4>3
    <3> QED BY <1>5, <3>1, <3>2 DEF EndRead
  <2>3. \A l \in Loads : \A k \in waiting'[l] : Task(l, "read", k) # t
    BY <2>1, <2>2 DEF Task
  <2>4. AwaitedIsScheduled'
    BY <1>0, <1>1, <1>2, <2>2, <2>3 DEF AwaitedIsScheduled, Accepted
  <2>5. OnlyReadersWait'
    BY <1>0, <1>1, <2>2 DEF OnlyReadersWait
  <2> QED BY <1>0, <1>1, <1>2, <1>3, <2>2, <2>4, <2>5 DEF Inv, TypeInv, TypeOK, PoolTyped
<1> QED BY <1>4, <1>5 DEF EndTask

LEMMA LoadKeeps == ASSUME Inv, NEW l \in Loads, LoadStep(l) PROVE Inv'
<1>0. /\ TypeOK /\ OnlyReadersWait /\ stage \in [Loads -> Stages]
      /\ left \in [Loads -> SUBSET Keys] /\ waiting \in [Loads -> SUBSET Keys]
      /\ appState \in 0..2
  BY DEF Inv, TypeInv, TypeOK
<1>n. \A n \in 0..ListSize : 1..n \in SUBSET Keys
  BY LoadPoolAssumption DEF Keys
<1>s. ASSUME NEW x \in Stages, stage' = [stage EXCEPT ![l] = x]
      PROVE  /\ stage' \in [Loads -> Stages] /\ stage'[l] = x
             /\ \A m \in Loads \ {l} : stage'[m] = stage[m]
  BY <1>0, <1>s
<1>l. ASSUME NEW ks \in SUBSET Keys, left' = [left EXCEPT ![l] = ks]
      PROVE  /\ left' \in [Loads -> SUBSET Keys] /\ left'[l] = ks
             /\ \A m \in Loads \ {l} : left'[m] = left[m]
  BY <1>0, <1>l
<1>w. ASSUME stage[l] \in {"stores", "saving", "elastic"} PROVE waiting[l] = {}
  BY <1>0, <1>w DEF OnlyReadersWait
<1>1. CASE ReadList(l)
  <2>1. PICK n \in 0..ListSize : /\ left' = [left EXCEPT ![l] = 1..n]
                                 /\ waiting' = [waiting EXCEPT ![l] = 1..n]
    BY <1>1 DEF ReadList
  <2>2. 1..n \in SUBSET Keys
    BY <1>n
  <2>3. /\ waiting' \in [Loads -> SUBSET Keys] /\ waiting'[l] = 1..n
        /\ \A m \in Loads \ {l} : waiting'[m] = waiting[m]
    BY <1>0, <2>1, <2>2
  <2>4. /\ left' \in [Loads -> SUBSET Keys] /\ left'[l] = 1..n
        /\ \A m \in Loads \ {l} : left'[m] = left[m]
    BY <1>l, <2>1, <2>2
  <2>5. /\ stage[l] = "begin" /\ stage' = [stage EXCEPT ![l] = "reading"]
        /\ UNCHANGED <<queue, running, workers, appState>>
    BY <1>1 DEF ReadList
  <2>6. /\ stage' \in [Loads -> Stages] /\ stage'[l] = "reading"
        /\ \A m \in Loads \ {l} : stage'[m] = stage[m]
    BY <1>s, <2>5 DEF Stages
  <2> QED BY <1>0, <2>3, <2>4, <2>5, <2>6, StageKeeps
<1>2. CASE SubmitRead(l)
  BY <1>2, ReadKeeps
<1>3. CASE Joined(l)
  <2>1. PICK n \in 0..ListSize : left' = [left EXCEPT ![l] = 1..n]
    BY <1>3 DEF Joined
  <2>2. /\ stage[l] = "reading" /\ waiting[l] = {} /\ waiting' = waiting
        /\ stage' = [stage EXCEPT ![l] = "stores"]
        /\ appState' \in 0..2 /\ UNCHANGED <<queue, running, workers>>
    BY <1>0, <1>3 DEF Joined
  <2>3. left' \in [Loads -> SUBSET Keys] /\ \A m \in Loads \ {l} : left'[m] = left[m]
    BY <1>l, <1>n, <2>1
  <2>4. /\ stage' \in [Loads -> Stages] /\ stage'[l] = "stores"
        /\ \A m \in Loads \ {l} : stage'[m] = stage[m]
    BY <1>s, <2>2 DEF Stages
  <2> QED BY <1>0, <2>2, <2>3, <2>4, StageKeeps
<1>4. CASE SaveClass(l)
  <2>1. PICK k \in left[l] : PoolIs(Execute(Task(l, "write", k)))
                             /\ left' = [left EXCEPT ![l] = @ \ {k}]
    BY <1>4 DEF SaveClass, Submit, First
  <2>2. Task(l, "write", k) \in AllTasks /\ Task(l, "write", k).kind = "write"
    BY <1>0, TaskFacts
  <2>3. left' \in [Loads -> SUBSET Keys] /\ \A m \in Loads \ {l} : left'[m] = left[m]
    BY <1>0, <2>1
  <2>4. stage[l] = "stores" /\ UNCHANGED <<stage, waiting, appState>>
    BY <1>4 DEF SaveClass
  <2>5. \A m \in Loads : left'[m] # left[m] => stage[m] # "reading"
    BY <2>3, <2>4
  <2> QED BY <2>1, <2>2, <2>3, <2>4, <2>5, WriteKeeps
<1>5. CASE SaveMap(l)
  <2>1. PICK k \in left[l] :
          /\ PoolIs(Execute(Task(l, "save", k)))
          /\ left' = [left EXCEPT ![l] = IF Execute(Task(l, "save", k)).ok THEN @ \ {k} ELSE {}]
    BY <1>5 DEF SaveMap, Submit, First
  <2>2. Task(l, "save", k) \in AllTasks /\ Task(l, "save", k).kind = "save"
    BY <1>0, TaskFacts
  <2>3. left' \in [Loads -> SUBSET Keys] /\ \A m \in Loads \ {l} : left'[m] = left[m]
    BY <1>0, <2>1
  <2>4. stage[l] = "saving" /\ UNCHANGED <<stage, waiting, appState>>
    BY <1>5 DEF SaveMap
  <2>5. \A m \in Loads : left'[m] # left[m] => stage[m] # "reading"
    BY <2>3, <2>4
  <2> QED BY <2>1, <2>2, <2>3, <2>4, <2>5, WriteKeeps
<1>7. CASE StoresRead(l)
  <2>1. PICK n \in 0..ListSize : left' = [left EXCEPT ![l] = 1..n]
    BY <1>7 DEF StoresRead
  <2>2. left' \in [Loads -> SUBSET Keys] /\ \A m \in Loads \ {l} : left'[m] = left[m]
    BY <1>l, <1>n, <2>1
  <2>3. /\ stage[l] = "stores" /\ stage' = [stage EXCEPT ![l] = "saving"]
        /\ UNCHANGED <<queue, running, workers, waiting, appState>>
    BY <1>7 DEF StoresRead
  <2>4. /\ stage' \in [Loads -> Stages] /\ stage'[l] = "saving"
        /\ \A m \in Loads \ {l} : stage'[m] = stage[m]
    BY <1>s, <2>3 DEF Stages
  <2> QED BY <1>0, <1>w, <2>2, <2>3, <2>4, StageKeeps
<1>8. CASE Updated(l)
  <2>1. /\ stage[l] = "saving" /\ stage' = [stage EXCEPT ![l] = "elastic"]
        /\ appState' \in 0..2 /\ UNCHANGED <<queue, running, workers, left, waiting>>
    BY <1>8 DEF Updated
  <2>2. /\ stage' \in [Loads -> Stages] /\ stage'[l] = "elastic"
        /\ \A m \in Loads \ {l} : stage'[m] = stage[m]
    BY <1>s, <2>1 DEF Stages
  <2> QED BY <1>0, <1>w, <2>1, <2>2, StageKeeps
<1>9. CASE EndLoad(l) \/ LoadThrows(l)
  <2>1. /\ stage[l] \in {"stores", "elastic"} /\ stage' = [stage EXCEPT ![l] = "done"]
        /\ running' = running \ {LoadTask(l)} /\ UNCHANGED <<queue, workers, waiting, appState>>
        /\ left' = left \/ left' = [left EXCEPT ![l] = {}]
    BY <1>9 DEF EndLoad, LoadThrows
  <2>2. left' \in [Loads -> SUBSET Keys] /\ \A m \in Loads \ {l} : left'[m] = left[m]
    BY <1>0, <2>1
  <2>3. /\ stage' \in [Loads -> Stages] /\ stage'[l] = "done"
        /\ \A m \in Loads \ {l} : stage'[m] = stage[m]
    BY <1>s, <2>1 DEF Stages
  <2> QED BY <1>0, <1>w, <2>1, <2>2, <2>3, StageKeeps
<1> QED BY <1>1, <1>2, <1>3, <1>4, <1>5, <1>7, <1>8, <1>9 DEF LoadStep

LEMMA InvStep == Inv /\ [Next]_vars => Inv'
<1> SUFFICES ASSUME Inv, [Next]_vars PROVE Inv'
  OBVIOUS
<1>1. CASE TakeTask
  BY <1>1, TakeKeeps
<1>2. CASE ThreadEnds
  <2>1. /\ UNCHANGED <<queue, running, stage, left, waiting, appState>>
        /\ workers' = workers - 1 /\ workers > CorePoolSize
        /\ Cardinality(running) < workers
    BY <1>2 DEF ThreadEnds, Idle
  <2>2. PoolTyped /\ Cardinality(running) \in Nat
    BY FS_CardinalityType DEF Inv, TypeInv, PoolTyped
  <2>3. PoolTyped'
    BY <2>1, <2>2, LoadPoolAssumption DEF PoolTyped
  <2> QED BY <2>1, <2>3
    DEF Inv, TypeInv, TypeOK, PoolTyped, OnlyReadersWait, QueuedOnce, ReadersBounded, Reading,
        AwaitedIsScheduled
<1>3. CASE NoticeSaves
  <2>1. \A l \in Loads : left'[l] = left[l]
    BY <1>3 DEF NoticeSaves
  <2>2. left' \in [Loads -> SUBSET Keys]
    BY <1>3 DEF NoticeSaves, Inv, TypeInv, TypeOK
  <2> QED BY <1>3, <2>1, <2>2, TaskFacts, WriteKeeps DEF NoticeSaves
<1>4. CASE \E t \in running : EndTask(t)
  BY <1>4, EndKeeps
<1>5. CASE \E l \in Loads : Request(l) \/ LoadStep(l)
  BY <1>5, RequestKeeps, LoadKeeps
<1>6. CASE UNCHANGED vars
  BY <1>6 DEF vars, Inv, TypeInv, TypeOK, PoolTyped, OnlyReadersWait, QueuedOnce, ReadersBounded,
              Reading, AwaitedIsScheduled
<1> QED BY <1>1, <1>2, <1>3, <1>4, <1>5, <1>6 DEF Next

-----------------------------------------------------------------------------
(* The theorems                                                            *)

THEOREM Invariance == Spec => []Inv
<1>1. Init => Inv
  BY InitInv
<1>2. Inv /\ [Next]_vars => Inv'
  BY InvStep
<1> QED BY <1>1, <1>2, PTL DEF Spec

(* The pool keeps its bounds whatever is submitted to it: no more threads  *)
(* than MaxPoolSize, no more tasks than threads, no longer a queue than    *)
(* QueueCapacity.                                                          *)
THEOREM Types == Spec => []TypeOK
<1>1. Inv => TypeOK
  BY DEF Inv, TypeInv
<1> QED BY <1>1, Invariance, PTL

(* No load waits for a read that the pool does not have: not when one is   *)
(* rejected, or fails, while the others still run.                         *)
THEOREM AwaitedReadsAreScheduled == Spec => []AwaitedIsScheduled
<1>1. Inv => AwaitedIsScheduled
  BY DEF Inv
<1> QED BY <1>1, Invariance, PTL

(* Every thread that waits has a load of its own; what they wait for is in *)
(* the queue, and tasks wait there only when the core is full.             *)
LEMMA MovesOn ==
  ASSUME Inv PROVE PoolMovesOn
<1> USE LoadPoolAssumption
<1> DEFINE Waiting == {l \in Loads : Blocked(LoadTask(l))}
<1>0. /\ PoolTyped /\ workers \in Nat /\ IsFiniteSet(running)
      /\ Cardinality(running) \in Nat
      /\ queue # <<>> => workers >= CorePoolSize
  BY FS_CardinalityType DEF Inv, TypeInv, TypeOK, PoolTyped
<1> SUFFICES ASSUME running # {} \/ queue # <<>>, \A t \in running : Blocked(t),
                    ~(queue # <<>> /\ Idle)
             PROVE  Cardinality(Waiting) >= CorePoolSize
  BY DEF PoolMovesOn
<1>1. \A t \in running : t.load \in Waiting /\ t = LoadTask(t.load) /\ t.kind = "load"
  BY <1>0, TaskFacts DEF Blocked, PoolTyped
<1>2. Cardinality(running) <= Cardinality(Waiting) /\ Cardinality(Waiting) \in Nat
  <2> DEFINE f == [t \in running |-> t.load]
  <2>1. f \in Injection(running, Waiting)
    BY <1>1 DEF Injection, IsInjective
  <2>2. Waiting \subseteq Reading
    BY DEF Blocked, Reading, LoadTask, Task
  <2>3. IsFiniteSet(Waiting) /\ Cardinality(Waiting) \in Nat
    BY <2>2, FS_Subset, FS_CardinalityType DEF Inv, ReadersBounded
  <2> HIDE DEF Waiting
  <2> QED BY <2>1, <2>3, FS_Injection
<1>3. queue # <<>>
  <2>1. SUFFICES ASSUME running # {} PROVE queue # <<>>
    OBVIOUS
  <2>2. PICK t \in running : Blocked(t) /\ t.load \in Loads /\ t.kind = "load"
    BY <1>1, <2>1
  <2>3. PICK k \in waiting[t.load] : Task(t.load, "read", k) \in running \cup ToSet(queue)
    BY <2>2 DEF Inv, AwaitedIsScheduled, Blocked
  <2>4. Task(t.load, "read", k) \notin running
    BY <1>1 DEF Task
  <2>5. ToSet(queue) # {}
    BY <2>3, <2>4
  <2> QED BY <2>5 DEF ToSet
<1> HIDE DEF Waiting
<1> QED BY <1>0, <1>2, <1>3 DEF Idle

(* However many loads overlap, however long the list and the queue: the    *)
(* pool stands still only with as many loads in join as the core has       *)
(* threads, so that it takes that many overlapping reloads.                *)
THEOREM StandsStillOnlyByReloads == Spec => []PoolMovesOn
<1>1. Inv => PoolMovesOn
  BY MovesOn
<1> QED BY <1>1, Invariance, PTL
=============================================================================

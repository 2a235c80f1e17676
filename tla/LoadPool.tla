------------------------------ MODULE LoadPool ------------------------------
(***************************************************************************)
(* The pool threadPoolTaskExecutor and the loads that run on it.  A load   *)
(* (DataHandlerImp.populateData) is a task of the pool; it submits to the  *)
(* same pool, one by one, the reads of the maps in Redis, which it waits   *)
(* for, and the writes, which it does not; a notice of a change has its    *)
(* class written there too.  What they do to the data is DataSync.         *)
(***************************************************************************)
EXTENDS Integers, FiniteSets, SequencesExt

CONSTANTS
  Loads,       \* the loads: that of the start, and those of force-reload
  FirstLoad,   \* that of the start
  Notices,     \* stands for the notices where a task names its load
  ListSize,    \* the classes, numbered as TRIPLES_MAP_KEYS lists them
  CorePoolSize, MaxPoolSize, QueueCapacity,
  AtOnce       \* how many loads may have been requested that have not got
               \* past their reads (bound: the code has none)

ASSUME LoadPoolAssumption ==
  /\ FirstLoad \in Loads /\ Notices \notin Loads /\ ListSize \in Nat
  /\ CorePoolSize \in Nat /\ MaxPoolSize \in Nat /\ QueueCapacity \in Nat
  /\ CorePoolSize > 0 /\ MaxPoolSize >= CorePoolSize
  /\ AtOnce \in Nat /\ AtOnce > 0

VARIABLES
  queue, running,   \* tasks that wait, and tasks that have a thread
  workers,          \* number of threads
  stage,            \* per load
  left,             \* per load: the classes it has still to submit
  waiting,          \* per load: the classes whose read it waits for
  appState          \* order of the AppState

vars == <<queue, running, workers, stage, left, waiting, appState>>

Keys == 1..ListSize

Task(l, kind, k) == [load |-> l, kind |-> kind, key |-> k]
LoadTask(l) == Task(l, "load", 0)
NoticeTask == Task(Notices, "write", 0)

AllTasks ==
  [load : Loads, kind : {"load"}, key : {0}] \cup
  [load : Loads, kind : {"read", "write", "save"}, key : Keys] \cup {NoticeTask}

(* The next of the classes ks to be submitted.                             *)
First(ks) == {k \in ks : \A j \in ks : k <= j}

-----------------------------------------------------------------------------
(* ThreadPoolExecutor.execute: a thread of the core, else the queue, else  *)
(* another thread, else the task is rejected.                              *)
Pool == [queue |-> queue, running |-> running, workers |-> workers, ok |-> TRUE]

Started(t)  == [Pool EXCEPT !.running = @ \cup {t}, !.workers = @ + 1]
Delayed(t)  == [Pool EXCEPT !.queue = Append(@, t)]
Rejected(t) == [Pool EXCEPT !.ok = FALSE]

(* Mutant: the queue is asked before the core, as with a core of one.      *)
ExecuteQueued(t) ==
  IF Len(queue) < QueueCapacity THEN Delayed(t)
  ELSE IF workers < MaxPoolSize THEN Started(t) ELSE Rejected(t)

Execute(t) ==
  IF workers < CorePoolSize THEN Started(t)
  ELSE IF Len(queue) < QueueCapacity THEN Delayed(t)
  ELSE IF workers < MaxPoolSize THEN Started(t) ELSE Rejected(t)

(* Mutant: the tasks of a load start at once, outside the pool.            *)
SubmitOutside(l, kind, k) == [Pool EXCEPT !.running = @ \cup {Task(l, kind, k)}]
Submit(l, kind, k) == Execute(Task(l, kind, k))
PoolIs(p) == queue' = p.queue /\ running' = p.running /\ workers' = p.workers

-----------------------------------------------------------------------------
Init ==
  /\ queue = <<>> /\ running = {LoadTask(FirstLoad)} /\ workers = 1
  /\ stage = [l \in Loads |-> IF l = FirstLoad THEN "begin" ELSE "new"]
  /\ left = [l \in Loads |-> {}] /\ waiting = [l \in Loads |-> {}]
  /\ appState = 0

Reading == {l \in Loads : stage[l] \in {"queued", "begin", "reading"}}

(* /cache/force-reload.  When the pool rejects the load the request fails. *)
Request(l) ==
  LET p == Submit(l, "load", 0) IN
  /\ stage[l] = "new" /\ appState = 2
  /\ Cardinality(Reading) < AtOnce
  /\ PoolIs(p)
  /\ stage' = [stage EXCEPT ![l] =
       IF ~p.ok THEN "refused" ELSE IF p.running # running THEN "begin" ELSE "queued"]
  /\ UNCHANGED <<left, waiting, appState>>

Idle == Cardinality(running) < workers

(* A thread with nothing to do takes the next task.                        *)
TakeTask ==
  /\ queue # <<>> /\ Idle
  /\ queue' = Tail(queue)
  /\ running' = running \cup {Head(queue)}
  /\ stage' = IF Head(queue).kind # "load" THEN stage
              ELSE [stage EXCEPT ![Head(queue).load] = "begin"]
  /\ UNCHANGED <<workers, left, waiting, appState>>

(* A thread above the core ends when it has had nothing to do for a time.  *)
ThreadEnds ==
  /\ queue = <<>> /\ Idle /\ workers > CorePoolSize
  /\ workers' = workers - 1
  /\ UNCHANGED <<queue, running, stage, left, waiting, appState>>

(* getTriplesMap reads the list, of n classes, which are numbered by their *)
(* place; when that fails it is as if the list were empty.                 *)
ReadList(l) ==
  /\ stage[l] = "begin"
  /\ stage' = [stage EXCEPT ![l] = "reading"]
  /\ \E n \in 0..ListSize :
       left' = [left EXCEPT ![l] = 1..n] /\ waiting' = [waiting EXCEPT ![l] = 1..n]
  /\ UNCHANGED <<queue, running, workers, appState>>

(* Mutant: a rejected read is passed over, and waited for with the others. *)
AwaitedAlways(l, ok) == waiting[l]
(* A read that is rejected throws, and none is waited for.                 *)
Awaited(l, ok) == IF ok THEN waiting[l] ELSE {}

(* It asks for the map of each class, in the order of the list.            *)
SubmitRead(l) ==
  /\ stage[l] = "reading"
  /\ \E k \in First(left[l]) :
       LET p == Submit(l, "read", k) IN
       /\ PoolIs(p)
       /\ left' = [left EXCEPT ![l] = IF p.ok THEN @ \ {k} ELSE {}]
       /\ waiting' = [waiting EXCEPT ![l] = Awaited(l, p.ok)]
  /\ UNCHANGED <<stage, appState>>

(* A read ends.  The futures are joined in the order of the list: when a   *)
(* read has failed, those after it are not waited for.                     *)
EndRead(t) ==
  /\ t \in running /\ t.kind = "read"
  /\ running' = running \ {t}
  /\ \/ waiting' = [waiting EXCEPT ![t.load] = @ \ {t.key}]
     \/ waiting' = [waiting EXCEPT ![t.load] =
          IF t.key \in @ THEN {k \in @ : k < t.key} ELSE @]
  /\ UNCHANGED <<queue, workers, stage, left, appState>>

(* With the map, or without it when something has thrown, the load goes on:*)
(* n is the number of classes that have changed in the triple stores and   *)
(* whose save does not break before the pool is asked.                     *)
Joined(l) ==
  /\ stage[l] = "reading" /\ left[l] = {} /\ waiting[l] = {}
  /\ stage' = [stage EXCEPT ![l] = "stores"]
  /\ \E n \in 0..ListSize : left' = [left EXCEPT ![l] = 1..n]
  /\ appState' = IF appState = 0 THEN 1 ELSE appState
  /\ UNCHANGED <<queue, running, workers, waiting>>

(* Each of them is written; a write that is rejected is logged.            *)
SaveClass(l) ==
  /\ stage[l] = "stores"
  /\ \E k \in First(left[l]) :
       PoolIs(Submit(l, "write", k)) /\ left' = [left EXCEPT ![l] = @ \ {k}]
  /\ UNCHANGED <<stage, waiting, appState>>

(* updateCachedData: when there were changes the n classes of the cache are*)
(* written.                                                                *)
StoresRead(l) ==
  /\ stage[l] = "stores" /\ left[l] = {}
  /\ stage' = [stage EXCEPT ![l] = "saving"]
  /\ \E n \in 0..ListSize : left' = [left EXCEPT ![l] = 1..n]
  /\ UNCHANGED <<queue, running, workers, waiting, appState>>

(* A write that is rejected is logged, and no other is submitted.          *)
SaveMap(l) ==
  /\ stage[l] = "saving"
  /\ \E k \in First(left[l]) :
       LET p == Submit(l, "save", k) IN
       PoolIs(p) /\ left' = [left EXCEPT ![l] = IF p.ok THEN @ \ {k} ELSE {}]
  /\ UNCHANGED <<stage, waiting, appState>>

Updated(l) ==
  /\ stage[l] = "saving" /\ left[l] = {}
  /\ stage' = [stage EXCEPT ![l] = "elastic"]
  /\ appState' = 2
  /\ UNCHANGED <<queue, running, workers, left, waiting>>

EndWrite(t) ==
  /\ t \in running /\ t.kind \in {"write", "save"}
  /\ running' = running \ {t}
  /\ UNCHANGED <<queue, workers, stage, left, waiting, appState>>

(* actualizeData has the class of a notice written.  One such write at a   *)
(* time is in the pool (bound).                                            *)
NoticeSaves ==
  /\ appState > 0
  /\ NoticeTask \notin running \cup ToSet(queue)
  /\ PoolIs(Execute(NoticeTask))
  /\ UNCHANGED <<stage, left, waiting, appState>>

(* updateElasticData, and the end of the load.                             *)
EndLoad(l) ==
  /\ stage[l] = "elastic"
  /\ running' = running \ {LoadTask(l)}
  /\ stage' = [stage EXCEPT ![l] = "done"]
  /\ UNCHANGED <<queue, workers, left, waiting, appState>>

(* A store throws, or Elasticsearch cannot be read.                        *)
LoadThrows(l) ==
  /\ stage[l] \in {"stores", "elastic"}
  /\ running' = running \ {LoadTask(l)}
  /\ stage' = [stage EXCEPT ![l] = "done"]
  /\ left' = [left EXCEPT ![l] = {}]
  /\ UNCHANGED <<queue, workers, waiting, appState>>

LoadStep(l) ==
  \/ ReadList(l) \/ SubmitRead(l) \/ Joined(l)
  \/ SaveClass(l) \/ StoresRead(l) \/ SaveMap(l) \/ Updated(l)
  \/ EndLoad(l) \/ LoadThrows(l)
EndTask(t) == EndRead(t) \/ EndWrite(t)

Next ==
  \/ TakeTask \/ ThreadEnds \/ NoticeSaves
  \/ \E t \in running : EndTask(t)
  \/ \E l \in Loads : Request(l) \/ LoadStep(l)

Spec == Init /\ [][Next]_vars

(* A free thread takes a task; a thread that works gets on with its task: a*)
(* call to Redis, a store or Elasticsearch answers or fails.               *)
Fairness ==
  /\ WF_vars(TakeTask)
  /\ \A t \in AllTasks : WF_vars(EndTask(t))
  /\ \A l \in Loads : WF_vars(LoadStep(l))

FairSpec == Spec /\ Fairness

-----------------------------------------------------------------------------
(* Properties                                                              *)

Stages == {"new", "refused", "queued", "begin", "reading", "stores", "saving",
           "elastic", "done"}

(* Every variable keeps its type; a thread has at most one task.           *)
TypeOK ==
  /\ queue \in Seq(AllTasks) /\ Len(queue) <= QueueCapacity
  /\ running \subseteq AllTasks /\ Cardinality(running) <= workers
  /\ workers \in 1..MaxPoolSize
  /\ stage \in [Loads -> Stages]
  /\ left \in [Loads -> SUBSET Keys] /\ waiting \in [Loads -> SUBSET Keys]
  /\ appState \in 0..2

(* A read that a load waits for is one it has still to submit, or one that *)
(* the pool has: a load that waited for a read that was rejected, or whose *)
(* end nobody noticed, would keep its thread for ever.                     *)
AwaitedIsScheduled ==
  \A l \in Loads : \A k \in waiting[l] \ left[l] :
    Task(l, "read", k) \in running \cup ToSet(queue)

(* A thread that waits in join for the reads of its load.                  *)
Blocked(t) ==
  /\ t.kind = "load" /\ stage[t.load] = "reading"
  /\ left[t.load] = {} /\ waiting[t.load] # {}

(* The threads that wait in join are all there are while tasks wait in the *)
(* queue only when as many loads as the core has threads wait, one on each:*)
(* otherwise a thread works, or one is free to take a task (@Async of      *)
(* populateData and of getTripleMap name the same pool).                   *)
PoolMovesOn ==
  running # {} \/ queue # <<>> =>
    \/ queue # <<>> /\ Idle
    \/ \E t \in running : ~Blocked(t)
    \/ Cardinality({l \in Loads : Blocked(LoadTask(l))}) >= CorePoolSize

(* A load that the pool has accepted ends.                                 *)
LoadEnds ==
  \A l \in Loads : stage[l] \in {"queued", "begin"} ~> stage[l] = "done"
=============================================================================

------------------------------ MODULE DataSync ------------------------------
(***************************************************************************)
(* The copies of the entities of one triple store, and the code that keeps *)
(* them together: the cache in memory (CacheServiceImp), Redis behind it,  *)
(* and Elasticsearch.  A load (DataHandlerImp.populateData) reads Redis,   *)
(* compares the cache with the store through the handler of the store, and *)
(* adds to Elasticsearch what it lacks; a notice of the event processor    *)
(* (actualizeData) changes one entity meanwhile.  Redis is written by the  *)
(* tasks of a pool with two threads, one of which a running load occupies; *)
(* the list of its keys by the thread that saves.                          *)
(***************************************************************************)
EXTENDS Integers, Sequences, FiniteSets, SequencesExt

CONSTANTS
  Entities, Classes,
  ClassOf,     \* [Entities -> Classes]
  Versions,    \* the contents an entity can have
  Blank,       \* an object whose attributes could not be read
  None,        \* no object
  Handlers,    \* the kinds of store considered
  MaxLoads,    \* bound: loads, those after a crash included
  MaxChanges   \* bound: changes of entities in the store

Objects == Versions \cup {Blank}
Maps    == [Entities -> Objects \cup {None}]

ASSUME DataSyncAssumption ==
  /\ ClassOf \in [Entities -> Classes] /\ IsFiniteSet(Classes)
  /\ Blank \notin Versions /\ None \notin Objects
  /\ Handlers \subseteq {"fuseki", "trellis"}
  /\ MaxLoads \in Nat /\ MaxChanges \in Nat

VARIABLES
  handler,     \* SparqlProxyHandler or TrellisHandler; never changes
  store,       \* the triple store
  cache, redis, es,  \* triplesMap, its copy in Redis, the index
  keys,        \* TRIPLES_MAP_KEYS: the classes that are looked for in Redis
  saving,      \* per thread: the list of keys that a save is going to write
  tasks,       \* the queue of the pool
  lpc, loaded, old, todo, answer, changed,  \* the load: next step, map read
               \* from Redis, triplesMapCached, classes left, response, changes > 0
  cpc, subject,  \* the thread of a notice: next step, entity
  plan,        \* per thread: what updateElasticData is going to save
  appState,    \* order of the AppState
  notices,     \* changes the event processor has not told yet
  loads, changes,    \* counters for the bounds
  steady, calm \* history: nothing disturbed the running load; loads since
               \* the last disturbance, up to 2

loadVars   == <<lpc, loaded, old, todo, answer, changed>>
changeVars == <<cpc, subject>>
envVars    == <<handler, store, notices, loads, changes>>
history    == <<steady, calm>>
keyVars    == <<keys, saving>>
vars == <<envVars, cache, redis, es, keyVars, tasks, loadVars, changeVars, plan, appState, history>>

Nothing     == [e \in Entities |-> None]
Present(m)  == {e \in Entities : m[e] # None}
Override(m, f) == [e \in Entities |-> IF e \in DOMAIN f THEN f[e] ELSE m[e]]
InClass(c)  == {e \in Entities : ClassOf[e] = c}
LoadTask    == [kind |-> "load"]
ReadTask(C) == [kind |-> "read", classes |-> C]

(* Mutant: the task of a class gets the objects of all.                    *)
WriteTaskWhole(m, c) == [kind |-> "write", objects |-> m]
(* The objects that the task writes are copied when it is created.         *)
WriteTask(m, c) == [kind |-> "write", objects |-> [e \in InClass(c) |-> m[e]]]
WriteTasks(m, q) == [i \in DOMAIN q |-> WriteTask(m, q[i])]

(* A save reads the list of keys and will write it back with those of C.   *)
ReadKeys(t, C) == saving' = [saving EXCEPT ![t] = keys \cup C] /\ UNCHANGED keys

(* The load is over; what it kept for itself is gone.                      *)
EndLoad ==
  /\ lpc' = "idle" /\ loaded' = Nothing /\ old' = {} /\ todo' = {}
  /\ answer' = <<>> /\ changed' = FALSE

(* Something else than the running load changed data, or a call failed.    *)
Disturb == steady' = FALSE /\ calm' = 0

Init ==
  /\ handler \in Handlers
  /\ store \in [Entities -> Versions \cup {None}]
  /\ cache = Nothing /\ redis = Nothing /\ es = Nothing
  /\ keys = {} /\ saving = [t \in {"load", "change"} |-> {}]
  /\ tasks = <<LoadTask>>
  /\ lpc = "queued" /\ loaded = Nothing /\ old = {} /\ todo = {}
  /\ answer = <<>> /\ changed = FALSE
  /\ cpc = "idle" /\ subject = None
  /\ plan = [t \in {"load", "change"} |-> <<>>]
  /\ appState = 0
  /\ notices = {} /\ loads = 1 /\ changes = 0
  /\ steady = FALSE /\ calm = 0

-----------------------------------------------------------------------------
(* The pool                                                                *)

(* Tasks are taken in order; those that run together end in any order.     *)
Threads   == 2
Free      == IF lpc \in {"idle", "queued"} THEN Threads ELSE Threads - 1
Runs(i, k) == i \in DOMAIN tasks /\ i <= Free /\ tasks[i].kind = k

(* populateData asks Redis for the maps of the classes listed and waits.   *)
StartLoad(i) ==
  /\ Runs(i, "load")
  /\ tasks' = Append(RemoveAt(tasks, i), ReadTask(keys))
  /\ lpc' = "reading"
  /\ steady' = TRUE
  /\ UNCHANGED <<envVars, cache, redis, es, keyVars, loaded, old, todo, answer,
                 changed, changeVars, plan, appState, calm>>

ReadRedis(i) ==
  /\ Runs(i, "read")
  /\ tasks' = RemoveAt(tasks, i)
  /\ loaded' = [e \in Entities |-> IF ClassOf[e] \in tasks[i].classes THEN redis[e] ELSE None]
  /\ lpc' = "loaded"
  /\ UNCHANGED <<envVars, cache, redis, es, keyVars, old, todo, answer, changed,
                 changeVars, plan, appState, history>>

WriteRedis(i) ==
  /\ Runs(i, "write")
  /\ tasks' = RemoveAt(tasks, i)
  /\ redis' = Override(redis, tasks[i].objects)
  /\ UNCHANGED <<envVars, cache, es, keyVars, loadVars, changeVars, plan, appState, history>>

(* The list is written after the tasks have been created, whatever another *)
(* thread has made of it since it was read.                                *)
WriteKeys(t) ==
  /\ \/ /\ t = "load"
        /\ \/ lpc = "keys" /\ lpc' = "class" /\ UNCHANGED appState
           \/ lpc = "allkeys" /\ lpc' = "elastic" /\ appState' = 2
        /\ UNCHANGED cpc
     \/ /\ t = "change"
        /\ (cpc = "delkeys" /\ cpc' = "unindex") \/ (cpc = "keys" /\ cpc' = "elastic")
        /\ UNCHANGED <<lpc, appState>>
  /\ saving' = [saving EXCEPT ![t] = {}]
  /\ keys' = saving[t] /\ IF t = "load" THEN UNCHANGED history ELSE Disturb
  /\ UNCHANGED <<envVars, cache, redis, es, tasks, loaded, old, todo, answer, changed,
                 subject, plan>>

-----------------------------------------------------------------------------
(* The load                                                                *)

(* The map of Redis replaces the one in memory, at every load: the maps    *)
(* that isPopulatedCache asks for are never filled.  When Redis fails the  *)
(* map stays.                                                              *)
Install ==
  /\ lpc = "loaded"
  /\ \/ cache' = loaded /\ UNCHANGED history
     \/ Disturb /\ UNCHANGED cache
  /\ appState' = IF appState = 0 THEN 1 ELSE appState
  /\ lpc' = "begin" /\ loaded' = Nothing
  /\ UNCHANGED <<envVars, redis, es, keyVars, tasks, old, todo, answer, changed, changeVars,
                 plan>>

BeginUpdate ==
  /\ lpc = "begin"
  /\ old' = {<<e, cache[e]>> : e \in Present(cache)}
  /\ todo' = {ClassOf[e] : e \in Present(store)}
  /\ changed' = FALSE
  /\ lpc' = "class"
  /\ UNCHANGED <<envVars, cache, redis, es, keyVars, tasks, loaded, answer, changeVars,
                 plan, appState, history>>

FetchClass(c) ==
  /\ lpc = "class" /\ c \in todo
  /\ todo' = todo \ {c}
  /\ answer' = [e \in InClass(c) |-> store[e]]
  /\ lpc' = "compare"
  /\ UNCHANGED <<envVars, cache, redis, es, keyVars, tasks, loaded, old, changed,
                 changeVars, plan, appState, history>>

Listed == {e \in DOMAIN answer : answer[e] # None}
Same   == {e \in Listed : cache[e] = answer[e]}
Whole  == {e \in Listed : cache[e] \in Versions}

(* The objects of got are put in the cache, those of kept are not missing, *)
(* and the class is saved, as in the map saved, if anything changed.       *)
PutClass(got, kept, saved) ==
  /\ cache' = Override(cache, got)
  /\ old' = old \ {<<e, cache[e]>> : e \in kept}
  /\ changed' = (changed \/ DOMAIN got # {})
  /\ IF DOMAIN got = {} THEN lpc' = "class" /\ UNCHANGED <<tasks, keyVars>>
       ELSE LET c == ClassOf[CHOOSE e \in DOMAIN got : TRUE] IN
            /\ tasks' = Append(tasks, WriteTask(saved, c))
            /\ ReadKeys("load", {c}) /\ lpc' = "keys"

(* Mutants: what is unchanged counts as missing; the class is saved before *)
(* its objects are added.                                                  *)
UpdateForgets(got, kept)    == PutClass(got, {}, Override(cache, got))
UpdateSavesEarly(got, kept) == PutClass(got, kept, cache)
Update(got, kept)           == PutClass(got, kept, Override(cache, got))

(* SPARQL: an object that differs from the one in the cache replaces it.   *)
(* A call that fails, or an object that cannot be read, ends the class:    *)
(* what came before it (here any part of the answer) counts.               *)
CompareFuseki ==
  /\ handler = "fuseki" /\ lpc = "compare"
  /\ \E K \in SUBSET Listed :
       /\ Update([e \in K \ Same |-> answer[e]], K \cap Same)
       /\ IF K = Listed THEN UNCHANGED history ELSE Disturb
  /\ answer' = <<>>
  /\ UNCHANGED <<envVars, redis, es, loaded, todo, changeVars, plan, appState>>

(* Trellis: only what the cache lacks, or has without attributes, is asked *)
(* for; an answer may lack what the attributes are made of.                *)
Answers == UNION {{got \in [G -> Objects] : \A e \in G : got[e] \in {answer[e], Blank}} :
                    G \in SUBSET (Listed \ Whole)}

CompareTrellis ==
  /\ handler = "trellis" /\ lpc = "compare"
  /\ \E got \in Answers :
       /\ Update(got, Whole)
       /\ IF DOMAIN got = Listed \ Whole /\ \A e \in DOMAIN got : got[e] # Blank
            THEN UNCHANGED history ELSE Disturb
  /\ answer' = <<>>
  /\ UNCHANGED <<envVars, redis, es, loaded, todo, changeVars, plan, appState>>

(* An answer that cannot be read ends the load in the middle of a class.   *)
CompareBreaks ==
  /\ handler = "trellis" /\ lpc = "compare" /\ Listed \ Whole # {}
  /\ \E got \in Answers : cache' = Override(cache, got)
  /\ EndLoad /\ Disturb
  /\ UNCHANGED <<envVars, redis, es, keyVars, tasks, changeVars, plan, appState>>

(* What is left in old is removed from the cache, by its identifier; then  *)
(* every class is saved, in any order.  A class without objects may have   *)
(* no entry in the map and is not saved then.                              *)
RemoveMissing ==
  LET next == Override(cache, [e \in {o[1] : o \in old} |-> None]) IN
  /\ lpc = "class" /\ todo = {}
  /\ IF changed \/ old # {}
       THEN /\ cache' = next
            /\ \E q \in SetToAllKPermutations(Classes) :
                 /\ {ClassOf[e] : e \in Present(cache)} \subseteq ToSet(q)
                 /\ tasks' = tasks \o WriteTasks(next, q)
                 /\ ReadKeys("load", ToSet(q))
            /\ lpc' = "allkeys" /\ UNCHANGED appState
       ELSE /\ lpc' = "elastic" /\ appState' = 2
            /\ UNCHANGED <<cache, tasks, keyVars>>
  /\ old' = {}
  /\ UNCHANGED <<envVars, redis, es, loaded, todo, answer, changed, changeVars,
                 plan, history>>

(* A call to the store throws and ends the load.                           *)
LoadFails ==
  /\ lpc \in {"begin", "class"}
  /\ EndLoad /\ Disturb
  /\ UNCHANGED <<envVars, cache, redis, es, keyVars, tasks, changeVars, plan, appState>>

-----------------------------------------------------------------------------
(* updateElasticData, in the load and after a notice                       *)

(* Mutant: it has work only when the load found changes.                   *)
MissingInElasticIfChanged ==
  [e \in {x \in Present(cache) \ Present(es) : changed} |-> cache[e]]
(* What the cache has under identifiers that the index lacks.              *)
MissingInElastic == [e \in Present(cache) \ Present(es) |-> cache[e]]

ElasticPlan(t) ==
  /\ \/ t = "load" /\ lpc = "elastic" /\ lpc' = "index" /\ UNCHANGED cpc
     \/ t = "change" /\ cpc = "elastic" /\ cpc' = "index" /\ UNCHANGED lpc
  /\ plan' = [plan EXCEPT ![t] = MissingInElastic]
  /\ UNCHANGED <<envVars, cache, redis, es, keyVars, tasks, loaded, old, todo, answer,
                 changed, subject, appState, history>>

(* The objects of each class are saved in one call, which may fail.        *)
Indexed(t, C) == Override(es, [e \in {x \in DOMAIN plan[t] : ClassOf[x] \in C} |-> plan[t][e]])

FinishLoad ==
  /\ lpc = "index"
  /\ \E C \in SUBSET Classes :
       /\ es' = Indexed("load", C)
       /\ IF C # Classes THEN Disturb
          ELSE /\ calm' = IF ~steady THEN 0 ELSE IF calm = 2 THEN 2 ELSE calm + 1
               /\ UNCHANGED steady
  /\ EndLoad
  /\ plan' = [plan EXCEPT !["load"] = <<>>]
  /\ UNCHANGED <<envVars, cache, redis, keyVars, tasks, changeVars, appState>>

FinishChange ==
  /\ cpc = "index"
  /\ \E C \in SUBSET Classes : es' = Indexed("change", C)
  /\ cpc' = "idle" /\ subject' = None
  /\ plan' = [plan EXCEPT !["change"] = <<>>]
  /\ Disturb
  /\ UNCHANGED <<envVars, cache, redis, keyVars, tasks, loadVars, appState>>

-----------------------------------------------------------------------------
(* actualizeData, one notice at a time                                     *)

(* A notice of an entity that is in the cache no more throws; so does any  *)
(* notice of an insertion or an update, before it has changed anything.    *)
(* Both are taken for success.  Notices for a Trellis store, and notices   *)
(* before the first load has read Redis, are dropped.                      *)
TakeNotice(n) ==
  /\ cpc = "idle" /\ n \in notices
  /\ notices' = notices \ {n}
  /\ \/ /\ handler = "trellis" \/ appState = 0
        /\ UNCHANGED <<cache, keyVars, tasks, changeVars>>
     \/ /\ handler = "fuseki" /\ appState > 0
        /\ n.action = "UPDATE" \/ cache[n.entity] = None
        /\ cpc' = "save" /\ subject' = n.entity
        /\ UNCHANGED <<cache, keyVars, tasks>>
     \/ /\ handler = "fuseki" /\ appState > 0
        /\ n.action = "DELETE" /\ cache[n.entity] # None
        /\ cache' = [cache EXCEPT ![n.entity] = None]
        /\ tasks' = Append(tasks, WriteTask(cache', ClassOf[n.entity]))
        /\ ReadKeys("change", {ClassOf[n.entity]})
        /\ cpc' = "delkeys" /\ subject' = n.entity
  /\ Disturb
  /\ UNCHANGED <<handler, store, loads, changes, redis, es, loadVars, plan, appState>>

(* A call to Elasticsearch that fails is only logged.                      *)
DeleteFromElastic ==
  /\ cpc = "unindex"
  /\ es' \in {es, [es EXCEPT ![subject] = None]}
  /\ cpc' = "save"
  /\ Disturb
  /\ UNCHANGED <<envVars, cache, redis, keyVars, tasks, loadVars, subject, plan, appState>>

SaveChange ==
  /\ cpc = "save"
  /\ \/ /\ tasks' = Append(tasks, WriteTask(cache, ClassOf[subject]))
        /\ ReadKeys("change", {ClassOf[subject]})
     \/ /\ InClass(ClassOf[subject]) \cap Present(cache) = {}
        /\ ReadKeys("change", {}) /\ UNCHANGED tasks
  /\ cpc' = "keys"
  /\ Disturb
  /\ UNCHANGED <<envVars, cache, redis, es, loadVars, subject, plan, appState>>

-----------------------------------------------------------------------------
(* The environment                                                         *)

StoreChanges(e) ==
  /\ changes < MaxChanges
  /\ changes' = changes + 1
  /\ \E v \in (Versions \cup {None}) \ {store[e]} :
       /\ store' = [store EXCEPT ![e] = v]
       /\ notices' = notices \cup {[entity |-> e, action |-> IF v = None THEN "DELETE" ELSE "UPDATE"]}
  /\ Disturb
  /\ UNCHANGED <<handler, loads, cache, redis, es, keyVars, tasks, loadVars, changeVars, plan,
                 appState>>

(* /cache/force-reload, while no other load is running.                    *)
Reload ==
  /\ lpc = "idle" /\ appState = 2 /\ loads < MaxLoads
  /\ loads' = loads + 1
  /\ tasks' = Append(tasks, LoadTask)
  /\ lpc' = "queued"
  /\ UNCHANGED <<handler, store, notices, changes, cache, redis, es, keyVars, loaded, old,
                 todo, answer, changed, changeVars, plan, appState, history>>

(* The process dies and is started again: what was in memory, and the      *)
(* writes not yet done, are lost.                                          *)
Crash ==
  /\ loads < MaxLoads
  /\ loads' = loads + 1
  /\ cache' = Nothing /\ tasks' = <<LoadTask>>
  /\ lpc' = "queued" /\ loaded' = Nothing /\ old' = {} /\ todo' = {}
  /\ answer' = <<>> /\ changed' = FALSE
  /\ cpc' = "idle" /\ subject' = None
  /\ plan' = [t \in {"load", "change"} |-> <<>>]
  /\ saving' = [t \in {"load", "change"} |-> {}]
  /\ appState' = 0
  /\ Disturb
  /\ UNCHANGED <<handler, store, notices, changes, redis, es, keys>>

-----------------------------------------------------------------------------
PoolStep   == \E i \in 1..Threads : StartLoad(i) \/ ReadRedis(i) \/ WriteRedis(i)
LoadStep   ==
  \/ Install \/ BeginUpdate \/ CompareFuseki \/ CompareTrellis \/ CompareBreaks
  \/ \E c \in Classes : FetchClass(c)
  \/ WriteKeys("load") \/ RemoveMissing \/ LoadFails \/ ElasticPlan("load") \/ FinishLoad
ChangeStep ==
  \/ \E n \in notices : TakeNotice(n)
  \/ DeleteFromElastic \/ SaveChange \/ WriteKeys("change") \/ ElasticPlan("change") \/ FinishChange
Environment == (\E e \in Entities : StoreChanges(e)) \/ Reload \/ Crash

Next == PoolStep \/ LoadStep \/ ChangeStep \/ Environment

Spec == Init /\ [][Next]_vars

-----------------------------------------------------------------------------
(* Properties                                                              *)

(* Every variable keeps its type.                                          *)
TypeOK ==
  /\ handler \in Handlers
  /\ store \in [Entities -> Versions \cup {None}]
  /\ cache \in Maps /\ redis \in Maps /\ es \in Maps /\ loaded \in Maps
  /\ keys \subseteq Classes /\ saving \in [{"load", "change"} -> SUBSET Classes]
  /\ \A i \in DOMAIN tasks : tasks[i].kind = "write" =>
       \E c \in Classes : DOMAIN tasks[i].objects = InClass(c)
  /\ lpc \in {"idle", "queued", "reading", "loaded", "begin", "class", "compare",
              "keys", "allkeys", "elastic", "index"}
  /\ old \subseteq Entities \X Objects /\ todo \subseteq Classes
  /\ changed \in BOOLEAN
  /\ cpc \in {"idle", "delkeys", "unindex", "save", "keys", "elastic", "index"}
  /\ subject \in Entities \cup {None}
  /\ appState \in 0..2 /\ steady \in BOOLEAN /\ calm \in 0..2

Rest(n) == lpc = "idle" /\ calm >= n

(* Two loads that nothing disturbs bring the cache to the store, whatever  *)
(* Redis and the cache held before, crashes and lost or reordered writes   *)
(* included: for SPARQL the same objects, for Trellis the same entities.   *)
CacheConverges ==
  Rest(2) => \A e \in Entities :
    /\ (cache[e] = None) = (store[e] = None)
    /\ handler = "fuseki" => cache[e] = store[e]

(* After a load that nothing disturbed, each object of the cache can be    *)
(* found through Elasticsearch.                                            *)
Searchable == Rest(1) => Present(cache) \subseteq Present(es)

(* After a load that nothing disturbed, once its writes are done, Redis    *)
(* has each object of the cache under a key that is listed, whatever keys  *)
(* the saves of a load and of a notice have taken from each other before:  *)
(* a restart loses none.                                                   *)
RestartLosesNothing ==
  Rest(1) /\ tasks = <<>> => \A e \in Present(cache) :
    redis[e] = cache[e] /\ ClassOf[e] \in keys

(* "Mantener la última versión en la cache": a load that nothing disturbed *)
(* leaves the cache with what is in the store.                             *)
LastVersionInCache ==
  Rest(1) => \A e \in Entities : cache[e] = store[e]
=============================================================================

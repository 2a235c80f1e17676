# Verification of the discovery library

This directory holds TLA+ modules that model the discovery library
(`discovery-service`, `discovery-back`), the TLC configurations that check them
on small instances, and proofs that the TLA+ proof system checks for every size
of the system. `PROJECT.json` relates every definition to the lines it models.

`JobHandlerServiceImp` is written *J* below; paths without a directory are under
`src/discovery-service/src/main/java/es/um/asio/service/`.

## 1. The system

The library finds entities that describe the same thing: inside one triple
store, between triple stores, and in the LOD cloud. It is one Spring Boot
process with a relational database, Redis, Elasticsearch and Kafka around it.

| Component | State | Operations | Talks to |
|---|---|---|---|
| **Job queue** (*J*) | job maps per kind (class, instance, LOD), three `LinkedList` queues, `isWorking`; per job its requests, status, results | `addJobRegistryFor{Class,Instance,LOD}`, `findSimilaritiesBy...`, `handleQueueFindSimilarities`, `sendWebHooks`, `propagueKafkaActions` | controller (calls), application state (call-backs), pool (`CompletableFuture`), similarity search, job persistence, Kafka |
| **Application state** (`model/appstate`) | a state per data source (REDIS, CACHE, ELASTICSEARCH), the state of the application, the listeners | `setDataState`, `setAppState`, `propagueEvents` | data loading (calls), job queue (call-backs) |
| **Data loading** (`DataHandlerImp`) | none of its own | `populateData`, `actualizeData`, `updateCachedData`, `updateElasticData` | triple stores, cache, Redis, Elasticsearch |
| **REST controller** | none | three kinds of search, `entityChange`, `forceReloadCache` | job queue, data loading |
| **Data cache** (`CacheServiceImp`) | triple objects by node, triple store, class and id; index by date; inverse map of links; statistics | add, remove, save to and load from Redis | Redis |
| **Triple-store handlers** | none | `updateData`, `updateTripleObject` | Trellis and SPARQL proxies over HTTP, cache |
| **Redis store** | one key per class and a list of keys | asynchronous writes, reads of whole maps | Redis |
| **Elasticsearch store** | an index of entities | save, delete, search | Elasticsearch |
| **Similarity search** (`EntitiesHandlerServiceImp`) | none | search in class, between stores, in the LOD cloud | Elasticsearch, HTTP data sources |
| **Open similarities** | results waiting for a decision | `decisionOverObjectResult` | job persistence, Kafka |
| **Job persistence** (proxies, repositories) | job, request, result and action rows | cascade save, "close other jobs", date of the last search | database |
| **Schema, URIs, Trellis writing** | containers in Trellis | look up and create | HTTP |
| **Comparators** | none | scores of strings, numbers, lists | - |

### What is hard in it

* *Threads.* Requests run on web-server threads, asynchronous searches on the
  common pool; loads, and reads and writes of Redis, on a pool of two threads. No method of *J* is
  synchronised, and its maps and queues are plain `LinkedHashMap` and
  `LinkedList`. The look-up of an open job and the insertion of a new one, and
  the test of `isWorking` and its setting, are separate steps.
* *Ordering.* A request may join a job before, while or after it is searched
  and answered. The three queues have a fixed priority. Application events
  come while requests arrive.
* *Failure.* A search may throw, and the save of its outcome too; a web hook may be
  down, not be a URL or never answer; a load may throw half-way; a call to a data
  source may never return.
* *Restart.* Queues live in memory; job rows in the database.
* *Agreement of copies.* The same entity lives in the triple store, the cache,
  the date index, the inverse map, Redis and Elasticsearch, and each operation
  updates some of them.

The correctness of each component, in a sentence. Job queue: each accepted job
is searched once and each of its requests is answered, and the queues never
stop; where the code does not keep this, the properties name the cases. Application state: listeners learn of the states in order. Data loading
and cache: after a load or an entity change the copies agree with the triple
store. Job persistence: a restart leaves no job open for ever. Open
similarities: one decision, one merge. LOD search: a call that fails does not
block the search. `PROJECT.json` lists the hazards with their lines.

## 2. Plan

Done: the job queue (`JobHandler` and two proof modules), the copies of the data
(`DataSync`), the pool the loads run on (`LoadPool`), a search by class and the
actions it derives (`ClassSearch`), the decisions of users (`OpenDecisions`) and
what users see of them (`DecisionService`), the rows of jobs and the date of the last
search (`JobRecords`), and the proofs of all of these. Next:

| Module | What | Questions |
|---|---|---|
| `DataSync`, extended | a write that Redis or the full pool rejects, and what `saveTriplesMapInCache` leaves undone after it | does the next load still find Redis and the cache in agreement? |
| `LodSearch` | `doRequestInLod` and the check-then-create of containers | a call that fails does not block the search |
| `ClassSearch`, extended | an inverse map that is older than the objects, and notices that change an object that links | which links are moved, and in which version of their object |

Each safety property and each refinement of a passing run has a theorem (section 6). At most a dozen runs are kept, so runs that only illustrated a finding
have been dropped; their findings are under "Met while modelling".

## 3. Modules

| Module | Role |
|---|---|
| `JobHandler` | *J* with the threads that call it: state, one action per access to shared state |
| `MCJobHandler` | shapes of request and symmetry for TLC |
| `JobHandler_proofs`, `JobHandlerLife_proofs` | theorems: types, wake-ups, answers; the life of a job |
| `DataSync`, `MCDataSync`, `DataSync_proofs` | triple store, cache, Redis, Elasticsearch; loads, notices, crashes |
| `LoadPool`, `MCLoadPool`, `LoadPool_proofs` | the thread pool and the tasks of the loads |
| `ClassSearch`, `MCClassSearch`, `ClassSearch_proofs` | a search by class: heads, results, merges, links, actions |
| `OpenDecisions`, `MCOpenDecisions`, `OpenDecisions_proofs` | decisions of users on manual similarities |
| `DecisionService` | the same decisions as users are to see them: atomic, without copies of rows |
| `JobRecords`, `MCJobRecords`, `JobRecords_proofs` | rows of jobs, their saves, the delta date, the restart |

### JobHandler

A request is a thread of the web server and names the job it creates. `pc` is
the place of a thread in the code; `cur` the job it works on. Every step is one access
of one thread to shared state, and no step waits for another thread.

| Code | Action |
|---|---|
| `addJobRegistryFor...`: look-up of an open job | `LookUp`; `LookUpBreaks` when the iteration meets an insertion |
| ... reads of the database before the job is in the map | `LookUpFails` when they throw |
| ... `addRequestRegistry`, the job put in the map | `Register`, whatever has become of the job since the look-up |
| ... `saveRequests`, `save` of the job | `SaveDone`, or `Merge` and `CopyBack`; `SaveBreaks` in the LOD cloud, which catches nothing |
| ... added to the queue, wake-up | `Enqueue`, `JoinQueued`, `RefuseSync`, `RunSync` |
| `handleQueueFindSimilarities`: the test | `CheckQueue`; `isWorking = true` and the task `StartTask` |
| `findSimilaritiesBy...`: `poll`, `isWorking = true` | `Take`, `TakeTogether` (two `poll` of a `LinkedList` at once) |
| ... the search and its outcome | `Finish` |
| ... the save of the outcome | `SaveDone`, `Merge`, `CopyBack`; `StoreThrows` (*J*:602, 898: COMPLETED becomes FAIL), `FailThrows` (*J*:610, 907: the search dies) |
| ... `isWorking = false` | `Release`; the wake-up after it is again `CheckQueue` |
| ... `sendWebHooks` | `BeginRound` reads the web hooks, `Post` calls one, `RoundDone`; `RoundBreaks` at a URL that is none |
| ... the second round, `propagueKafkaActions` | `EndRound`, part of the last two |
| `ApplicationState` call-backs during a load | `CachedDataIsReady`, `RealDataIsReady`, `ElasticSearchIsReady`, `LoadFails`, `Reload` |

`persist` merges a job without a row into a new one and copies the fields of the new
row back over the job (`jr.copy`): `Merge` is what the merge has read, `CopyBack` what
it writes later, over whatever others have done. The transaction begins outside
the `try` of `persist`, so a database that is down throws out of it: caught by a search by
class, fatal to the last save of the other two (`Dies`: `isWorking` stays set, the queues
are not looked at, nobody is answered).

History variables name the cases in which the code breaks what it is meant to do, and the
properties say that there are no others: `left` (a search has ended and left
`isWorking` set), `cut` (jobs whose search or answers an exception has ended), `late`
(requests that joined when no answers were to come), `lost` (requests that a copy has
removed), `split` (jobs inserted by a request that has joined them).

`UnsafeCollections` adds what racing `add` and `poll` of a `LinkedList`, or an
iteration that is disturbed, can do.

Abstracted: what a search computes (its outcome is completed or failed), mails,
the request's own parameters (the entity of a search by instance, the date), which of
several open jobs a look-up returns (any), the results of a job.

### DataSync

One triple store, entities with versions, and the maps from entities to objects
that the cache, Redis and Elasticsearch hold. The steps of a load are `StartLoad`,
`ReadRedis`, `Install` (loadDataFromRedisToCache), `BeginUpdate`, `FetchClass`,
`CompareFuseki` or `CompareTrellis`/`CompareBreaks`, `RemoveMissing`
(updateData, updateCachedData), `ElasticPlan`, `FinishLoad` (updateElasticData);
those of a notice `TakeNotice`, `DeleteFromElastic`, `SaveChange`, `ElasticPlan`,
`FinishChange` (actualizeData). Writes to Redis are tasks of the pool: taken in
order, two at a time, one thread less while a load runs. Each call to a triple store
or to Elasticsearch, and the reading of Redis, may fail and does then what its `catch`
does; writes to Redis are taken to succeed.

`setTriplesMap` reads the list of keys (`TRIPLES_MAP_KEYS`) before it creates the tasks
that write the classes, and writes it back with their keys afterwards, in the thread
that saves, with `keepKeys` true at every call: `saving` is the list that a thread
is going to write, and `WriteKeys` writes it. A load asks Redis for the classes
of the list only.

`isPopulatedCache` asks whether `filtered` has entries and nothing ever fills
it, so each load reads Redis again (the model has no such test). The index by
date is never read and is left out. A notice of an insertion or an update throws
at `qParamsInstance.put` on an immutable map (`SparqlProxyHandler.java:196`),
which the caller swallows; the model has that outcome only. `entityChange` turns
"trellis" into "fuseki", so a notice never reaches a Trellis handler. Two objects
with the same content are equal only if they have attributes and none is null
(`TripleObject.equalAttributes`); versions are such objects, and `Blank` is what
the Trellis handler stores when an answer has no usable attributes.

`steady` and `calm` are history variables: whether anything other than the
running load has changed data, or a call has failed, since it started, and how
many loads in a row were like that. The properties speak of the state after such
loads, whatever went before them.

### LoadPool

`Execute` is `ThreadPoolExecutor.execute` with the sizes of `SpringAsyncConfig`.
Each submission is a step: between two of them other threads of the pool take
tasks, end, or find the queue full.

| Code | Action |
|---|---|
| `forceReloadCache`, `populateData` (`@Async`) | `Request`; `TakeTask` when the load was queued |
| `RedisServiceImp.getTriplesMap`: the list of keys | `ReadList` |
| ... one `getTripleMap` (`@Async`) per key | `SubmitRead`; a rejected one throws out of `getTriplesMap` |
| ... `join` of the futures in turn | `EndRead` (a read that fails ends the waiting), `Joined` |
| `updateData`: a class that changed is saved | `SaveClass`; a rejected write is logged |
| `updateCachedData`: the whole map is saved | `StoresRead`, `SaveMap`, `Updated`; a rejected write ends the save |
| `actualizeData`: the class of a notice is saved | `NoticeSaves` |
| `updateElasticData`, the end, exceptions | `EndLoad`, `LoadThrows` |

`left` holds the classes that a load has still to submit in the loop it is in,
`waiting` those whose read it will join. Classes are numbered by their place in the
list, so a list of n classes is `1..n`. `AtOnce` bounds the loads that are between their
request and the end of their reads; the code has no such bound. The theorems hold for any
value of it; what two overlapping loads do is under "Met while modelling".

### ClassSearch

One call of `findSimilaritiesByClass`. Attributes are abstracted to the entities
whose data an object carries, since `mergeAttributes` keeps what either has; the
comparators to the set of automatic similarities of a head (`Matches`).

| Code | Action |
|---|---|
| `findEntitiesLinksByNodeAndTripleStoreAndClass`: the loop | `SkipHead` (in `foundsSimilarities`), `SearchHead`; the order is that of a `HashMap`, so any |
| *J*:641, a result is taken | `TakeResult`, `SearchFails` when the cached object is gone or Elasticsearch fails |
| *J*:647, an automatic similarity | `TreatAutomatic`: `TripleObject.merge` in mode FREE (`Merged`), or a link |
| *J*:684-747, actions, links moved, the save | `SaveResult`, with the lost save |
| `propagueKafkaActions` | `Send` |
| a notice that removes an object | `Forget` |

`exact` says whether the matches are exactly the duplicates (entities that stand
for the same `thing`) or any of the sets `Inexact`; it is chosen at the start, so that
one run has both. `NothingLost` needs no such condition. Matches may be entities of
the parent classes of the class of the job (`Parents`; `application.yml` has a hierarchy) or of
other stores (`Remote`). `foundsSimilarities` holds identifiers (`IdOf`, unique in a store), so
a head may be left out because an entity of another store was found.

`linked` holds the links of the objects in the cache, per attribute; an attribute is a list
(`Lists`) or has one value. `inverse` is the inverse map as `generateInverseMap`
leaves it after a first load: of an object and the entity it links to it knows one
attribute, any of them when there are several, since the last `put` wins
(`CacheServiceImp.java:429`). `replaceAttValue` changes that attribute and no
other (`Replaced`), and the links to an entity of a parent class are not found, because
it is looked up with the class of the job (`ObjectResult.java:292`, `Dependencies`). The UPDATE
of a result keeps an object as it was when it was first added to it (`moved`):
`ObjectResult` is equal by its identity in the triple store, and a set keeps the
first. Links are taken to name the canonical URI of their target, which is what
`replaceAttValue` compares. That a notice changes an object that links between the load
and the search is not modelled.

### OpenDecisions

`decisionOverObjectResult` for one entity. Each request works on its own copies of
the rows, as the session of a web request does, and each `save` is a transaction
that checks `@Version`: it fails when a row that it writes is `stale`. A save writes
a row only when a column of it changes. `Begin` reads the main rows, and for each of
them `PassBy` or `Decide`, then `SaveUpdate` and `SaveOther` (UPDATE, and DELETE or
LINK) or `SaveMain`; `Propagate` is the call to Kafka at the end. `Abort` is an exception of
any save, or the end of the process. `Offer` is a search that saves a main row with
similarities, whatever was decided on the same entities before: similarities that
were discarded are offered again by a later search.

`DecisionService` has neither copies nor versions nor places in the code: `Close`,
`Discard` and `Skip` decide on the state a similarity has at that moment, `Build` makes
the merge that a closed similarity is owed, by the request that closed it and nobody
else, a main row is hidden only when nothing below it is open (`Shown`), and `Send` hands
over all merges of a request. `OpenDecisions` maps `Decide` to one of the three,
`PassBy` to `Skip`, `SaveUpdate` to `Build`, `SaveMain` to `Show`, `Propagate` to `Send`,
`Abort` to `Fail`; `SaveOther` is not seen. `merged` is `acts` without what the
UPDATE and DELETE contain.

### JobRecords

The jobs of one class of one store in memory (`fields`), their rows, and the threads
that save them. `Read`, `CopyBack`, `Flush` and `Lose` are the steps of `persist`:
a job without a row is merged as a new one and the new row's fields are copied back
over the job (`jr.copy`); a row that exists gets the fields that the job has then.
Identifiers are taken from a counter. `Join` is the look-up of a job with the date
that a request with `applyDelta` reads; look-up races are the subject of
`JobHandler`, so look-up and insertion are one step here, and searches run one at a
time. `Start`, `LookAt` and `Finish` are the search, over all cached entities or those
changed since the date. `Change` and `Fetch` bring changes: the date of a change is
that of the store. `Restart` is `closeOtherJobRegistryByAppId` at the start of the next
process. The query is a native update without `@Modifying`; it is taken to be executed,
as the driver does. The cache stays over a restart, as if loaded from Redis. Rows of
completed jobs are taken to have a request of the right type, which the join of the
query asks for.

History variables: what completed searches have looked at (`searched`), when the
last one ended, which entities reached the cache during a search or with an old date
(`late`), and which jobs a request that joined them has inserted (`split`).

## 4. Runs

| Run | Instance | Shows |
|---|---|---|
| `jobs_async` | 2 asynchronous requests that share a job by class or in the LOD cloud or have one each; 2 pool threads, 1 reload, any interleaving, saves and web hooks that throw | `ProcessedOnce`, `EveryoneAnswered`, `KafkaAnswered` |
| `jobs_race` | 2 requests, synchronous and by instance too, hooks that fail, races inside the collections | no wake-up is lost (`NoLostWakeup`); why `isWorking` is set (`WorkingIsTrue`) |
| `jobs_served` | 2 requests that share a job, one of them synchronous, or meet a search by instance; 1 pool thread; fairness | `OpenIsScheduled`; `NeverReopened`; every queued job is processed unless the queues are stopped for ever (`ServedUnlessStopped`) |
| `data_sync` | 2 entities of 2 classes, 2 versions, both kinds of store, 3 loads (crashes included), 1 change of the store | `CacheConverges`, `Searchable`, `RestartLosesNothing` |
| `load_pool` | 3 loads, one at a time before the end of its reads; up to 2 classes, notices, 2 to 3 threads, a queue of 2 | what is waited for is scheduled; the pool does not stand still; loads end |
| `class_search` | 4 entities of a class, one of its parent class, one of another store with the identifier of one of the four; 2 objects that link, one of them in the class, with a list and a single attribute; 2 things; 1 entity may leave the cache | every entity merged is carried by the survivor and the others are deleted; results agree; known links are moved in the cache and in what is sent |
| `open_decisions` | 2 main rows, 2 similar entities (one of another store), 2 users with any decisions | one merge per similarity, CLOSED is final, nothing open is hidden, CLOSED and sent agree when no request failed; `ImplementsService` of `DecisionService` |
| `job_records` | 2 requests, 2 jobs, 1 entity, 3 dates, 1 change, 3 identifiers, 1 restart | what a delta search may skip; which jobs stay joinable; the outcome in a row is final; who gets less than asked |

Violations: where documents or comments promise more than the code does.

| Run | What TLC finds |
|---|---|
| `claim_served` | two threads see `isWorking` false; the second task polls null and leaves `isWorking` set for ever |
| `claim_one_open_job` | two requests for one class each find no open job and open one |
| `claim_related_kept` | an accepted similarity: the related entity is deleted and the UPDATE has none of its data |
| `claim_last_version` | an object that changed in the SPARQL store is put in the cache and then removed as missing; the next load brings it back |

### Met while modelling

TLC found these too; they have no run of their own.

*Job queue.* A synchronous request that joins a queued job searches it, and so does
the queue (*J*:283, against `docs/manual_de_usuario.md:73`); a synchronous search that
ends resets `isWorking` under another (*J*:771). A request that found the
job open and is added to it after its web hooks were read gets no answer (*J*:268,
`late`). When the creator of a job saves it, the copy of the new row removes a request
that joined during the save (`lost`), and a request that joins before the row exists
inserts one too: its copy may put a completed job back to PENDING, open in memory and in
no queue (`split`). A database that is down ends a search by instance or in the LOD
cloud with `isWorking` set and nobody answered (*J*:610, 907); the queues stop until some
other search resets it. A save that throws makes a completed search FAIL (*J*:602,
898). A request for the LOD cloud whose save throws leaves an open job that nobody will search
(*J*:475-481), as does a synchronous request refused while the application starts
(*J*:285); asynchronous requests join it and wait. A web hook that never
answers keeps its thread for ever (*J*:963), a web hook that is not a URL cuts off the
other ones and Kafka, except in the LOD cloud (`cut`). Requests
for two instances of a class share a job, and the later one's entity replaces the
earlier one's (*J*:358). Queues are served by kind, not by arrival (*J*:934, against
`docs/documentacion-tecnica.md:371`). The search by class calls `sendWebHooks` twice
(*J*:774, 776); the results of an instance job are emptied before it is answered (*J*:616).

*Data.* Two reloads at the same time occupy both threads of the pool and wait for
reads that need one: neither ends, nor anything else on that pool, as the queue of 500
must fill up before a third thread is started (`DataHandlerImp.java:126`; with
`AtOnce = 2` TLC reaches that state, and `LoadEnds` is violated). Elasticsearch is never
told of changed or removed entities by a load (`DataHandlerImp.java:213`, against
`docs/documentacion-tecnica.md:331`). A load and a notice that save at the same time
lose a key: one writes back the list it read before the other had added to it
(`RedisServiceImp.java:186`; its comment, line 177, says that with `keepKeys` "the keys
will be preserved"). The class is then not loaded after a restart, until a load has read
it from the store and listed it again (`RestartLosesNothing`). Notices of updates have no effect
(`SparqlProxyHandler.java:196`, against
`docs/documentacion_api_rest_de_la_libreria_de_descubrimiento.md:104`).

*Search by class.* The user's manual says that the most recent of two duplicates
survives (`docs/manual_de_usuario.md:99`); `merge` takes the one with more links, and
the comparison of dates is unreachable (`TripleObject.java:541`). When one result
deletes two entities that the same object links to, the UPDATE has the first snapshot
of that object, which still links to the second. An object that links to a deleted entity
by two attributes keeps one of the links, in the cache and in the UPDATE
(`CacheServiceImp.java:429`); one that links to a deleted entity of a parent class keeps its
link and is not sent (`ObjectResult.java:292`). When similarity is not transitive,
one result can keep what another deletes (`OneSurvivor` needs `exact`). A head with the
identifier of an entity that was found in another store is never looked at
(`EntitiesHandlerServiceImp.java:111`). Results are sent
in the order of a `HashSet`: two UPDATEs of one linker are not ordered as they were
computed, and the older one may come last.

*Decisions.* The similarity is saved as CLOSED before its actions are built and sent,
and there is no transaction around the decision: when a later save fails, its merge
is lost and no decision can be made on it again. Two decisions on different children
of one main row may each see the other's still OPEN, and leave the main row OPEN with
nothing left to decide. `findByEntityIdAndClassNameAndIsMain` asks for neither node nor
store, so entities with one identifier in two stores share a decision.

*Rows of jobs.* `docs/documentacion-tecnica.md:297` promises that a search from the last date
finds all that has changed; the date is when the last search ended, so an entity that
reached the cache while it ran, or was changed in the store before and fetched after it,
is skipped by all later delta searches (`late` in `OnlyLateIsSkipped`). The table keeps dates
in seconds, which only moves them back. A request that joins a job
replaces its date: one that asked for all entities (API document, line 221) may get a
delta search (`AllUnlessShared`). When a request that joins a job saves it before its
creator has, two rows are made, and the copy of the new row over the job may undo the
end of its search: the job is open in memory for ever, requests join it and the class is
not searched again until a restart (`split` in `OpenWillRun`). A save that fails is swallowed: the outcome of
a search may never be stored, and a later delta search repeats more than needed, which
`OnlyLateIsSkipped` allows.

### Bounds

*Jobs.* Two requests make every pairwise race: of look-ups, of saves of one job, of a
join and the end of a search. Two pool threads are the fewest that run two tasks
together; `jobs_served` has one, so that a web hook that hangs stops the queues. `Calls`
gives each run the pairs of calls whose combinations its properties tell apart. One
resource per kind, since jobs of different resources meet only in
`isWorking` and the queues, which the kinds already share. One reload repeats
every event. The theorems have none of these bounds.
*Data.* Two loads in a row follow any disturbance only if there are three; one
change of the store is enough to make an object new, different or missing, as the
store, and what an earlier load left, are arbitrary. With two classes a class can
fail alone. One load and one notice run at a time; loads that overlap are the
subject of `LoadPool`. A class is compared in one step: only a notice can touch
the cache meanwhile, and it may come before and after.
The reads of a load are one step, as their keys are independent.
*Search by class.* Four entities make two groups of two, and a survivor that changes
with each merge; the objects that link have, in one of the `Links` considered, entities of
both groups in one list, in another one entity in two attributes, in the third one of the parent
class beside one of the class. A linker inside the class may itself be deleted or
survive. `Inexact` has matches that overlap, one of the parent class, and one of another
store. The theorems have none of these bounds.
*Decisions.* Two main rows let a request be past one and before the other; two requests
make every conflict of versions. An entity of each store gives merge and link.
*Rows.* Two requests and the search are three overlapping saves of one job; the second
job shows what a lost or reopened one leaves behind. Three dates order a change, the end
of a search and a later search; the third identifier is the second row of a split job
and the row of the next. One entity is enough, as entities are independent in a search.
*Pool.* With two classes, a queue of two and a third thread, the reads and writes of
one load and the writes of another fill the queue, start the extra thread and are
rejected, and the thread ends again. `AtOnce` is one less than the core, the most for
which `LoadEnds` holds; the other loads may be past their reads and save. A third
load is requested while two save. One write of a notice is in the pool at a time.

## 5. Fairness

Weak fairness of each thread's next step: threads are scheduled, searches by class
and instance are taken to end (they read the cache and Elasticsearch), the database to
answer or throw, and remote calls of a load to answer or fail. A search in the LOD cloud has
no fairness: its HTTP handler overrides only `onCompleted`, so it may wait for ever. Nor has
a POST to a web hook, which has no time limit, nor any step that stands for an
exception. In `LoadPool` a free thread takes a task, each task of
Redis ends and each load takes its next step, whatever the other threads do. No fairness is assumed of requests, reloads, changes or crashes.

## 6. Proofs

`JobHandler_proofs` proves for all constants that satisfy `JobHandlerAssumption`,
all interleavings, synchronous requests, failing hooks and racy collections:

* `TypeCorrect`: `Spec => []TypeOK`, with the types as an inductive invariant
  (`Typed`), one lemma per group of actions.
* `WakeupIsKept`: `Spec => []NoLostWakeup`. The property says that
  whenever the application is up, not working and a queue is not empty, some
  thread is still on its way to `handleQueueFindSimilarities`; with the fact that
  the application is ready once Elasticsearch is (`WakeInv`) it is inductive,
  because every write that makes the premise true (an enqueue, the reset of `isWorking`,
  the event of Elasticsearch) is followed by the call in the same thread.
* `WorkingIsKept` (`WorkingIsTrue`), inductive with the types: only the end of a search
  takes a thread out of the search, and it resets the flag or dies; only a poll takes a
  task away, and it finds a job or sets `left`.
* `EveryoneIsAnswered`, `KafkaIsAnswered`. `AnswersInv`: a request of a job that has an
  outcome, or that would be one again when a copy puts the outcome back, is answered or
  some thread will answer all requests of the job that are there when it begins
  (`WillPost`, `WillEnd`); a copy holds no request that the job has not (`CopiesOK`).
  A copy that reopens the job and a search that repeats it are covered.

`JobHandlerLife_proofs` assumes that collections do not race (`~UnsafeCollections`), and
nothing about calls and interleavings in its first two theorems:

* `NeverOpensAgain` (`NeverReopened`) and `OpenStaysScheduled` (`OpenIsScheduled`). `LifeInv`
  says where a job can be: one that its creator has not registered has no status
  (`FreshOK`), one in a queue or a search has one (`QueueOK`, `OpenedOK`); and, for jobs
  that are not `split`, that only the creator and the searches from the queue ever copy a
  row back (`BackOK`), and that what a search copies back is an outcome (`OwnerOK`).
* `AsyncProcessedOnce` (`ProcessedOnce`) needs that all requests are asynchronous, which is
  where the code keeps it. `OnceInv`: a job that its creator has not queued is in no queue
  and not searched (`CreatingOK`); a job is in its queue once and was not searched before
  (`WaitingOK`); a search is the only one of its job (`SearchOK`).

`ClassSearch_proofs`, for every class, set of linkers and matches, with the entities and
linkers of a store finite:

* `SearchTyped`, and `SurvivorHasAll` (`NothingLost`): each result is `Sound` from its
  head on, since `Merged` adds one entity to both sides of each equation, whichever survives.
* `GroupsAreDisjoint` (`OneSurvivor`): a head has one result, whose similarities are among
  those found; under `exact` they are the duplicates of the head, and two results are
  about different things (`OneResultPerHead`, `OneResultPerThing`).
* `CacheFollows` and `UpdateFollows` (`CachedLinksMoved`, `SentLinksMoved`): the inverse map
  names a single-valued attribute for one entity only (`MapOK`); results are about different
  things (`OneThing`), so a later result moves other links of the same list, or another
  attribute (`OthersKeep`). An object in which two results move a link each is taken into
  both UPDATEs as it then is, so the later one has both links moved (`SentBySave`), in
  whatever order the entities are deleted.

`OpenDecisions_proofs`, for every number of users, searches and entities:
`DecisionsTyped`, `AcceptedOnce`, `OpenIsOffered`, `ClosedReachesKafka`, `ClosedStays`.
The invariant relates the copies to the rows: a row that is not `stale` for a request is
equal to its copy, so what passes the version check overwrites what was read; and says
who is at work on a closed similarity: its action exists, or a request is between
`Decide` and `SaveUpdate` on it, alone, or has failed there (`CopiesLag`, `MergesAreNew`,
`ClosedHasAct`). `DecisionsAreAtomic` is the refinement of `DecisionService`, with a lemma
per action. What has to be shown is that a copy, though it may be old, leads to the same
decision as the row: closed and absent are final, so a copy that says so is right
(`PassByMaps`); any other decision is written under the version check (`DecideMaps`),
except that a copy already discarded is discarded again without a write, which is a
`Skip` when somebody has closed the row; and a main row that a copy lets close has no
open child (`SaveShows`).

`LoadPool_proofs`, for every size of the pool and its queue, every list of classes and
any number of loads: `Types`, `AwaitedReadsAreScheduled`, and `StandsStillOnlyByReloads`
(`PoolMovesOn`), whatever `AtOnce` is. The queue is empty while the pool has fewer
threads than its core, and a load that is queued is so once and has not begun
(`QueuedOnce`). Only loads that are before the end of their reads
wait (`OnlyReadersWait`), each on one thread and for reads that the pool has. So when every
thread waits, the queue is not empty, the core is full, and as many loads wait as it has
threads. With `AtOnce` equal to `CorePoolSize` TLC finds that state.

`JobRecords_proofs`, for all entities, requests, jobs and bounds: `RecordsTyped`,
`DeltaMissesNothing`, `AllAreSearched`, `OpenIsAhead`, `OutcomeStays`. `Inv` has four parts
besides the types, each checked by TLC first: `DatesInv` (completed jobs, rows and copies
are no later than the end of the last search, no change still to be looked at is older,
and a running search has it still to do or has seen it), `SharedInv` (only a request with
a delta date gives its job one), `PlaceInv` (a job is pending until its search ends, and
later only in the hands of a request that inserted its row), `RowsInv` (an identifier is
of one job; a closed row agrees with its job and with every copy whose version would let
it be written).

`DataSync_proofs`, for every number of entities, versions, loads, changes and crashes,
with finitely many classes: `DataTypeCorrect`, `Converges` (`CacheConverges`), `AllSearchable`
(`Searchable`), `RestartSafe` (`RestartLosesNothing`). None of them is inductive: they
speak of the end of a load. `SyncInv` says what holds in each phase of a load that
nothing disturbed, and what the load before left:

* the queue of the pool (`TasksOK`): the read of such a load has only earlier writes
  before it, and takes the one thread that is free, so Redis is read after all of them
  (`ReadOK`);
* while classes are compared (`UpdateOK`), an entity that is still to be compared, or is not
  in the store, is in `old` as it is in the cache; one that was compared has a `Good` object,
  and is not in `old` if the load before was undisturbed too. A write that waits says what
  the cache says of entities that were compared;
* from the removal until the next load has read Redis (`AfterOK`), the cache has only good
  objects, after a second load all of them, and what Redis holds or may still be told of
  an entity `Agrees` with the cache, whichever of the two threads writes first: a waiting
  write may be older than the removal of an entity, but then the store lacks the
  entity, and the next load removes it again;
* the classes of the cache are `Named`: in the list of keys, or in the one that the load is
  about to write (`ListOK`). A save adds the keys of what it writes, and what the cache
  had before came from keys that were listed. What Redis says of an entity is what is
  `Seen` of it through the list.

A step that disturbs the load makes all of this vacuous (`Quiet`); so each other step has
one lemma. The second load is needed for what the first removes by its identifier.

Model-checked only: `ServedUnlessStopped` and `LoadEnds` (liveness under fairness is out of
the prover's reach). `StandsStillOnlyByReloads` is the safety half of `LoadEnds`.

## 7. Not modelled

Scores and comparators (arithmetic of doubles without state), what a search finds,
mails, statistics, how the inverse map is built, the index by date, the file in Firebase, the
start in debug mode (which skips the stores), Kafka delivery, URIs and schema,
Trellis writing, audit and JPA boilerplate, and what section 2 plans. Searches by instance and in the
LOD cloud are modelled as jobs only (`JobHandler`), not what they compute. The rows of
requests have identifiers that are the maximum plus one, read and used in two
transactions (`RequestRegistryRepository.java:106`); they are not modelled. An inverse
map that is older than the cache (a second load adds to it and clears nothing) makes a
search send old versions of the objects that link; `ClassSearch` starts from a map that
is right. `isAppReady`
is not volatile; the model lets every thread see it at once. Requests have unique
keys, which the controller checks. Writes to Redis do not fail in `DataSync`; that the
full pool rejects some, and what the load submits after that, is in `LoadPool`, without
the data.

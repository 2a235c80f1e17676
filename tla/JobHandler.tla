----------------------------- MODULE JobHandler -----------------------------
(***************************************************************************)
(* The job queue of the discovery library (JobHandlerServiceImp): requests *)
(* for a similarity search arrive on the threads of the web server, share  *)
(* or create a job, and are answered when the job has run.  Nothing in the *)
(* class is synchronised, so a step below is one access to shared state by *)
(* one thread: a look-up in the job map, an insertion, the merge of a job  *)
(* and the copy of its row back over it, a read of isAppReady and          *)
(* isWorking, a write of isWorking, a queue operation, a POST.             *)
(*                                                                         *)
(* A job is named by the request that created it.                          *)
(***************************************************************************)
EXTENDS Integers, Sequences, FiniteSets

CONSTANTS
  Reqs,        \* requests; each has a web-server thread of its own
  Workers,     \* threads of the common pool that run asynchronous jobs
  Loader,      \* the thread of DataHandlerImp.populateData
  Targets,     \* (node, triple store, class) triples
  Calls,       \* which calls the requests make: the assignments considered
  NoJob,       \* null
  MaxReloads,  \* bound: calls of /cache/force-reload
  UnsafeCollections \* TRUE: with the outcomes of unsynchronised accesses to
               \* LinkedList and LinkedHashMap that overlap in time

Kinds    == {"class", "instance", "lod"}
Hooks    == {"none", "url", "bad"}  \* "bad": not a URL the client accepts
Call     == [kind : Kinds, target : Targets, sync : BOOLEAN, hook : Hooks,
             kafka : BOOLEAN]
Statuses == {"NONE", "PENDING", "COMPLETED", "FAIL"}
Threads  == Reqs \cup Workers \cup {Loader}
PCs      == {"new", "register", "save", "dispatch", "search", "store", "fail",
             "release", "wake", "wakeStart", "notify", "post", "notifyAgain",
             "postAgain", "handle", "start", "done", "refused", "error", "idle",
             "loading"}
Copies   == [members : SUBSET Reqs, status : Statuses]

ASSUME JobHandlerAssumption ==
  /\ Calls \subseteq [Reqs -> Call]
  /\ NoJob \notin Reqs
  /\ Reqs \cap Workers = {}
  /\ Loader \notin Reqs \cup Workers
  /\ MaxReloads \in Nat
  /\ UnsafeCollections \in BOOLEAN

VARIABLES
  call,        \* the call each request makes; never changes
  pc, cur,     \* per thread: next step, and the job it works on
  pick,        \* per thread: the queue chosen by handleQueueFindSimilarities
  copy,        \* per thread: what a merge has read and will be copied back
  told,        \* per thread: the requests whose web hooks it has still to call
  job,         \* the JobRegistry objects in the job maps; row: the table has
               \* a row with the identifier of the object
  q, size,     \* per kind: the linked jobs of the LinkedList and its size field
  tasks,       \* per kind: searches given to the pool and not started
  isWorking, isAppReady,
  phase, esUp, reloads,  \* progress of populateData, ELASTICSEARCH state
  hooked,      \* per request: whether its web hook was called, or passed over
  published,   \* jobs whose actions were sent to Kafka
  left,        \* history: a search has ended and left isWorking set
  cut,         \* history: jobs whose search or answers an exception has ended
  late,        \* history: requests that joined when no answers were to come
  lost,        \* history: requests that a copy has removed from their job
  split        \* history: jobs inserted by a request that has joined them

ownVars    == <<copy, told>>
threadVars == <<pc, cur, pick, ownVars>>
queueVars  == <<q, size, tasks>>
flagVars   == <<isWorking, isAppReady>>
loadVars   == <<phase, esUp, reloads>>
outVars    == <<hooked, published>>
histVars   == <<left, cut, late, lost, split>>
restVars   == <<loadVars, outVars, histVars>>
vars == <<call, threadVars, job, queueVars, flagVars, restVars>>

Final        == {"COMPLETED", "FAIL"}
Resource(r)  == <<call[r].kind, call[r].target>>
Kind(t)      == call[cur[t]].kind
Members(j)   == job[j].members
Queued(j)    == \E i \in DOMAIN q[call[j].kind] : q[call[j].kind][i] = j

(* Thread t has a round of web hooks of its job still to begin.            *)
Running(t)    == pc[t] \in {"search", "store", "fail", "release"}
RoundAhead(t) == \/ Running(t) \/ pc[t] \in {"wake", "wakeStart", "notify", "notifyAgain"}
                 \/ pc[t] = "post" /\ Kind(t) = "class"
Answering(j)  == \E t \in Threads : cur[t] = j /\ RoundAhead(t)

Init ==
  /\ call \in Calls
  /\ pc = [t \in Threads |-> IF t \in Reqs THEN "new"
                             ELSE IF t \in Workers THEN "idle" ELSE "loading"]
  /\ cur = [t \in Threads |-> NoJob]
  /\ pick = [t \in Threads |-> "class"]
  /\ copy = [t \in Threads |-> {}]
  /\ told = [t \in Threads |-> {}]
  /\ job = [r \in Reqs |-> [members |-> {}, status |-> "NONE", runs |-> 0,
                            row |-> FALSE]]
  /\ q = [k \in Kinds |-> <<>>]
  /\ size = [k \in Kinds |-> 0]
  /\ tasks = [k \in Kinds |-> 0]
  /\ isWorking = FALSE
  /\ isAppReady = FALSE
  /\ phase = "boot"
  /\ esUp = FALSE
  /\ reloads = 0
  /\ hooked = [r \in Reqs |-> "no"]
  /\ published = {}
  /\ left = FALSE /\ cut = {} /\ late = {} /\ lost = {} /\ split = {}

-----------------------------------------------------------------------------
(* A request thread                                                        *)

(***************************************************************************)
(* What the controller lets through: an asynchronous request needs a valid *)
(* web hook or Kafka, and a search by instance an initialised application. *)
(***************************************************************************)
Admissible(c) ==
  /\ c.sync \/ c.kafka \/ c.hook = "url"
  /\ c.kind = "instance" => phase \notin {"boot", "cached", "failed"}

(* The jobs a new request may join: registered, same resource, not         *)
(* completed.  When there are several, request dates and searchLinks       *)
(* decide between them; any of them is taken here.                         *)
Joinable(r) ==
  {j \in Reqs : job[j].status = "PENDING" /\ Resource(j) = Resource(r)}

LookUp(r) ==
  /\ pc[r] = "new" /\ Admissible(call[r])
  /\ \E j \in IF Joinable(r) = {} THEN {r} ELSE Joinable(r) :
       cur' = [cur EXCEPT ![r] = j]
  /\ pc' = [pc EXCEPT ![r] = "register"]
  /\ UNCHANGED <<call, pick, ownVars, job, queueVars, flagVars, restVars>>

(* The iteration over the map meets an insertion of another thread and     *)
(* throws ConcurrentModificationException: the client gets an error.       *)
LookUpBreaks(r) ==
  /\ UnsafeCollections
  /\ pc[r] = "new" /\ Admissible(call[r])
  /\ \E s \in Reqs : pc[s] = "register" /\ Resource(s) = Resource(r)
  /\ pc' = [pc EXCEPT ![r] = "error"]
  /\ UNCHANGED <<call, cur, pick, ownVars, job, queueVars, flagVars, restVars>>

(* The database does not answer the look-up of earlier requests or of the  *)
(* date: the client gets an error, and the job is not in the map.          *)
LookUpFails(r) ==
  /\ pc[r] = "register"
  /\ pc' = [pc EXCEPT ![r] = "error"]
  /\ UNCHANGED <<call, cur, pick, ownVars, job, queueVars, flagVars, restVars>>

Joined(r) ==
  late' = IF job[cur[r]].status \in Final /\ ~Answering(cur[r])
          THEN late \cup {r} ELSE late

(* Mutant: a request that joins a job opens it again.                      *)
RegisterReopens(r) ==
  /\ pc[r] = "register"
  /\ job' = [job EXCEPT ![cur[r]].members = @ \cup {r}, ![cur[r]].status = "PENDING"]
  /\ Joined(r)
  /\ pc' = [pc EXCEPT ![r] = "save"]
  /\ UNCHANGED <<call, cur, pick, ownVars, queueVars, flagVars, loadVars, outVars,
                 left, cut, lost, split>>

(* The request is added to its job and the job to the map: also when the   *)
(* job has been searched and answered since the look-up.                   *)
Register(r) ==
  LET j == cur[r] IN
  /\ pc[r] = "register"
  /\ job' = [job EXCEPT ![j] =
       [members |-> @.members \cup {r},
        status  |-> IF j = r THEN "PENDING" ELSE @.status,
        runs    |-> @.runs,
        row     |-> @.row]]
  /\ Joined(r)
  /\ pc' = [pc EXCEPT ![r] = "save"]
  /\ UNCHANGED <<call, cur, pick, ownVars, queueVars, flagVars, loadVars, outVars,
                 left, cut, lost, split>>

(* A request for the LOD cloud catches no exception of the database, while *)
(* it saves the job and then the requests of the job: the job stays in the *)
(* map, and in no queue if it is new.                                      *)
SaveBreaks(r) ==
  /\ pc[r] \in {"save", "dispatch"} /\ call[r].kind = "lod" /\ copy[r] = {}
  /\ pc' = [pc EXCEPT ![r] = "error"]
  /\ UNCHANGED <<call, cur, pick, ownVars, job, queueVars, flagVars, restVars>>

(* Mutant: a request that joins a job queues it as well.                   *)
AddingAlways(s) == pc[s] = "dispatch" /\ ~call[s].sync

Adding(s) ==
  pc[s] = "dispatch" /\ ~call[s].sync /\ cur[s] = s

(* LinkedList.add: an add that overlaps another operation on the list may  *)
(* lose its element or its increment of the size.                          *)
Add(r, k) ==
  \/ /\ q' = [q EXCEPT ![k] = Append(@, cur[r])]
     /\ size' = [size EXCEPT ![k] = @ + 1]
  \/ /\ UnsafeCollections
     /\ tasks[k] > 0 \/ \E s \in Reqs \ {r} : Adding(s) /\ call[s].kind = k
     /\ q' \in {q, [q EXCEPT ![k] = Append(@, cur[r])]}
     /\ size' \in {size, [size EXCEPT ![k] = @ + 1]}

(* Mutant: the job is queued only when the application is ready.           *)
EnqueueWhenReady(r) ==
  /\ Adding(r)
  /\ IF isAppReady THEN Add(r, call[r].kind) ELSE UNCHANGED <<q, size>>
  /\ pc' = [pc EXCEPT ![r] = "handle"]
  /\ UNCHANGED <<call, cur, pick, ownVars, job, tasks, flagVars, restVars>>

(* Only the request that created the job queues it.                        *)
Enqueue(r) ==
  /\ Adding(r)
  /\ Add(r, call[r].kind)
  /\ pc' = [pc EXCEPT ![r] = "handle"]
  /\ UNCHANGED <<call, cur, pick, ownVars, job, tasks, flagVars, restVars>>

JoinQueued(r) ==
  /\ pc[r] = "dispatch" /\ ~call[r].sync /\ cur[r] # r
  /\ pc' = [pc EXCEPT ![r] = "handle"]
  /\ UNCHANGED <<call, cur, pick, ownVars, job, queueVars, flagVars, restVars>>

(* "Application is not ready, please retry late": the job stays in the map.*)
RefuseSync(r) ==
  /\ pc[r] = "dispatch" /\ call[r].sync /\ ~isAppReady
  /\ pc' = [pc EXCEPT ![r] = "refused"]
  /\ UNCHANGED <<call, cur, pick, ownVars, job, queueVars, flagVars, restVars>>

-----------------------------------------------------------------------------
(* A search: findSimilaritiesBy...(j) run by thread t                      *)

BeginSearch(j) ==
  /\ isWorking' = TRUE
  /\ job' = [job EXCEPT ![j].runs = @ + 1]

RunSync(r) ==
  /\ pc[r] = "dispatch" /\ call[r].sync /\ isAppReady
  /\ BeginSearch(cur[r])
  /\ pc' = [pc EXCEPT ![r] = "search"]
  /\ UNCHANGED <<call, cur, pick, ownVars, queueVars, isAppReady, restVars>>

(* Mutant: a search polls without having been submitted.                   *)
TakeUnasked(w, k) ==
  /\ pc[w] = "idle" /\ q[k] = <<>>
  /\ tasks' = [tasks EXCEPT ![k] = @ - 1]
  /\ isWorking' = TRUE /\ left' = TRUE
  /\ UNCHANGED <<call, threadVars, job, q, size, isAppReady, loadVars, outVars,
                 cut, late, lost, split>>

(* A pool thread starts a task, polls the queue and searches.  When the    *)
(* poll returns null the search sets isWorking and dies of a               *)
(* NullPointerException that the future swallows.                          *)
Take(w, k) ==
  /\ pc[w] = "idle" /\ tasks[k] > 0
  /\ tasks' = [tasks EXCEPT ![k] = @ - 1]
  /\ \/ /\ q[k] = <<>>
        /\ isWorking' = TRUE /\ left' = TRUE
        /\ UNCHANGED <<pc, cur, job, q, size>>
     \/ /\ q[k] # <<>>
        /\ BeginSearch(Head(q[k]))
        /\ cur' = [cur EXCEPT ![w] = Head(q[k])]
        /\ pc' = [pc EXCEPT ![w] = "search"]
        /\ q' = [q EXCEPT ![k] = Tail(@)]
        /\ size' = [size EXCEPT ![k] = @ - 1]
        /\ UNCHANGED left
  /\ UNCHANGED <<call, pick, ownVars, isAppReady, loadVars, outVars, cut, late, lost, split>>

(* Two polls that overlap: both see the same first node.  The second gets  *)
(* its element too, or the null that the first left there and dies; the    *)
(* nodes behind it may be cut off; one decrement of the size may be lost.  *)
TakeTogether(v, w, k) ==
  /\ UnsafeCollections
  /\ v # w /\ pc[v] = "idle" /\ pc[w] = "idle"
  /\ tasks[k] > 1 /\ q[k] # <<>>
  /\ tasks' = [tasks EXCEPT ![k] = @ - 2]
  /\ \E both \in BOOLEAN :
       LET j == Head(q[k])
           T == IF both THEN {v, w} ELSE {v}
       IN  /\ pc' = [t \in Threads |-> IF t \in T THEN "search" ELSE pc[t]]
           /\ cur' = [t \in Threads |-> IF t \in T THEN j ELSE cur[t]]
           /\ job' = [job EXCEPT ![j].runs = @ + (IF both THEN 2 ELSE 1)]
           /\ left' = (left \/ ~both)
  /\ q' \in {[q EXCEPT ![k] = Tail(@)], [q EXCEPT ![k] = <<>>]}
  /\ size' \in {[size EXCEPT ![k] = @ - d] : d \in {1, 2}}
  /\ isWorking' = TRUE
  /\ UNCHANGED <<call, pick, ownVars, isAppReady, loadVars, outVars, cut, late, lost, split>>

(* The search is over, or has thrown; the outcome is there for all before  *)
(* it is saved.                                                            *)
Finish(t) ==
  /\ pc[t] = "search"
  /\ \/ /\ job' = [job EXCEPT ![cur[t]].status = "COMPLETED"]
        /\ pc' = [pc EXCEPT ![t] = "store"]
     \/ /\ job' = [job EXCEPT ![cur[t]].status = "FAIL"]
        /\ pc' = [pc EXCEPT ![t] = "fail"]
  /\ UNCHANGED <<call, cur, pick, ownVars, queueVars, flagVars, restVars>>

EndSearch(t, next) ==
  /\ pc' = [pc EXCEPT ![t] = IF t \in Reqs THEN next ELSE "idle"]
  /\ cur' = [cur EXCEPT ![t] = IF t \in Reqs THEN @ ELSE NoJob]

(* An exception leaves the search: nothing resets isWorking, nobody looks  *)
(* at the queues, and nobody is answered.                                  *)
Dies(t) ==
  /\ EndSearch(t, "error")
  /\ left' = TRUE
  /\ cut' = cut \cup {cur[t]}

(* No transaction begins.  For a class the exception is caught.  A search  *)
(* by instance or in the LOD cloud fails by it, and has no other try when  *)
(* it saves that failure.                                                  *)
StoreThrows(t) ==
  /\ pc[t] = "store" /\ Kind(t) # "class" /\ copy[t] = {}
  /\ job' = [job EXCEPT ![cur[t]].status = "FAIL"]
  /\ pc' = [pc EXCEPT ![t] = "fail"]
  /\ UNCHANGED <<call, cur, pick, ownVars, queueVars, flagVars, restVars>>

FailThrows(t) ==
  /\ pc[t] = "fail" /\ Kind(t) # "class" /\ copy[t] = {}
  /\ Dies(t)
  /\ UNCHANGED <<call, pick, ownVars, job, queueVars, flagVars, loadVars, outVars,
                 late, lost, split>>

(* Mutants: the end of a search does not reset isWorking; it does not look *)
(* at the queues.                                                          *)
ReleaseKeeps(t) ==
  /\ pc[t] = "release"
  /\ pc' = [pc EXCEPT ![t] = "wake"]
  /\ UNCHANGED <<call, cur, pick, ownVars, job, queueVars, flagVars, restVars>>
ReleaseQuiet(t) ==
  /\ pc[t] = "release"
  /\ isWorking' = FALSE /\ left' = FALSE
  /\ pc' = [pc EXCEPT ![t] = "notify"]
  /\ UNCHANGED <<call, cur, pick, ownVars, job, queueVars, isAppReady, loadVars, outVars,
                 cut, late, lost, split>>

Release(t) ==
  /\ pc[t] = "release"
  /\ isWorking' = FALSE /\ left' = FALSE
  /\ pc' = [pc EXCEPT ![t] = "wake"]
  /\ UNCHANGED <<call, cur, pick, ownVars, job, queueVars, isAppReady, loadVars, outVars,
                 cut, late, lost, split>>

-----------------------------------------------------------------------------
(* persist: a request saves its job when it has joined it ("save"), a      *)
(* search when it is over ("store") or has thrown ("fail")                 *)

Saving(t)    == pc[t] \in {"save", "store", "fail"}
AfterSave(t) == pc' = [pc EXCEPT ![t] = IF @ = "save" THEN "dispatch" ELSE "release"]

(* The row exists and is updated, or persist swallows its exception.       *)
SaveDone(t) ==
  /\ Saving(t) /\ copy[t] = {}
  /\ AfterSave(t)
  /\ UNCHANGED <<call, cur, pick, ownVars, job, queueVars, flagVars, restVars>>

(* There is no row: the fields of the job are merged into a new one.       *)
Merge(t) ==
  LET j == cur[t] IN
  /\ Saving(t) /\ copy[t] = {} /\ ~job[j].row
  /\ copy' = [copy EXCEPT ![t] = {[members |-> job[j].members, status |-> job[j].status]}]
  /\ split' = IF t \in Workers \cup {j} THEN split ELSE split \cup {j}
  /\ UNCHANGED <<call, pc, cur, pick, told, job, queueVars, flagVars, loadVars, outVars,
                 left, cut, late, lost>>

(* jr.copy(jrAux): the fields of the new row replace those of the job,     *)
(* which others have changed meanwhile.  The insertion may still fail.     *)
(* The search by instance then saves its results, with no try around.      *)
CopyBack(t) ==
  LET j == cur[t] IN
  /\ \E c \in copy[t], row \in BOOLEAN :
       /\ job' = [job EXCEPT ![j] =
            [members |-> c.members, status |-> c.status, runs |-> @.runs, row |-> row]]
       /\ lost' = lost \cup (job[j].members \ c.members)
  /\ copy' = [copy EXCEPT ![t] = {}]
  /\ \/ AfterSave(t) /\ UNCHANGED <<cur, left, cut>>
     \/ pc[t] = "fail" /\ Kind(t) = "instance" /\ Dies(t)
  /\ UNCHANGED <<call, pick, told, queueVars, flagVars, loadVars, outVars, late, split>>

-----------------------------------------------------------------------------
(* handleQueueFindSimilarities, called at the end of a search ("wake"), at *)
(* the end of addJobRegistryFor... and by the loader ("handle")            *)

NonEmpty(k) == size[k] # 0     \* LinkedList.isEmpty reads the size field
Priority    == <<"class", "instance", "lod">>
QueueToServe ==
  LET i == CHOOSE n \in DOMAIN Priority :
             /\ NonEmpty(Priority[n])
             /\ \A m \in 1..(n - 1) : ~NonEmpty(Priority[m])
  IN  Priority[i]
CanStart == isAppReady /\ ~isWorking /\ \E k \in Kinds : NonEmpty(k)

AfterQueue(t) == IF pc[t] \in {"wake", "wakeStart"} THEN "notify" ELSE "done"

CheckQueue(t) ==
  /\ pc[t] \in {"wake", "handle"}
  /\ IF CanStart
       THEN /\ pick' = [pick EXCEPT ![t] = QueueToServe]
            /\ pc' = [pc EXCEPT ![t] = IF @ = "wake" THEN "wakeStart" ELSE "start"]
       ELSE /\ pc' = [pc EXCEPT ![t] = AfterQueue(t)]
            /\ UNCHANGED pick
  /\ UNCHANGED <<call, cur, ownVars, job, queueVars, flagVars, restVars>>

StartTask(t) ==
  /\ pc[t] \in {"wakeStart", "start"}
  /\ isWorking' = TRUE
  /\ tasks' = [tasks EXCEPT ![pick[t]] = @ + 1]
  /\ pc' = [pc EXCEPT ![t] = AfterQueue(t)]
  /\ UNCHANGED <<call, cur, pick, ownVars, job, q, size, isAppReady, restVars>>

-----------------------------------------------------------------------------
(* The answers: sendWebHooks, sendMail, propagueKafkaActions               *)

(* Mutant: only the web hook of the request that created the job.          *)
HookOfCreator(j) == {r \in Members(j) : call[r].hook # "none" /\ r = j}
WebHooks(j)      == {r \in Members(j) : call[r].hook # "none"}

(* sendWebHooks reads the web hooks once and then calls one after another. *)
BeginRound(t) ==
  /\ pc[t] \in {"notify", "notifyAgain"}
  /\ told' = [told EXCEPT ![t] = WebHooks(cur[t])]
  /\ pc' = [pc EXCEPT ![t] = IF @ = "notify" THEN "post" ELSE "postAgain"]
  /\ UNCHANGED <<call, cur, pick, copy, job, queueVars, flagVars, restVars>>

InRound(t) == pc[t] \in {"post", "postAgain"}

(* One POST, in no order; one that fails is only logged, one that is never *)
(* answered has no time limit.                                             *)
Post(t, r) ==
  /\ InRound(t) /\ r \in told[t] /\ call[r].hook = "url"
  /\ told' = [told EXCEPT ![t] = @ \ {r}]
  /\ hooked' = [hooked EXCEPT ![r] = "called"]
  /\ UNCHANGED <<call, pc, cur, pick, copy, job, queueVars, flagVars, loadVars, published, histVars>>

(* Mutant: only the wish of the request that created the job counts.       *)
PropagueIfCreatorAsks(j) ==
  published' = IF call[j].kind # "instance" /\ call[j].kafka
               THEN published \cup {j} ELSE published

(* A search by instance computes no actions, so it has nothing to send.    *)
PropagueKafkaActions(j) ==
  published' = IF call[j].kind # "instance" /\ \E r \in Members(j) : call[r].kafka
               THEN published \cup {j} ELSE published

(* After the first round of a class job comes a second one, and after the  *)
(* last round of a job its actions.                                        *)
EndRound(t) ==
  IF pc[t] = "post" /\ Kind(t) = "class"
  THEN /\ pc' = [pc EXCEPT ![t] = "notifyAgain"]
       /\ UNCHANGED <<cur, published>>
  ELSE EndSearch(t, "handle") /\ PropagueKafkaActions(cur[t])

RoundDone(t) ==
  /\ InRound(t) /\ told[t] = {}
  /\ EndRound(t)
  /\ UNCHANGED <<call, pick, ownVars, job, queueVars, flagVars, loadVars, hooked, histVars>>

(* A URL that the client does not accept throws and ends the round.  Only  *)
(* the LOD cloud and the second round of a class catch it; otherwise the   *)
(* search ends without the second round, mails and Kafka.                  *)
RoundBreaks(t) ==
  /\ InRound(t) /\ \E r \in told[t] : call[r].hook = "bad"
  /\ hooked' = [r \in Reqs |-> IF r \in told[t] /\ hooked[r] = "no"
                               THEN "skipped" ELSE hooked[r]]
  /\ told' = [told EXCEPT ![t] = {}]
  /\ \/ /\ pc[t] = "post" /\ Kind(t) # "lod"
        /\ EndSearch(t, "error")
        /\ cut' = cut \cup {cur[t]}
        /\ UNCHANGED published
     \/ /\ pc[t] = "postAgain" \/ Kind(t) = "lod"
        /\ EndRound(t)
        /\ UNCHANGED cut
  /\ UNCHANGED <<call, pick, copy, job, queueVars, flagVars, loadVars, left, late, lost, split>>

-----------------------------------------------------------------------------
(* The loader: the events ApplicationState sends while populateData runs   *)

(* The cached data was read: the first event, once.                        *)
CachedDataIsReady ==
  /\ pc[Loader] = "loading" /\ phase = "boot"
  /\ isAppReady' = TRUE
  /\ phase' = "cached"
  /\ UNCHANGED <<call, threadVars, job, queueVars, isWorking, esUp, reloads, outVars, histVars>>

(* The triple stores were read; the application is now INITIALIZED.        *)
RealDataIsReady ==
  /\ pc[Loader] = "loading" /\ phase = "cached"
  /\ isAppReady' = TRUE
  /\ phase' = "real"
  /\ UNCHANGED <<call, threadVars, job, queueVars, isWorking, esUp, reloads, outVars, histVars>>

(* Mutant: the event does not serve the queues.                            *)
ElasticSearchIsQuiet ==
  /\ pc[Loader] = "loading" /\ phase = "real"
  /\ isAppReady' = TRUE
  /\ phase' = "es"
  /\ esUp' = TRUE
  /\ pc' = [pc EXCEPT ![Loader] = "done"]
  /\ UNCHANGED <<call, cur, pick, ownVars, job, queueVars, isWorking, reloads, outVars, histVars>>

(* Elasticsearch was filled: the one event that serves the queues.         *)
ElasticSearchIsReady ==
  /\ pc[Loader] = "loading" /\ phase = "real"
  /\ isAppReady' = TRUE
  /\ phase' = "es"
  /\ esUp' = TRUE
  /\ pc' = [pc EXCEPT ![Loader] = "handle"]
  /\ UNCHANGED <<call, cur, pick, ownVars, job, queueVars, isWorking, reloads, outVars, histVars>>

(* An exception in updateCachedData or updateElasticData ends the load.    *)
LoadFails ==
  /\ pc[Loader] = "loading" /\ phase \in {"cached", "real"}
  /\ phase' = IF phase = "cached" THEN "failed" ELSE "stalled"
  /\ pc' = [pc EXCEPT ![Loader] = "done"]
  /\ UNCHANGED <<call, cur, pick, ownVars, job, queueVars, flagVars, esUp, reloads, outVars, histVars>>

(* /cache/force-reload, allowed once the application is INITIALIZED.       *)
Reload ==
  /\ pc[Loader] = "done" /\ phase \in {"es", "stalled"}
  /\ reloads < MaxReloads
  /\ reloads' = reloads + 1
  /\ phase' = "real"
  /\ pc' = [pc EXCEPT ![Loader] = "loading"]
  /\ UNCHANGED <<call, cur, pick, ownVars, job, queueVars, flagVars, esUp, outVars, histVars>>

-----------------------------------------------------------------------------
RequestStep(r) ==
  \/ LookUp(r) \/ LookUpBreaks(r) \/ LookUpFails(r) \/ Register(r) \/ SaveBreaks(r)
  \/ Enqueue(r) \/ JoinQueued(r) \/ RefuseSync(r) \/ RunSync(r)
TakeStep == \E w \in Workers, k \in Kinds :
  Take(w, k) \/ \E v \in Workers : TakeTogether(v, w, k)
SaveStep(t) == SaveDone(t) \/ Merge(t) \/ CopyBack(t)
SearchStep(t) == Finish(t) \/ StoreThrows(t) \/ FailThrows(t) \/ Release(t)
AnswerStep(t) ==
  BeginRound(t) \/ RoundDone(t) \/ RoundBreaks(t) \/ \E r \in Reqs : Post(t, r)
QueueStep(t) == CheckQueue(t) \/ StartTask(t)
LoadStep ==
  CachedDataIsReady \/ RealDataIsReady \/ ElasticSearchIsReady \/ LoadFails \/ Reload

Next ==
  \/ \E r \in Reqs : RequestStep(r)
  \/ TakeStep
  \/ \E t \in Reqs \cup Workers : SaveStep(t) \/ SearchStep(t) \/ AnswerStep(t)
  \/ \E t \in Threads : QueueStep(t)
  \/ LoadStep

Spec == Init /\ [][Next]_vars

(***************************************************************************)
(* Threads that have begun go on; a search by class or instance comes to   *)
(* an end (its HTTP calls return or throw), one in the LOD cloud may not;  *)
(* the database answers or throws.  A POST may never return, so a round of *)
(* answers may never end.  Clients need not call, and the load may fail or *)
(* never be repeated.                                                      *)
(***************************************************************************)
RequestGoesOn(r) ==
  Register(r) \/ Enqueue(r) \/ JoinQueued(r) \/ RefuseSync(r) \/ RunSync(r)
SearchGoesOn(t) ==
  \/ SaveDone(t) \/ CopyBack(t) \/ (Finish(t) /\ Kind(t) # "lod") \/ Release(t)
  \/ BeginRound(t) \/ RoundDone(t) \/ QueueStep(t)
Fairness ==
  /\ \A r \in Reqs : WF_vars(RequestGoesOn(r) \/ SearchGoesOn(r))
  /\ \A w \in Workers : WF_vars(SearchGoesOn(w))
  /\ WF_vars(QueueStep(Loader)) /\ WF_vars(TakeStep)
FairSpec == Spec /\ Fairness

-----------------------------------------------------------------------------
(* Properties                                                              *)

(* Every variable keeps its type.                                          *)
TypeOK ==
  /\ call \in Calls
  /\ pc \in [Threads -> PCs]
  /\ cur \in [Threads -> Reqs \cup {NoJob}]
  /\ pick \in [Threads -> Kinds]
  /\ copy \in [Threads -> SUBSET Copies] /\ told \in [Threads -> SUBSET Reqs]
  /\ job \in [Reqs -> [members : SUBSET Reqs, status : Statuses, runs : Nat,
                       row : BOOLEAN]]
  /\ q \in [Kinds -> Seq(Reqs)]
  /\ size \in [Kinds -> Int]
  /\ tasks \in [Kinds -> Nat]
  /\ isWorking \in BOOLEAN /\ isAppReady \in BOOLEAN
  /\ phase \in {"boot", "cached", "real", "es", "failed", "stalled"}
  /\ esUp \in BOOLEAN /\ reloads \in Nat
  /\ hooked \in [Reqs -> {"no", "called", "skipped"}]
  /\ published \in SUBSET Reqs
  /\ left \in BOOLEAN
  /\ {cut, late, lost, split} \subseteq SUBSET Reqs

(* No wake-up is lost: once the application is up, whenever a queue is not *)
(* empty and nothing is marked as working, some thread is still going to   *)
(* look at the queues.  Whatever the threads do, and with the collections  *)
(* unsynchronised.                                                         *)
WillLook(t)  == pc[t] \in {"wake", "wakeStart", "handle", "start"}
NoLostWakeup ==
  esUp /\ CanStart => \E t \in Threads : WillLook(t)

(* isWorking is left set by nothing but a poll that finds no job or a      *)
(* search that dies of its last save: in all other states in which it is   *)
(* set, a search runs that will reset it or a task waits for a thread.     *)
WorkingIsTrue ==
  isWorking => \/ left
               \/ \E t \in Threads : Running(t)
               \/ \E k \in Kinds : tasks[k] > 0

(* "Prevents two identical jobs from being processed multiple times": no   *)
(* job is searched twice.                                                  *)
ProcessedOnce == \A j \in Reqs : job[j].runs <= 1

(* An open job is on its way: its creator is about to queue it, it is in   *)
(* its queue, or it is being searched.  Otherwise the requests that join   *)
(* it wait for ever.  It is not when its creator was refused or could not  *)
(* save it, or when a request that joined it has inserted it too.          *)
Scheduled(j) ==
  \/ pc[j] \in {"save", "dispatch"} /\ cur[j] = j
  \/ Queued(j)
  \/ \E t \in Threads : cur[t] = j /\ pc[t] = "search"
OpenIsScheduled ==
  \A j \in Reqs \ split : job[j].status = "PENDING" =>
    Scheduled(j) \/ pc[j] \in {"refused", "error"}

(* A job that has an outcome never opens again, unless a request that      *)
(* joined it has inserted it, or its creator, overtaken by a synchronous   *)
(* search, is still saving it and will queue it.                           *)
NeverReopened ==
  [][\A j \in Reqs \ split : job[j].status \in Final /\ job'[j].status = "PENDING" =>
       pc[j] = "save" /\ cur[j] = j]_vars

(* There is never more than one open job for a resource.                   *)
OneOpenJob ==
  \A i, j \in Reqs :
    /\ job[i].status = "PENDING" /\ job[j].status = "PENDING"
    /\ Resource(i) = Resource(j)
    => i = j

(* When the search and the answers of a job are over, and were not ended   *)
(* by an exception, the web hook of each of its requests was called, or    *)
(* passed over because of a URL that is none: but for requests that joined *)
(* after the last answers had begun, or that a copy has removed.           *)
Answered(j) ==
  /\ job[j].status \in Final /\ j \notin cut
  /\ \A t \in Threads : cur[t] = j => ~RoundAhead(t) /\ ~InRound(t)
InTime(j) == Members(j) \ (late \cup lost)
EveryoneAnswered ==
  \A j \in Reqs : Answered(j) =>
    \A r \in InTime(j) : call[r].hook = "none" \/ hooked[r] # "no"

(* And the actions of the job went to Kafka when one of these requests had *)
(* asked for it, also when a web hook is no URL (an instance job has no    *)
(* actions).                                                               *)
KafkaAnswered ==
  \A j \in Reqs :
    /\ Answered(j) /\ call[j].kind # "instance"
    /\ \E r \in InTime(j) : call[r].kafka
    => j \in published

(* Once the application is up, every job in a queue is processed.          *)
Served == \A j \in Reqs : esUp /\ Queued(j) ~> job[j].status \in Final

(* And it is, unless isWorking is left set for ever by a search that ended *)
(* without resetting it, or every thread of the pool waits for ever for a  *)
(* web hook to answer.                                                     *)
ServedUnlessStopped ==
  \A j \in Reqs : esUp /\ Queued(j) ~>
    \/ job[j].status \in Final
    \/ [](left /\ isWorking)
    \/ [](\A w \in Workers : InRound(w))
=============================================================================

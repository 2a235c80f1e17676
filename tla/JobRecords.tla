----------------------------- MODULE JobRecords ------------------------------
(***************************************************************************)
(* The rows of job_registry and what they decide: the searches by class of *)
(* one class of one triple store, the saves of their jobs by the requests  *)
(* and by the search, each in an EntityManager of its own                  *)
(* (JobRegistryCustomRepositoryImp.persist), the date of the last          *)
(* completed search that a request with applyDelta reads from them, and    *)
(* the restart of the application.  A search that starts from that date    *)
(* only looks at the entities changed since.                               *)
(***************************************************************************)
EXTENDS Integers, FiniteSets

CONSTANTS
  Entities,   \* of the class
  Requests,
  Worker,     \* the task that searches; jobs are searched one at a time
  Jobs,       \* bound: jobs created
  MaxTime, MaxChanges, MaxRows, MaxRestarts   \* bounds

ASSUME JobRecordsAssumption ==
  /\ Worker \notin Requests
  /\ {MaxTime, MaxChanges, MaxRows, MaxRestarts} \subseteq Nat /\ MaxTime > 0

Threads == Requests \cup {Worker}
Ids     == 1 .. MaxRows
NoDate  == 0          \* null: before every date
NoId    == 0
Absent  == [date |-> NoDate, n |-> 0]

NoFields == [id |-> NoId, status |-> "PENDING", date |-> NoDate, delta |-> NoDate]
NoRow    == [status |-> "none", date |-> NoDate, version |-> 0]

VARIABLES
  now,          \* the time
  store, cache, \* the last change of each entity in the triple store, and the
                \* one the cache has: its date, and a number to tell changes
  rows,         \* the table, per identifier
  fields,       \* of the jobs in memory
  at, maker,    \* where a job is, and the request that has created it
  pc, on, asks, \* per thread: where it is, its job; what each request asks for
  copy, version,      \* per thread: the fields it saves, the version it found
  delta, objects, todo, seen,  \* the search: its date, the objects collected,
                \* those left, the changes it has looked at
  whole,        \* jobs whose search has looked at all entities
  lastId, restarts,   \* counters
  searched,     \* history: the changes that a completed search has looked at
  lastDone,     \* history: when the last completed search ended
  late,         \* history: entities that reached the cache during a search,
                \* or with a date older than the end of one
  split         \* history: jobs that a request has inserted after joining them

storeVars   == <<store, cache, late>>
jobVars     == <<fields, at, maker, whole>>
saveVars    == <<copy, version, lastId>>
searchVars  == <<delta, objects, todo, seen>>
doneVars    == <<searched, lastDone>>
vars == <<now, storeVars, rows, jobVars, pc, on, asks, saveVars, searchVars, doneVars,
          split, restarts>>

NoObjects == [e \in Entities |-> Absent]
Present   == {e \in Entities : cache[e] # Absent}

Init ==
  /\ now = 1
  /\ store = [e \in Entities |-> [date |-> 1, n |-> 0]]
  /\ \E there \in SUBSET Entities :
       cache = [e \in Entities |-> IF e \in there THEN store[e] ELSE Absent]
  /\ rows = [i \in Ids |-> NoRow]
  /\ fields = [j \in Jobs |-> NoFields] /\ at = [j \in Jobs |-> "none"]
  /\ maker = [j \in Jobs |-> Worker] /\ whole = {}
  /\ pc = [t \in Threads |-> IF t = Worker THEN "idle" ELSE "new"]
  /\ on = [t \in Threads |-> {}] /\ asks \in [Requests -> {"all", "delta"}]
  /\ copy = [t \in Threads |-> NoFields] /\ version = [t \in Threads |-> 0]
  /\ delta = NoDate /\ objects = NoObjects /\ todo = {} /\ seen = {}
  /\ lastId = 0 /\ restarts = 0
  /\ searched = {} /\ lastDone = NoDate /\ late = {} /\ split = {}

-----------------------------------------------------------------------------
(* The triple store and the cache                                          *)

Tick ==
  /\ now < MaxTime /\ now' = now + 1
  /\ UNCHANGED <<storeVars, rows, jobVars, pc, on, asks, saveVars, searchVars, doneVars,
                 split, restarts>>

(* The store dates a change with the time it is made.                      *)
Change(e) ==
  /\ store[e].n < MaxChanges
  /\ store' = [store EXCEPT ![e] = [date |-> now, n |-> @.n + 1]]
  /\ UNCHANGED <<now, cache, late, rows, jobVars, pc, on, asks, saveVars, searchVars,
                 doneVars, split, restarts>>

(* A load or a notice brings the entity as it is now, with that date.      *)
Fetch(e) ==
  /\ cache[e] # store[e]
  /\ cache' = [cache EXCEPT ![e] = store[e]]
  /\ late' = IF pc[Worker] = "search" \/ store[e].date < lastDone
             THEN late \cup {e} ELSE late \ {e}
  /\ UNCHANGED <<now, store, rows, jobVars, pc, on, asks, saveVars, searchVars, doneVars,
                 split, restarts>>

-----------------------------------------------------------------------------
(* Requests                                                                *)

(* Mutant: searches that failed or were aborted count as well.             *)
Ended == {i \in Ids : rows[i].date # NoDate}
Completed == {i \in Ids : rows[i].status = "COMPLETED"}
(* d is what the query for the date of the last completed search returns.  *)
LastDate(d) ==
  /\ \A i \in Completed : rows[i].date <= d
  /\ d = NoDate \/ \E i \in Completed : rows[i].date = d

(* Mutant: the date is read whatever the request asks for.                 *)
DateAlways(r, j, d) == LastDate(d)
(* The date that the job searches from, once the request is on it.         *)
DateFor(r, j, d) == IF asks[r] = "delta" THEN LastDate(d) ELSE d = fields[j].delta

Open == {j \in Jobs : at[j] # "none" /\ fields[j].status = "PENDING"}

(* A request joins a job that is not completed or creates one, which the   *)
(* others find before it is saved.  The date it reads replaces that of the *)
(* job, whatever the others have asked for.                                *)
Join(r, j) ==
  /\ pc[r] = "new"
  /\ IF Open # {} THEN j \in Open ELSE at[j] = "none"
  /\ \E d \in 0 .. MaxTime :
       /\ DateFor(r, j, d)
       /\ fields' = [fields EXCEPT ![j].delta = d]
  /\ at'    = [at EXCEPT ![j] = IF @ = "none" THEN "made" ELSE @]
  /\ maker' = [maker EXCEPT ![j] = IF at[j] = "none" THEN r ELSE @]
  /\ on' = [on EXCEPT ![r] = {j}] /\ pc' = [pc EXCEPT ![r] = "save"]
  /\ UNCHANGED <<now, storeVars, rows, whole, asks, saveVars, searchVars, doneVars, split,
                 restarts>>

-----------------------------------------------------------------------------
(* persist                                                                 *)

(* Mutant: the row that was found is copied back to the job as well.       *)
CopiedBackAlways(inserted) == "merged"
CopiedBack(inserted) == IF inserted THEN "merged" ELSE "flush"

(* The job without a row is merged as a new one; the row of another is     *)
(* found, with its version, and gets the fields the job has then.          *)
Read(t, j) ==
  LET stored == fields[j].id # NoId /\ rows[fields[j].id] # NoRow IN
  /\ pc[t] = "save" /\ on[t] = {j}
  /\ \/ /\ stored
        /\ copy' = [copy EXCEPT ![t] = fields[j]]
        /\ version' = [version EXCEPT ![t] = rows[fields[j].id].version]
        /\ UNCHANGED <<lastId, split>>
     \/ /\ ~stored /\ lastId < MaxRows
        /\ lastId' = lastId + 1
        /\ copy' = [copy EXCEPT ![t] = [fields[j] EXCEPT !.id = lastId + 1]]
        /\ version' = [version EXCEPT ![t] = 0]
        /\ split' = IF t \in {Worker, maker[j]} THEN split ELSE split \cup {j}
  /\ pc' = [pc EXCEPT ![t] = CopiedBack(~stored)]
  /\ UNCHANGED <<now, storeVars, rows, jobVars, on, asks, searchVars, doneVars, restarts>>

(* jr.copy(jrAux): the fields of the new row replace those of the job.     *)
CopyBack(t, j) ==
  /\ pc[t] = "merged" /\ on[t] = {j}
  /\ fields' = [fields EXCEPT ![j] = copy[t]]
  /\ pc' = [pc EXCEPT ![t] = "flush"]
  /\ UNCHANGED <<now, storeVars, rows, at, maker, whole, on, asks, saveVars, searchVars,
                 doneVars, split, restarts>>

(* The request that has created the job puts it in the queue; the search   *)
(* is over.                                                                *)
EndSave(t, j) ==
  /\ pc' = [pc EXCEPT ![t] = IF t = Worker THEN "idle" ELSE "done"]
  /\ at' = [at EXCEPT ![j] = IF t = Worker THEN "done" ELSE IF t = maker[j] THEN "queued" ELSE @]
  /\ copy' = [copy EXCEPT ![t] = NoFields] /\ version' = [version EXCEPT ![t] = 0]
  /\ UNCHANGED <<now, storeVars, fields, maker, whole, on, asks, lastId, searchVars,
                 doneVars, split, restarts>>

(* Mutant: the rows carry no version.                                      *)
AnyVersion(t) == TRUE
SameVersion(t) == rows[copy[t].id].version = version[t]

(* The transaction commits; it writes when there is something to write.    *)
Flush(t, j) ==
  LET i == copy[t].id IN
  /\ pc[t] = "flush" /\ on[t] = {j}
  /\ \/ /\ SameVersion(t)
        /\ rows' = [rows EXCEPT ![i] = [status |-> copy[t].status, date |-> copy[t].date,
                                        version |-> version[t] + 1]]
     \/ /\ rows[i].status = copy[t].status /\ rows[i].date = copy[t].date
        /\ UNCHANGED rows
  /\ EndSave(t, j)

(* The database fails or the row has another version: the exception is     *)
(* swallowed.                                                              *)
Lose(t, j) ==
  /\ pc[t] \in {"save", "flush"} /\ on[t] = {j}
  /\ UNCHANGED rows
  /\ EndSave(t, j)

-----------------------------------------------------------------------------
(* The search                                                              *)

(* Mutant: an entity changed when the last search ended is left out.       *)
ChangedAfter(e, d) == cache[e].date > d
ChangedSince(e, d) == cache[e].date >= d

EndSearch(j, status) ==
  /\ fields' = [fields EXCEPT ![j] = [id |-> @.id, status |-> status, date |-> now,
                                      delta |-> @.delta]]
  /\ pc' = [pc EXCEPT ![Worker] = "save"]
  /\ delta' = NoDate /\ objects' = NoObjects /\ todo' = {} /\ seen' = {}

(* findEntitiesLinksByNodeAndTripleStoreAndClass collects the entities; it *)
(* fails when there are none, unless the search starts from a date.        *)
Start(j) ==
  /\ pc[Worker] = "idle" /\ at[j] = "queued"
  /\ at' = [at EXCEPT ![j] = "taken"] /\ on' = [on EXCEPT ![Worker] = {j}]
  /\ \/ /\ Present = {} /\ fields[j].delta = NoDate
        /\ EndSearch(j, "FAIL") /\ UNCHANGED whole
     \/ /\ Present # {} \/ fields[j].delta # NoDate
        /\ delta' = fields[j].delta /\ objects' = cache /\ seen' = {}
        /\ todo' = {e \in Present : ChangedSince(e, fields[j].delta)}
        /\ whole' = IF todo' = Present THEN whole \cup {j} ELSE whole
        /\ pc' = [pc EXCEPT ![Worker] = "search"]
        /\ UNCHANGED fields
  /\ UNCHANGED <<now, storeVars, rows, maker, asks, saveVars, doneVars, split, restarts>>

(* A search of all entities goes through the map of the cache itself.      *)
LookAt(e) ==
  /\ pc[Worker] = "search" /\ e \in todo
  /\ seen' = seen \cup {<<e, IF delta = NoDate THEN cache[e] ELSE objects[e]>>}
  /\ todo' = todo \ {e}
  /\ UNCHANGED <<now, storeVars, rows, jobVars, pc, on, asks, saveVars, delta, objects,
                 doneVars, split, restarts>>

Finish(j) ==
  /\ pc[Worker] = "search" /\ on[Worker] = {j}
  /\ \/ /\ todo = {} /\ EndSearch(j, "COMPLETED")
        /\ searched' = searched \cup seen /\ lastDone' = now
     \/ EndSearch(j, "FAIL") /\ UNCHANGED doneVars
  /\ UNCHANGED <<now, storeVars, rows, at, maker, whole, on, asks, saveVars, split,
                 restarts>>

-----------------------------------------------------------------------------
(* Mutant: the rows are closed without a date.                             *)
ClosedUndated(row) == IF row.status = "PENDING" THEN [row EXCEPT !.status = "ABORTED"] ELSE row
(* closeOtherJobRegistryByAppId                                            *)
ClosedRow(row) ==
  IF row.status = "PENDING" THEN [row EXCEPT !.status = "ABORTED", !.date = now] ELSE row

(* Memory is lost and the new application closes the rows of the old one.  *)
Restart ==
  /\ restarts < MaxRestarts /\ restarts' = restarts + 1
  /\ rows' = [i \in Ids |-> ClosedRow(rows[i])]
  /\ fields' = [j \in Jobs |-> NoFields] /\ at' = [j \in Jobs |-> "none"]
  /\ maker' = [j \in Jobs |-> Worker] /\ whole' = {}
  /\ pc' = [t \in Threads |-> IF t = Worker THEN "idle" ELSE IF pc[t] = "new" THEN "new" ELSE "done"]
  /\ on' = [t \in Threads |-> {}] /\ split' = {}
  /\ copy' = [t \in Threads |-> NoFields] /\ version' = [t \in Threads |-> 0]
  /\ delta' = NoDate /\ objects' = NoObjects /\ todo' = {} /\ seen' = {}
  /\ UNCHANGED <<now, storeVars, asks, lastId, doneVars>>

Save(t, j) == Read(t, j) \/ CopyBack(t, j) \/ Flush(t, j) \/ Lose(t, j)

Next ==
  \/ Tick \/ Restart
  \/ \E e \in Entities : Change(e) \/ Fetch(e) \/ LookAt(e)
  \/ \E j \in Jobs : \/ Start(j) \/ Finish(j)
                     \/ \E r \in Requests : Join(r, j)
                     \/ \E t \in Threads : Save(t, j)

Spec == Init /\ [][Next]_vars

-----------------------------------------------------------------------------
(* Properties                                                              *)

Dates   == 1 .. MaxTime
Changes == [date : 0 .. MaxTime, n : 0 .. MaxChanges]
Statuses == {"PENDING", "COMPLETED", "FAIL", "ABORTED"}
Fields == [id : 0 .. MaxRows, status : Statuses, date : 0 .. MaxTime, delta : 0 .. MaxTime]
Rows == {NoRow} \cup [status : {"PENDING"}, date : {NoDate}, version : Nat]
                \cup [status : Statuses \ {"PENDING"}, date : Dates, version : Nat]

(* Every variable keeps its type; a row has a date when it is closed.      *)
TypeOK ==
  /\ now \in Dates /\ store \in [Entities -> Changes] /\ cache \in [Entities -> Changes]
  /\ rows \in [Ids -> Rows] /\ fields \in [Jobs -> Fields]
  /\ at \in [Jobs -> {"none", "made", "queued", "taken", "done"}]
  /\ maker \in [Jobs -> Threads] /\ whole \subseteq Jobs
  /\ pc \in [Threads -> {"new", "idle", "search", "save", "merged", "flush", "done"}]
  /\ on \in [Threads -> SUBSET Jobs] /\ asks \in [Requests -> {"all", "delta"}]
  /\ copy \in [Threads -> Fields] /\ version \in [Threads -> Nat]
  /\ delta \in 0 .. MaxTime /\ objects \in [Entities -> Changes]
  /\ todo \subseteq Entities /\ seen \subseteq Entities \X Changes
  /\ lastId \in 0 .. MaxRows /\ restarts \in 0 .. MaxRestarts
  /\ searched \subseteq Entities \X Changes /\ lastDone \in 0 .. MaxTime
  /\ late \subseteq Entities /\ split \subseteq Jobs

(* Whatever fails, gets lost or restarts, a change that no completed       *)
(* search has looked at is looked at by a search that starts from the date *)
(* of the last one: unless it reached the cache during a search, or with a *)
(* date older than the end of one.                                         *)
OnlyLateIsSkipped ==
  \A e \in Present \ late : <<e, cache[e]>> \notin searched =>
    \A i \in Completed : rows[i].date <= cache[e].date

(* The outcome that a row tells is never replaced, whichever saves of the  *)
(* job overlap.                                                            *)
RecordedIsFinal ==
  [][\A i \in Ids : rows[i].status \notin {"none", "PENDING"} =>
       rows'[i].status = rows[i].status /\ rows'[i].date = rows[i].date]_vars

(* A job that others can join is on its way to a search or in one, unless  *)
(* a request that joined it has inserted it too.                           *)
OpenWillRun ==
  \A j \in Open \ split : \/ at[j] \in {"made", "queued"}
                          \/ pc[Worker] = "search" /\ on[Worker] = {j}

(* A request that asks for all entities gets a search of all of them,      *)
(* unless it shares its job with one that does not.                        *)
AllUnlessShared ==
  \A r \in Requests, j \in Jobs :
    on[r] = {j} /\ asks[r] = "all" /\ fields[j].status = "COMPLETED" =>
      j \in whole \/ \E q \in Requests : on[q] = {j} /\ asks[q] = "delta"
=============================================================================

-------------------------- MODULE JobRecords_proofs --------------------------
(***************************************************************************)
(* Theorems about JobRecords, for all entities, requests and jobs and all  *)
(* bounds.  The invariant has four parts beside the types: what the dates  *)
(* are bounded by (DatesInv), whose wishes a job follows (SharedInv),      *)
(* where jobs and threads are (PlaceInv), and how rows, jobs and the       *)
(* copies that are being saved agree (RowsInv).                            *)
(***************************************************************************)
EXTENDS JobRecords, TLAPS

Saving(t) == pc[t] \in {"merged", "flush"}

(* A job or a copy of it has a date when it is closed.                     *)
Dated(f) == f.status = "PENDING" <=> f.date = NoDate
TypeInv ==
  /\ TypeOK
  /\ \A j \in Jobs : Dated(fields[j])
  /\ \A t \in Threads : Dated(copy[t])

(* Changes in the cache that a search from the last date has to look at.   *)
Fresh == {e \in Present \ late : <<e, cache[e]>> \notin searched}

(* Whatever completed, completed no later than lastDone; nothing fresh is  *)
(* older, and a search has it still to do or has seen it.                  *)
BoundedBy(f) == f.delta <= lastDone /\ (f.status = "COMPLETED" => f.date <= lastDone)
DatesInv ==
  /\ lastDone <= now
  /\ \A j \in Jobs : BoundedBy(fields[j])
  /\ \A t \in Threads : BoundedBy(copy[t])
  /\ \A i \in Completed : rows[i].date <= lastDone
  /\ \A e \in Fresh : lastDone <= cache[e].date
  /\ pc[Worker] = "search" =>
       /\ \A e \in Present \ late : objects[e] = cache[e]
       /\ \A e \in Fresh : e \in todo \/ <<e, cache[e]>> \in seen

(* Only a request for a search from a date gives a job one.                *)
Shared(j)  == \E q \in Requests : on[q] = {j} /\ asks[q] = "delta"
Covered(j) == j \in whole \/ Shared(j)
SharedInv ==
  /\ \A r \in Requests : pc[r] = "new" => on[r] = {}
  /\ \A j \in Jobs : fields[j].delta # NoDate => Shared(j)
  /\ \A j \in Jobs : fields[j].status = "COMPLETED" => Covered(j)
  /\ \A j \in Jobs : pc[Worker] = "search" /\ on[Worker] = {j} => Covered(j)
  /\ \A t \in Threads, j \in Jobs : Saving(t) /\ on[t] = {j} =>
       /\ copy[t].delta # NoDate => Shared(j)
       /\ copy[t].status = "COMPLETED" => Covered(j)

(* A job is pending until its search ends; afterwards only the copy of a   *)
(* request that has joined it can make it pending again.                   *)
Searching(j) == pc[Worker] = "search" /\ on[Worker] = {j}
Before(j)    == at[j] \in {"none", "made", "queued"} \/ Searching(j)
PlaceInv ==
  /\ \A t \in Threads, j \in Jobs : on[t] = {j} => at[j] # "none"
  /\ \A j \in Jobs : at[j] # "none" => maker[j] # Worker /\ pc[maker[j]] # "new"
  /\ \A r \in Requests, j \in Jobs :
       on[r] = {j} /\ (pc[r] = "save" \/ Saving(r)) /\ r = maker[j] => at[j] = "made"
  /\ \A r \in Requests, j \in Jobs :
       on[r] = {j} /\ pc[r] = "merged" /\ r # maker[j] => j \in split
  /\ \A j \in Jobs : at[j] = "taken" <=>
       on[Worker] = {j} /\ (pc[Worker] \in {"search", "save"} \/ Saving(Worker))
  /\ \A j \in Jobs : Before(j) =>
       /\ fields[j].status = "PENDING"
       /\ \A t \in Threads : on[t] = {j} /\ Saving(t) => copy[t].status = "PENDING"
  /\ \A j \in Jobs : ~Before(j) => fields[j].status # "PENDING" \/ j \in split
  /\ \A j \in Jobs : Saving(Worker) /\ on[Worker] = {j} =>
       copy[Worker].status # "PENDING" \/ j \in split

(* Identifiers are of one job and given once; a closed row says what its   *)
(* job and the copies that could still be written to it say.               *)
Closed(f) == f.status \notin {"none", "PENDING"}
Agree(f, g) == f.status = g.status /\ f.date = g.date
RowsInv ==
  /\ \A j \in Jobs : fields[j].id <= lastId
  /\ \A t \in Threads : Saving(t) => copy[t].id \in Ids /\ copy[t].id <= lastId
  /\ \A i \in Ids : i > lastId => rows[i] = NoRow
  /\ \A j, k \in Jobs : fields[j].id # NoId /\ fields[j].id = fields[k].id => j = k
  /\ \A t \in Threads, j \in Jobs :
       Saving(t) /\ copy[t].id = fields[j].id => on[t] = {j} /\ pc[t] = "flush"
  /\ \A t \in Threads : pc[t] = "merged" =>
       /\ rows[copy[t].id] = NoRow /\ version[t] = 0
       /\ \A q \in Threads \ {t} : Saving(q) => copy[q].id # copy[t].id
  /\ \A t \in Threads : pc[t] = "flush" => version[t] <= rows[copy[t].id].version
  /\ \A j \in Jobs : fields[j].id # NoId /\ Closed(rows[fields[j].id]) =>
       Agree(rows[fields[j].id], fields[j])
  /\ \A t \in Threads, j \in Jobs :
       pc[t] = "flush" /\ copy[t].id = fields[j].id /\ Closed(copy[t]) => Agree(fields[j], copy[t])
  /\ \A t \in Threads :
       pc[t] = "flush" /\ Closed(rows[copy[t].id]) /\ version[t] = rows[copy[t].id].version =>
         Agree(rows[copy[t].id], copy[t])

-----------------------------------------------------------------------------
(* Types                                                                   *)

LEMMA InitTyped == ASSUME Init PROVE TypeInv
<1> USE JobRecordsAssumption DEF Init, NoFields, NoRow, Absent, NoObjects, NoDate, NoId,
        Threads, Dates, Statuses, Fields, Rows, Changes, Dated, Ids
<1>1. /\ now \in Dates /\ store \in [Entities -> Changes] /\ cache \in [Entities -> Changes]
      /\ objects \in [Entities -> Changes] /\ delta \in 0 .. MaxTime
  OBVIOUS
<1>2. rows \in [Ids -> Rows] /\ fields \in [Jobs -> Fields] /\ copy \in [Threads -> Fields]
  OBVIOUS
<1>3. /\ at \in [Jobs -> {"none", "made", "queued", "taken", "done"}]
      /\ maker \in [Jobs -> Threads] /\ whole \subseteq Jobs
      /\ pc \in [Threads -> {"new", "idle", "search", "save", "merged", "flush", "done"}]
      /\ on \in [Threads -> SUBSET Jobs] /\ asks \in [Requests -> {"all", "delta"}]
      /\ version \in [Threads -> Nat]
  OBVIOUS
<1>4. /\ todo \subseteq Entities /\ seen \subseteq Entities \X Changes
      /\ lastId \in 0 .. MaxRows /\ restarts \in 0 .. MaxRestarts
      /\ searched \subseteq Entities \X Changes /\ lastDone \in 0 .. MaxTime
      /\ late \subseteq Entities /\ split \subseteq Jobs
  OBVIOUS
<1>5. (\A j \in Jobs : Dated(fields[j])) /\ (\A t \in Threads : Dated(copy[t]))
  OBVIOUS
<1> QED BY <1>1, <1>2, <1>3, <1>4, <1>5 DEF TypeInv, TypeOK

(* The end of a search gives the job an outcome and a date.                *)
LEMMA EndSearchTyped ==
  ASSUME TypeInv, NEW j \in Jobs, NEW s \in {"COMPLETED", "FAIL"}, EndSearch(j, s)
  PROVE  /\ fields' \in [Jobs -> Fields]
         /\ \A k \in Jobs : Dated(fields'[k])
         /\ pc' \in [Threads -> {"new", "idle", "search", "save", "merged", "flush", "done"}]
         /\ delta' \in 0 .. MaxTime /\ objects' \in [Entities -> Changes]
         /\ todo' \subseteq Entities /\ seen' \subseteq Entities \X Changes
<1>1. fields \in [Jobs -> Fields] /\ (\A k \in Jobs : Dated(fields[k])) /\ now \in Dates
  BY DEF TypeInv, TypeOK
<1>2. /\ fields' \in [Jobs -> Fields] /\ Dated(fields'[j])
  <2> DEFINE g == [id |-> fields[j].id, status |-> s, date |-> now, delta |-> fields[j].delta]
  <2>1. fields[j] \in Fields
    BY <1>1
  <2>2. fields' = [fields EXCEPT ![j] = g]
    BY DEF EndSearch
  <2>3. g \in Fields /\ Dated(g)
    BY <1>1, <2>1, JobRecordsAssumption DEF Fields, Statuses, Dates, Dated, NoDate
  <2> QED BY <1>1, <2>2, <2>3
<1>3. \A k \in Jobs \ {j} : fields'[k] = fields[k]
  BY <1>1 DEF EndSearch
<1>4. NoObjects \in [Entities -> Changes] /\ NoDate \in 0 .. MaxTime
  BY JobRecordsAssumption DEF NoObjects, Absent, Changes, NoDate
<1>5. pc' \in [Threads -> {"new", "idle", "search", "save", "merged", "flush", "done"}]
  BY DEF EndSearch, TypeInv, TypeOK
<1> QED BY <1>1, <1>2, <1>3, <1>4, <1>5 DEF EndSearch

(* The rows of a restart are closed and dated.                             *)
LEMMA ClosedTyped ==
  ASSUME TypeInv PROVE [i \in Ids |-> ClosedRow(rows[i])] \in [Ids -> Rows]
<1> SUFFICES ASSUME NEW i \in Ids PROVE ClosedRow(rows[i]) \in Rows
  OBVIOUS
<1>1. rows[i] \in Rows /\ now \in Dates
  BY DEF TypeInv, TypeOK
<1>2. CASE rows[i].status = "PENDING"
  <2>1. rows[i].version \in Nat
    BY <1>1, <1>2 DEF Rows, NoRow, Statuses
  <2>2. ClosedRow(rows[i]) = [status |-> "ABORTED", date |-> now, version |-> rows[i].version]
    BY <1>1, <1>2 DEF Rows, NoRow, Statuses, ClosedRow
  <2> QED BY <1>1, <2>1, <2>2 DEF Rows, Statuses
<1> QED BY <1>1, <1>2 DEF ClosedRow

(* What a transaction writes in a row.                                     *)
LEMMA FlushTyped ==
  ASSUME TypeInv, NEW t \in Threads, NEW j \in Jobs, Flush(t, j)
  PROVE  rows' \in [Ids -> Rows]
<1> DEFINE r == [status |-> copy[t].status, date |-> copy[t].date, version |-> version[t] + 1]
<1>1. copy[t] \in Fields /\ Dated(copy[t]) /\ version[t] \in Nat /\ rows \in [Ids -> Rows]
  BY DEF TypeInv, TypeOK
<1>2. r \in Rows
  BY <1>1, JobRecordsAssumption DEF Fields, Dated, Rows, Statuses, Dates, NoDate
<1>3. rows' = rows \/ rows' = [rows EXCEPT ![copy[t].id] = r]
  BY DEF Flush
<1> QED BY <1>1, <1>2, <1>3

LEMMA EndSaveTyped ==
  ASSUME TypeInv, NEW t \in Threads, NEW j \in Jobs, EndSave(t, j), rows' \in [Ids -> Rows]
  PROVE  TypeInv'
<1> USE DEF TypeInv, TypeOK, EndSave, storeVars, searchVars, doneVars
<1>1. NoFields \in Fields /\ Dated(NoFields)
  BY JobRecordsAssumption DEF NoFields, Fields, Statuses, NoId, NoDate, Dated
<1>2. copy' \in [Threads -> Fields] /\ \A q \in Threads : Dated(copy'[q])
  BY <1>1
<1>3. /\ pc' \in [Threads -> {"new", "idle", "search", "save", "merged", "flush", "done"}]
      /\ at' \in [Jobs -> {"none", "made", "queued", "taken", "done"}]
      /\ version' \in [Threads -> Nat]
  OBVIOUS
<1> QED BY <1>2, <1>3 DEF Dated

LEMMA NextTyped == ASSUME TypeInv, [Next]_vars PROVE TypeInv'
<1> USE DEF storeVars, jobVars, saveVars, searchVars, doneVars
<1>1. CASE Tick
  BY <1>1, JobRecordsAssumption DEF Tick, TypeInv, TypeOK, Dates, Dated
<1>2. ASSUME NEW e \in Entities, Change(e) PROVE TypeInv'
  BY <1>2, JobRecordsAssumption DEF Change, TypeInv, TypeOK, Dates, Changes, Dated
<1>3. ASSUME NEW e \in Entities, Fetch(e) PROVE TypeInv'
  BY <1>3 DEF Fetch, TypeInv, TypeOK, Dated
<1>4. ASSUME NEW e \in Entities, LookAt(e) PROVE TypeInv'
  BY <1>4 DEF LookAt, TypeInv, TypeOK, Dated
<1>5. ASSUME NEW r \in Requests, NEW j \in Jobs, Join(r, j) PROVE TypeInv'
  <2>1. PICK d \in 0 .. MaxTime : fields' = [fields EXCEPT ![j].delta = d]
    BY <1>5 DEF Join
  <2>2. fields' \in [Jobs -> Fields] /\ \A k \in Jobs : Dated(fields'[k])
    BY <2>1 DEF TypeInv, TypeOK, Fields, Dated
  <2> QED BY <1>5, <2>2 DEF Join, TypeInv, TypeOK, Threads, Dated
<1>6. ASSUME NEW t \in Threads, NEW j \in Jobs, Read(t, j) PROVE TypeInv'
  <2>1. copy' \in [Threads -> Fields] /\ lastId' \in 0 .. MaxRows
    <3>1. CASE copy' = [copy EXCEPT ![t] = fields[j]] /\ lastId' = lastId
      BY <3>1 DEF TypeInv, TypeOK
    <3>2. CASE /\ lastId < MaxRows /\ lastId' = lastId + 1
               /\ copy' = [copy EXCEPT ![t] = [fields[j] EXCEPT !.id = lastId + 1]]
      <4>1. lastId' \in 0 .. MaxRows
        BY <3>2, JobRecordsAssumption DEF TypeInv, TypeOK
      <4>2. [fields[j] EXCEPT !.id = lastId + 1] \in Fields
        <5>1. fields[j] \in Fields
          BY DEF TypeInv, TypeOK
        <5>2. \A n \in 0 .. MaxRows : [fields[j] EXCEPT !.id = n] \in Fields
          BY <5>1 DEF Fields
        <5> QED BY <3>2, <4>1, <5>2
      <4> QED BY <3>2, <4>1, <4>2 DEF TypeInv, TypeOK
    <3> QED BY <1>6, <3>1, <3>2 DEF Read
  <2>2. \A q \in Threads : Dated(copy'[q])
    BY <1>6 DEF Read, TypeInv, TypeOK, Fields, Dated
  <2>3. version' \in [Threads -> Nat]
    <3>1. CASE UNCHANGED <<lastId, split>> /\ fields[j].id # NoId
               /\ version' = [version EXCEPT ![t] = rows[fields[j].id].version]
      <4>1. fields[j].id \in Ids
        BY <3>1 DEF TypeInv, TypeOK, Fields, Ids, NoId
      <4>2. rows[fields[j].id] \in Rows
        BY <4>1 DEF TypeInv, TypeOK
      <4>3. rows[fields[j].id].version \in Nat
        BY <4>2 DEF Rows, NoRow
      <4> QED BY <3>1, <4>3 DEF TypeInv, TypeOK
    <3>2. CASE version' = [version EXCEPT ![t] = 0]
      BY <3>2 DEF TypeInv, TypeOK
    <3> QED BY <1>6, <3>1, <3>2 DEF Read
  <2> QED BY <1>6, <2>1, <2>2, <2>3 DEF Read, TypeInv, TypeOK, CopiedBack, Dated
<1>7. ASSUME NEW t \in Threads, NEW j \in Jobs, CopyBack(t, j) PROVE TypeInv'
  BY <1>7 DEF CopyBack, TypeInv, TypeOK, Dated
<1>8. ASSUME NEW t \in Threads, NEW j \in Jobs, Flush(t, j) PROVE TypeInv'
  BY <1>8, FlushTyped, EndSaveTyped DEF Flush
<1>9. ASSUME NEW t \in Threads, NEW j \in Jobs, Lose(t, j) PROVE TypeInv'
  BY <1>9, EndSaveTyped DEF Lose, TypeInv, TypeOK
<1>10. ASSUME NEW j \in Jobs, Start(j) PROVE TypeInv'
  <2>1. /\ fields' \in [Jobs -> Fields] /\ \A k \in Jobs : Dated(fields'[k])
        /\ pc' \in [Threads -> {"new", "idle", "search", "save", "merged", "flush", "done"}]
        /\ delta' \in 0 .. MaxTime /\ objects' \in [Entities -> Changes]
        /\ todo' \subseteq Entities /\ seen' \subseteq Entities \X Changes
        /\ whole' \subseteq Jobs
    <3>1. CASE EndSearch(j, "FAIL") /\ UNCHANGED whole
      BY <3>1, EndSearchTyped DEF TypeInv, TypeOK
    <3>2. CASE /\ UNCHANGED fields /\ delta' = fields[j].delta /\ objects' = cache
               /\ seen' = {} /\ pc' = [pc EXCEPT ![Worker] = "search"]
               /\ todo' = {e \in Present : ChangedSince(e, fields[j].delta)}
               /\ whole' = IF todo' = Present THEN whole \cup {j} ELSE whole
      <4>1. fields[j].delta \in 0 .. MaxTime
        BY DEF TypeInv, TypeOK, Fields
      <4>2. todo' \subseteq Entities /\ whole' \subseteq Jobs
        BY <3>2 DEF TypeInv, TypeOK, Present
      <4> QED BY <3>2, <4>1, <4>2 DEF TypeInv, TypeOK
    <3> QED BY <1>10, <3>1, <3>2 DEF Start
  <2> QED BY <1>10, <2>1 DEF Start, TypeInv, TypeOK, Threads, Dated
<1>11. ASSUME NEW j \in Jobs, Finish(j) PROVE TypeInv'
  <2>1. PICK s \in {"COMPLETED", "FAIL"} : EndSearch(j, s)
    BY <1>11 DEF Finish
  <2>2. searched' \subseteq Entities \X Changes /\ lastDone' \in 0 .. MaxTime
    BY <1>11 DEF Finish, TypeInv, TypeOK, Dates
  <2> QED BY <1>11, <2>1, <2>2, EndSearchTyped DEF Finish, TypeInv, TypeOK, Dated
<1>12. CASE Restart
  <2>1. /\ NoFields \in Fields /\ Dated(NoFields) /\ NoObjects \in [Entities -> Changes]
        /\ NoDate \in 0 .. MaxTime
    BY JobRecordsAssumption DEF NoFields, Fields, Statuses, NoId, NoDate, Dated, NoObjects, Absent,
       Changes
  <2>2. rows' \in [Ids -> Rows]
    BY <1>12, ClosedTyped DEF Restart
  <2>3. restarts' \in 0 .. MaxRestarts
    BY <1>12, JobRecordsAssumption DEF Restart, TypeInv, TypeOK
  <2>4. /\ pc' \in [Threads -> {"new", "idle", "search", "save", "merged", "flush", "done"}]
        /\ maker' \in [Jobs -> Threads]
    BY <1>12 DEF Restart, TypeInv, TypeOK, Threads
  <2>5. /\ fields' \in [Jobs -> Fields] /\ \A k \in Jobs : Dated(fields'[k])
        /\ copy' \in [Threads -> Fields] /\ \A q \in Threads : Dated(copy'[q])
        /\ at' \in [Jobs -> {"none", "made", "queued", "taken", "done"}]
        /\ version' \in [Threads -> Nat] /\ on' \in [Threads -> SUBSET Jobs]
    BY <1>12, <2>1 DEF Restart
  <2> QED BY <1>12, <2>1, <2>2, <2>3, <2>4, <2>5 DEF Restart, TypeInv, TypeOK
<1>13. CASE UNCHANGED vars
  BY <1>13 DEF vars, TypeInv, TypeOK, Dated
<1> QED BY <1>1, <1>2, <1>3, <1>4, <1>5, <1>6, <1>7, <1>8, <1>9, <1>10, <1>11, <1>12, <1>13
      DEF Next, Save

(* The numbers among the types.                                            *)
LEMMA Numbers ==
  ASSUME TypeInv
  PROVE  /\ now \in Nat /\ lastDone \in Nat /\ lastDone <= MaxTime /\ lastId \in Nat
         /\ \A j \in Jobs : /\ fields[j] \in Fields /\ fields[j].delta \in Nat
                             /\ fields[j].date \in Nat /\ fields[j].id \in Nat
         /\ \A t \in Threads : /\ copy[t] \in Fields /\ copy[t].delta \in Nat
                                /\ copy[t].date \in Nat /\ copy[t].id \in Nat
                                /\ version[t] \in Nat
         /\ \A e \in Entities : cache[e].date \in Nat /\ store[e].date \in Nat
         /\ \A i \in Ids : rows[i].date \in Nat /\ rows[i].version \in Nat
<1>1. \A i \in Ids : rows[i].date \in Nat /\ rows[i].version \in Nat
  <2> TAKE i \in Ids
  <2>1. rows[i] \in Rows
    BY DEF TypeInv, TypeOK
  <2> QED BY <2>1, JobRecordsAssumption DEF Rows, NoRow, Dates, NoDate
<1>2. /\ \A j \in Jobs : /\ fields[j] \in Fields /\ fields[j].delta \in Nat
                          /\ fields[j].date \in Nat /\ fields[j].id \in Nat
      /\ \A t \in Threads : /\ copy[t] \in Fields /\ copy[t].delta \in Nat
                             /\ copy[t].date \in Nat /\ copy[t].id \in Nat
  BY JobRecordsAssumption DEF TypeInv, TypeOK, Fields
<1>3. \A e \in Entities : cache[e].date \in Nat /\ store[e].date \in Nat
  BY JobRecordsAssumption DEF TypeInv, TypeOK, Changes
<1> QED BY <1>1, <1>2, <1>3, JobRecordsAssumption DEF TypeInv, TypeOK, Dates

(* What a thread takes from its job to save it.                            *)
LEMMA ReadCopies ==
  ASSUME TypeInv, NEW t \in Threads, NEW j \in Jobs, Read(t, j)
  PROVE  /\ pc[t] = "save" /\ on[t] = {j}
         /\ copy'[t].status = fields[j].status /\ copy'[t].date = fields[j].date
         /\ copy'[t].delta = fields[j].delta
         /\ \A q \in Threads \ {t} :
              copy'[q] = copy[q] /\ version'[q] = version[q] /\ pc'[q] = pc[q]
         /\ \/ /\ copy'[t].id = fields[j].id /\ fields[j].id # NoId
               /\ rows[fields[j].id] # NoRow
               /\ version'[t] = rows[fields[j].id].version
               /\ pc'[t] = "flush" /\ lastId' = lastId /\ split' = split
            \/ /\ copy'[t].id = lastId' /\ lastId < MaxRows /\ lastId' = lastId + 1
               /\ version'[t] = 0 /\ pc'[t] = "merged"
               /\ split' = IF t \in {Worker, maker[j]} THEN split ELSE split \cup {j}
<1>1. fields[j] \in Fields /\ copy \in [Threads -> Fields] /\ version \in [Threads -> Nat]
      /\ pc \in [Threads -> {"new", "idle", "search", "save", "merged", "flush", "done"}]
  BY DEF TypeInv, TypeOK
<1>2. CASE /\ fields[j].id # NoId /\ rows[fields[j].id] # NoRow
           /\ copy' = [copy EXCEPT ![t] = fields[j]]
           /\ version' = [version EXCEPT ![t] = rows[fields[j].id].version]
           /\ UNCHANGED <<lastId, split>>
  BY <1>1, <1>2 DEF Read, CopiedBack
<1>3. CASE /\ ~(fields[j].id # NoId /\ rows[fields[j].id] # NoRow)
           /\ lastId < MaxRows /\ lastId' = lastId + 1
           /\ copy' = [copy EXCEPT ![t] = [fields[j] EXCEPT !.id = lastId + 1]]
           /\ version' = [version EXCEPT ![t] = 0]
           /\ split' = IF t \in {Worker, maker[j]} THEN split ELSE split \cup {j}
  <2>1. copy'[t] = [fields[j] EXCEPT !.id = lastId + 1]
    BY <1>1, <1>3
  <2>2. /\ copy'[t].status = fields[j].status /\ copy'[t].date = fields[j].date
        /\ copy'[t].delta = fields[j].delta /\ copy'[t].id = lastId + 1
    BY <1>1, <2>1 DEF Fields
  <2> QED BY <1>1, <1>3, <2>2 DEF Read, CopiedBack
<1> QED BY <1>2, <1>3 DEF Read

-----------------------------------------------------------------------------
(* Dates                                                                   *)

LEMMA InitDates == ASSUME Init PROVE DatesInv
BY DEF Init, DatesInv, BoundedBy, Completed, NoFields, NoRow, NoDate, Threads, Fresh, Present, Absent

(* A step that leaves the search, the cache and the history alone.         *)
LEMMA DatesKept ==
  ASSUME TypeInv, DatesInv, UNCHANGED <<now, cache, late, doneVars>>,
         \A j \in Jobs : BoundedBy(fields'[j]),
         \A t \in Threads : BoundedBy(copy'[t]),
         \A i \in Completed' : rows'[i].date <= lastDone,
         pc'[Worker] = "search" =>
           pc[Worker] = "search" /\ UNCHANGED <<objects, todo, seen>>
  PROVE  DatesInv'
BY DEF DatesInv, BoundedBy, doneVars, Fresh, Present, Completed

LEMMA NextDates == ASSUME TypeInv, DatesInv, [Next]_vars PROVE DatesInv'
<1> USE DEF storeVars, jobVars, saveVars, searchVars, doneVars
<1>1. CASE Tick
  BY <1>1, Numbers DEF Tick, DatesInv, BoundedBy, Fresh, Present, Completed
<1>2. ASSUME NEW e \in Entities, Change(e) PROVE DatesInv'
  BY <1>2 DEF Change, DatesInv, BoundedBy, Fresh, Present, Completed
<1>3. ASSUME NEW e \in Entities, Fetch(e) PROVE DatesInv'
  <2>1. cache' = [cache EXCEPT ![e] = store[e]] /\ cache \in [Entities -> Changes]
    BY <1>3 DEF Fetch, TypeInv, TypeOK
  <2>2. /\ UNCHANGED <<now, rows, fields, copy, searched, lastDone, pc, objects, todo, seen>>
        /\ late' = IF pc[Worker] = "search" \/ store[e].date < lastDone
                   THEN late \cup {e} ELSE late \ {e}
    BY <1>3 DEF Fetch
  <2>3. \A x \in (Present \ late)' : x # e => x \in Present \ late /\ cache'[x] = cache[x]
    BY <2>1, <2>2 DEF Present
  <2>4. e \in (Present \ late)' => pc[Worker] # "search" /\ lastDone <= cache'[e].date
    BY <2>1, <2>2, Numbers DEF Present
  <2>5. \A x \in Fresh' : lastDone' <= cache'[x].date
    BY <2>2, <2>3, <2>4 DEF Fresh, DatesInv
  <2>6. pc'[Worker] = "search" =>
         /\ \A x \in (Present \ late)' : objects'[x] = cache'[x]
         /\ \A x \in Fresh' : x \in todo' \/ <<x, cache'[x]>> \in seen'
    BY <2>2, <2>3, <2>4 DEF Fresh, DatesInv
  <2> QED BY <2>2, <2>5, <2>6 DEF DatesInv, BoundedBy, Completed
<1>4. ASSUME NEW e \in Entities, LookAt(e) PROVE DatesInv'
  <2>1. /\ UNCHANGED <<now, rows, fields, copy, searched, lastDone, pc, objects, cache, late>>
        /\ pc[Worker] = "search" /\ todo' = todo \ {e}
        /\ seen' = seen \cup {<<e, IF delta = NoDate THEN cache[e] ELSE objects[e]>>}
    BY <1>4 DEF LookAt
  <2>2. \A x \in Fresh : x \in todo' \/ <<x, cache[x]>> \in seen'
    BY <2>1 DEF DatesInv, Fresh
  <2> QED BY <2>1, <2>2 DEF DatesInv, BoundedBy, Completed, Fresh, Present
<1>5. ASSUME NEW r \in Requests, NEW j \in Jobs, Join(r, j) PROVE DatesInv'
  <2>1. PICK d \in 0 .. MaxTime :
          DateFor(r, j, d) /\ fields' = [fields EXCEPT ![j].delta = d]
    BY <1>5 DEF Join
  <2>2. d <= lastDone
    BY <2>1, Numbers DEF DateFor, LastDate, NoDate, DatesInv, BoundedBy
  <2>3. \A k \in Jobs : BoundedBy(fields'[k])
    BY <2>1, <2>2, Numbers DEF DatesInv, BoundedBy, Fields
  <2>4. pc'[Worker] = "search" => pc[Worker] = "search"
    BY <1>5 DEF Join, TypeInv, TypeOK, Threads
  <2> QED BY <1>5, <2>3, <2>4, DatesKept DEF Join, DatesInv, Completed
<1>6. ASSUME NEW t \in Threads, NEW j \in Jobs, Read(t, j) PROVE DatesInv'
  <2>1. \A q \in Threads : BoundedBy(copy'[q])
    BY <1>6, ReadCopies DEF DatesInv, BoundedBy
  <2>2. pc'[Worker] = "search" => pc[Worker] = "search"
    BY <1>6 DEF Read, CopiedBack, TypeInv, TypeOK
  <2> QED BY <1>6, <2>1, <2>2, DatesKept DEF Read, DatesInv, Completed
<1>7. ASSUME NEW t \in Threads, NEW j \in Jobs, CopyBack(t, j) PROVE DatesInv'
  <2>1. \A k \in Jobs : BoundedBy(fields'[k])
    BY <1>7 DEF CopyBack, DatesInv, BoundedBy, TypeInv, TypeOK
  <2>2. pc'[Worker] = "search" => pc[Worker] = "search"
    BY <1>7 DEF CopyBack, TypeInv, TypeOK
  <2> QED BY <1>7, <2>1, <2>2, DatesKept DEF CopyBack, DatesInv, Completed
<1>8. ASSUME NEW t \in Threads, NEW j \in Jobs, EndSave(t, j),
             \A i \in Completed' : rows'[i].date <= lastDone
      PROVE  DatesInv'
  <2>1. \A q \in Threads : BoundedBy(copy'[q])
    BY <1>8, Numbers DEF EndSave, DatesInv, BoundedBy, TypeInv, TypeOK, NoFields, NoDate
  <2>2. pc'[Worker] = "search" => pc[Worker] = "search"
    BY <1>8 DEF EndSave, TypeInv, TypeOK
  <2> QED BY <1>8, <2>1, <2>2, DatesKept DEF EndSave, DatesInv
<1>9. ASSUME NEW t \in Threads, NEW j \in Jobs, Flush(t, j) PROVE DatesInv'
  <2>1. \A i \in Completed' : rows'[i].date <= lastDone
    BY <1>9 DEF Flush, DatesInv, BoundedBy, Completed, TypeInv, TypeOK
  <2> QED BY <1>8, <1>9, <2>1 DEF Flush
<1>10. ASSUME NEW t \in Threads, NEW j \in Jobs, Lose(t, j) PROVE DatesInv'
  BY <1>8, <1>10 DEF Lose, DatesInv, Completed
<1>11. ASSUME NEW j \in Jobs, Start(j) PROVE DatesInv'
  <2>1. CASE EndSearch(j, "FAIL")
    <3>1. \A k \in Jobs : BoundedBy(fields'[k])
      BY <2>1 DEF EndSearch, DatesInv, BoundedBy, TypeInv, TypeOK
    <3>2. pc'[Worker] # "search"
      BY <2>1 DEF EndSearch, TypeInv, TypeOK, Threads
    <3> QED BY <1>11, <3>1, <3>2, DatesKept DEF Start, DatesInv, Completed
  <2>2. CASE /\ UNCHANGED fields /\ objects' = cache /\ seen' = {}
             /\ todo' = {e \in Present : ChangedSince(e, fields[j].delta)}
    <3>1. \A e \in Fresh : e \in todo'
      BY <2>2, Numbers DEF DatesInv, BoundedBy, Fresh, Present, ChangedSince
    <3> QED BY <1>11, <2>2, <3>1 DEF Start, DatesInv, BoundedBy, Completed, Fresh, Present
  <2> QED BY <1>11, <2>1, <2>2 DEF Start
<1>12. ASSUME NEW j \in Jobs, Finish(j) PROVE DatesInv'
  <2>1. UNCHANGED <<now, rows, copy, cache, late>> /\ pc'[Worker] # "search"
    BY <1>12 DEF Finish, EndSearch, TypeInv, TypeOK, Threads
  <2>2. CASE todo = {} /\ EndSearch(j, "COMPLETED") /\ searched' = searched \cup seen /\ lastDone' = now
    <3>1. \A k \in Jobs : BoundedBy(fields[k])'
      BY <2>1, <2>2, Numbers DEF EndSearch, DatesInv, BoundedBy, TypeInv, TypeOK
    <3>2. Fresh' = {}
      BY <1>12, <2>1, <2>2 DEF Finish, DatesInv, Fresh, Present
    <3>3. \A t \in Threads : BoundedBy(copy[t])'
      BY <2>1, <2>2, Numbers DEF DatesInv, BoundedBy
    <3>4. \A i \in Completed' : rows'[i].date <= lastDone'
      BY <2>1, <2>2, Numbers DEF DatesInv, Completed
    <3>5. lastDone' <= now'
      BY <2>1, <2>2, Numbers
    <3> QED BY <2>1, <3>1, <3>2, <3>3, <3>4, <3>5 DEF DatesInv
  <2>3. CASE EndSearch(j, "FAIL") /\ UNCHANGED doneVars
    <3>1. \A k \in Jobs : BoundedBy(fields'[k])
      BY <2>3 DEF EndSearch, DatesInv, BoundedBy, TypeInv, TypeOK
    <3> QED BY <2>1, <2>3, <3>1, DatesKept DEF DatesInv, Completed
  <2> QED BY <1>12, <2>2, <2>3 DEF Finish
<1>13. CASE Restart
  <2>1. \A j \in Jobs : BoundedBy(fields'[j])
    BY <1>13, Numbers DEF Restart, BoundedBy, NoFields, NoDate
  <2>2. \A t \in Threads : BoundedBy(copy'[t])
    BY <1>13, Numbers DEF Restart, BoundedBy, NoFields, NoDate
  <2>3. \A i \in Completed' : i \in Completed /\ rows'[i] = rows[i]
    <3> SUFFICES ASSUME NEW i \in Ids, rows'[i].status = "COMPLETED"
                 PROVE  rows[i].status = "COMPLETED" /\ rows'[i] = rows[i]
      BY DEF Completed
    <3>1. rows[i] \in Rows /\ rows'[i] = ClosedRow(rows[i])
      BY <1>13 DEF Restart, TypeInv, TypeOK
    <3> QED BY <3>1 DEF ClosedRow, Rows, NoRow, Statuses
  <2>4. pc'[Worker] # "search"
    BY <1>13 DEF Restart, Threads
  <2> QED BY <1>13, <2>1, <2>2, <2>3, <2>4, DatesKept DEF Restart, DatesInv
<1>14. CASE UNCHANGED vars
  BY <1>14 DEF vars, DatesInv, BoundedBy, Completed, Fresh, Present
<1> QED BY <1>1, <1>2, <1>3, <1>4, <1>5, <1>6, <1>7, <1>9, <1>10, <1>11, <1>12, <1>13, <1>14
      DEF Next, Save

-----------------------------------------------------------------------------
(* What requests have asked for                                            *)

LEMMA InitShared == ASSUME Init PROVE SharedInv
BY JobRecordsAssumption DEF Init, SharedInv, Saving, NoFields, NoDate, Threads

(* The requests stay on their jobs: a job that was covered still is.       *)
LEMMA CoveredKept ==
  ASSUME whole \subseteq whole', UNCHANGED asks,
         \A r \in Requests : on[r] # {} => on'[r] = on[r]
  PROVE  \A j \in Jobs : (Shared(j) => Shared(j)') /\ (Covered(j) => Covered(j)')
BY DEF Shared, Covered

(* A step that only moves threads on, without a search or a save begun.    *)
LEMMA SharedKept ==
  ASSUME SharedInv, UNCHANGED <<fields, on, asks, whole>>,
         \A r \in Requests : pc'[r] = "new" => pc[r] = "new",
         pc'[Worker] = "search" => pc[Worker] = "search",
         \A t \in Threads : Saving(t)' => Saving(t) /\ copy'[t] = copy[t]
  PROVE  SharedInv'
<1>1. \A j \in Jobs : (Shared(j) <=> Shared(j)') /\ (Covered(j) <=> Covered(j)')
  BY DEF Shared, Covered
<1>2. \A t \in Threads, j \in Jobs : Saving(t)' /\ on'[t] = {j} =>
        /\ copy'[t].delta # NoDate => Shared(j)'
        /\ copy'[t].status = "COMPLETED" => Covered(j)'
  BY <1>1 DEF SharedInv
<1> QED BY <1>1, <1>2 DEF SharedInv

LEMMA NextShared == ASSUME TypeInv, SharedInv, [Next]_vars PROVE SharedInv'
<1> USE DEF storeVars, jobVars, saveVars, searchVars, doneVars
<1>1. CASE Tick
  BY <1>1, SharedKept DEF Tick, Saving
<1>2. ASSUME NEW e \in Entities, Change(e) PROVE SharedInv'
  BY <1>2, SharedKept DEF Change, Saving
<1>3. ASSUME NEW e \in Entities, Fetch(e) PROVE SharedInv'
  BY <1>3, SharedKept DEF Fetch, Saving
<1>4. ASSUME NEW e \in Entities, LookAt(e) PROVE SharedInv'
  BY <1>4, SharedKept DEF LookAt, Saving
<1>5. ASSUME NEW r \in Requests, NEW j \in Jobs, Join(r, j) PROVE SharedInv'
  <2>1. PICK d \in 0 .. MaxTime :
          DateFor(r, j, d) /\ fields' = [fields EXCEPT ![j].delta = d]
    BY <1>5 DEF Join
  <2>2. /\ pc[r] = "new" /\ pc' = [pc EXCEPT ![r] = "save"] /\ on' = [on EXCEPT ![r] = {j}]
        /\ UNCHANGED <<asks, whole, copy>> /\ on[r] = {}
        /\ r \in Threads /\ Worker \in Threads /\ r # Worker
    BY <1>5, JobRecordsAssumption DEF Join, SharedInv, Threads
  <2>3. /\ pc'[r] = "save" /\ on'[r] = {j} /\ pc'[Worker] = pc[Worker]
        /\ \A q \in Threads \ {r} : pc'[q] = pc[q] /\ on'[q] = on[q]
    BY <2>2 DEF TypeInv, TypeOK
  <2>4. \A k \in Jobs : (Shared(k) => Shared(k)') /\ (Covered(k) => Covered(k)')
    BY <2>2, <2>3, CoveredKept DEF Threads
  <2>5. /\ fields'[j].delta = d /\ fields'[j].status = fields[j].status
        /\ \A k \in Jobs \ {j} : fields'[k] = fields[k]
    BY <2>1, Numbers DEF Fields, TypeInv, TypeOK
  <2>6. d # NoDate => Shared(j)'
    <3>1. CASE asks[r] = "delta"
      BY <2>2, <2>3, <3>1 DEF Shared
    <3>2. CASE asks[r] # "delta"
      BY <2>1, <2>4, <3>2 DEF DateFor, SharedInv
    <3> QED BY <3>1, <3>2
  <2>7. \A q \in Threads : Saving(q)' => Saving(q) /\ on'[q] = on[q]
    BY <2>3 DEF Saving
  <2>8. \A q \in Requests : pc'[q] = "new" => on'[q] = {}
    BY <2>3 DEF SharedInv, Threads
  <2> QED BY <2>2, <2>3, <2>4, <2>5, <2>6, <2>7, <2>8 DEF SharedInv
<1>6. ASSUME NEW t \in Threads, NEW j \in Jobs, Read(t, j) PROVE SharedInv'
  <2>1. UNCHANGED <<fields, on, asks, whole>>
    BY <1>6 DEF Read
  <2>2. /\ \A q \in Threads : pc'[q] \in {"search", "new"} => pc'[q] = pc[q]
        /\ \A q \in Threads \ {t} : Saving(q)' => Saving(q) /\ copy'[q] = copy[q]
    BY <1>6, ReadCopies DEF Saving
  <2>3. \A k \in Jobs : (Shared(k) <=> Shared(k)') /\ (Covered(k) <=> Covered(k)')
    BY <2>1 DEF Shared, Covered
  <2>4. \A k \in Jobs : on[t] = {k} => k = j
    BY <1>6 DEF Read
  <2>5. /\ fields[j].delta # NoDate => Shared(j)
        /\ fields[j].status = "COMPLETED" => Covered(j)
    BY DEF SharedInv
  <2> QED BY <1>6, <2>1, <2>2, <2>3, <2>4, <2>5, ReadCopies DEF SharedInv, Threads
<1>7. ASSUME NEW t \in Threads, NEW j \in Jobs, CopyBack(t, j) PROVE SharedInv'
  <2>1. /\ UNCHANGED <<on, asks, whole, copy>> /\ Saving(t) /\ on[t] = {j}
        /\ fields'[j] = copy[t] /\ \A k \in Jobs \ {j} : fields'[k] = fields[k]
        /\ \A q \in Threads : Saving(q)' => Saving(q)
        /\ \A q \in Threads : pc'[q] \in {"search", "new"} => pc'[q] = pc[q]
    BY <1>7 DEF CopyBack, Saving, TypeInv, TypeOK
  <2>2. \A k \in Jobs : (Shared(k) <=> Shared(k)') /\ (Covered(k) <=> Covered(k)')
    BY <2>1 DEF Shared, Covered
  <2> QED BY <2>1, <2>2 DEF SharedInv, Threads
<1>8. ASSUME NEW t \in Threads, NEW j \in Jobs, EndSave(t, j) PROVE SharedInv'
  <2>1. /\ \A q \in Threads : pc'[q] \in {"search", "new"} => pc'[q] = pc[q]
        /\ \A q \in Threads : Saving(q)' => Saving(q) /\ copy'[q] = copy[q]
    BY <1>8 DEF EndSave, Saving, TypeInv, TypeOK
  <2> QED BY <1>8, <2>1, SharedKept DEF EndSave, Threads
<1>9. ASSUME NEW j \in Jobs, Start(j) PROVE SharedInv'
  <2>1. /\ pc[Worker] = "idle" /\ on' = [on EXCEPT ![Worker] = {j}] /\ UNCHANGED <<asks, copy>>
    BY <1>9 DEF Start
  <2>2. \A r \in Requests : on'[r] = on[r]
    BY <2>1, JobRecordsAssumption DEF TypeInv, TypeOK, Threads
  <2>3. \E s : pc' = [pc EXCEPT ![Worker] = s] /\ s \in {"search", "save"}
    BY <1>9 DEF Start, EndSearch
  <2>4. /\ \A r \in Requests : pc'[r] = pc[r]
        /\ \A q \in Threads : Saving(q)' => Saving(q) /\ on'[q] = on[q]
    BY <2>1, <2>3, JobRecordsAssumption DEF TypeInv, TypeOK, Threads, Saving
  <2>5. CASE EndSearch(j, "FAIL") /\ UNCHANGED whole
    <3>1. \A k \in Jobs : fields'[k].delta = fields[k].delta
                          /\ (fields'[k].status = "COMPLETED" => fields[k].status = "COMPLETED")
      BY <2>5 DEF EndSearch, TypeInv, TypeOK
    <3>2. pc'[Worker] # "search"
      BY <2>5 DEF EndSearch, TypeInv, TypeOK, Threads
    <3>3. \A k \in Jobs : (Shared(k) => Shared(k)') /\ (Covered(k) => Covered(k)')
      BY <2>1, <2>2, <2>5, CoveredKept
    <3> QED BY <2>1, <2>2, <2>4, <3>1, <3>2, <3>3 DEF SharedInv
  <2>6. CASE /\ UNCHANGED fields
             /\ todo' = {e \in Present : ChangedSince(e, fields[j].delta)}
             /\ whole' = IF todo' = Present THEN whole \cup {j} ELSE whole
    <3>1. \A k \in Jobs : (Shared(k) => Shared(k)') /\ (Covered(k) => Covered(k)')
      BY <2>1, <2>2, <2>6, CoveredKept
    <3>2. Covered(j)'
      <4>1. CASE fields[j].delta = NoDate
        <5>1. todo' = Present
          BY <2>6, <4>1, Numbers DEF ChangedSince, NoDate, Present
        <5> QED BY <2>6, <5>1 DEF Covered
      <4>2. CASE fields[j].delta # NoDate
        BY <3>1, <4>2 DEF Covered, SharedInv
      <4> QED BY <4>1, <4>2
    <3>3. \A k \in Jobs : on'[Worker] = {k} => k = j
      BY <2>1 DEF TypeInv, TypeOK, Threads
    <3> QED BY <2>1, <2>2, <2>4, <2>6, <3>1, <3>2, <3>3 DEF SharedInv
  <2> QED BY <1>9, <2>5, <2>6 DEF Start
<1>10. ASSUME NEW j \in Jobs, Finish(j) PROVE SharedInv'
  <2>1. PICK s \in {"COMPLETED", "FAIL"} : EndSearch(j, s)
    BY <1>10 DEF Finish
  <2>2. /\ UNCHANGED <<on, asks, whole, copy>> /\ pc[Worker] = "search" /\ on[Worker] = {j}
        /\ fields'[j].delta = fields[j].delta
        /\ \A k \in Jobs \ {j} : fields'[k] = fields[k]
        /\ \A r \in Requests : pc'[r] = pc[r]
        /\ \A q \in Threads : Saving(q)' => Saving(q)
        /\ pc'[Worker] # "search"
    BY <1>10, <2>1, JobRecordsAssumption DEF Finish, EndSearch, Saving, TypeInv, TypeOK, Threads
  <2>3. \A k \in Jobs : (Shared(k) <=> Shared(k)') /\ (Covered(k) <=> Covered(k)')
    BY <2>2 DEF Shared, Covered
  <2> QED BY <2>2, <2>3 DEF SharedInv
<1>11. CASE Restart
  <2>1. /\ \A r \in Requests : on'[r] = {}
        /\ \A j \in Jobs : fields'[j] = NoFields
        /\ \A t \in Threads : ~Saving(t)'
        /\ pc'[Worker] # "search"
    BY <1>11 DEF Restart, Saving, Threads
  <2> QED BY <2>1 DEF SharedInv, NoFields, NoDate
<1>12. CASE UNCHANGED vars
  BY <1>12, SharedKept DEF vars, Saving
<1> QED BY <1>1, <1>2, <1>3, <1>4, <1>5, <1>6, <1>7, <1>8, <1>9, <1>10, <1>11, <1>12
      DEF Next, Save, Flush, Lose

-----------------------------------------------------------------------------
(* Where jobs and threads are                                              *)

LEMMA InitPlace == ASSUME Init PROVE PlaceInv
BY JobRecordsAssumption DEF Init, PlaceInv, Before, Searching, Saving, NoFields, Threads

LEMMA PlaceKept ==
  ASSUME PlaceInv, UNCHANGED <<fields, at, maker, pc, on, copy, split>>
  PROVE  PlaceInv'
BY DEF PlaceInv, Before, Searching, Saving

LEMMA NextPlace == ASSUME TypeInv, SharedInv, PlaceInv, [Next]_vars PROVE PlaceInv'
<1> USE DEF storeVars, jobVars, saveVars, searchVars, doneVars
<1>1. CASE Tick
  BY <1>1, PlaceKept DEF Tick
<1>2. ASSUME NEW e \in Entities, Change(e) PROVE PlaceInv'
  BY <1>2, PlaceKept DEF Change
<1>3. ASSUME NEW e \in Entities, Fetch(e) PROVE PlaceInv'
  BY <1>3, PlaceKept DEF Fetch
<1>4. ASSUME NEW e \in Entities, LookAt(e) PROVE PlaceInv'
  BY <1>4, PlaceKept DEF LookAt
<1>5. ASSUME NEW r \in Requests, NEW j \in Jobs, Join(r, j) PROVE PlaceInv'
  <2>1. PICK d \in 0 .. MaxTime : fields' = [fields EXCEPT ![j].delta = d]
    BY <1>5 DEF Join
  <2>2. \A k \in Jobs : fields'[k].status = fields[k].status
    BY <2>1, Numbers DEF Fields, TypeInv, TypeOK
  <2>3. /\ pc[r] = "new" /\ on[r] = {} /\ r \in Threads /\ Worker \in Threads /\ r # Worker
        /\ pc'[r] = "save" /\ on'[r] = {j} /\ UNCHANGED <<copy, split>>
        /\ \A q \in Threads \ {r} : pc'[q] = pc[q] /\ on'[q] = on[q]
    BY <1>5, JobRecordsAssumption DEF Join, SharedInv, Threads, TypeInv, TypeOK
  <2>4. /\ \A k \in Jobs \ {j} : at'[k] = at[k] /\ maker'[k] = maker[k]
        /\ \/ at[j] = "none" /\ at'[j] = "made" /\ maker'[j] = r
           \/ at[j] # "none" /\ at'[j] = at[j] /\ maker'[j] = maker[j]
    BY <1>5 DEF Join, TypeInv, TypeOK
  <2>5. \A k \in Jobs : Searching(k)' <=> Searching(k)
    BY <2>3 DEF Searching
  <2>6. \A k \in Jobs : Before(k)' <=> Before(k)
    BY <2>4, <2>5 DEF Before
  <2>7. \A q \in Threads \ {r} : Saving(q)' <=> Saving(q)
    BY <2>3 DEF Saving
  <2>8. ~Saving(r)'
    BY <2>3 DEF Saving
  <2>9. \A k \in Jobs : at'[k] # "none" => maker'[k] # Worker /\ pc'[maker'[k]] # "new"
    <3> SUFFICES ASSUME NEW k \in Jobs, at'[k] # "none"
                 PROVE  maker'[k] # Worker /\ pc'[maker'[k]] # "new"
      OBVIOUS
    <3>1. maker'[k] = r \/ (maker'[k] = maker[k] /\ at[k] # "none")
      BY <2>4
    <3>2. maker[k] \in Threads
      BY DEF TypeInv, TypeOK
    <3> QED BY <2>3, <3>1, <3>2 DEF PlaceInv
  <2>10. maker'[j] = r => at'[j] = "made"
    BY <2>3, <2>4 DEF PlaceInv
  <2>11. \A q \in Requests, k \in Jobs :
           on'[q] = {k} /\ (pc'[q] = "save" \/ Saving(q)') /\ q = maker'[k] => at'[k] = "made"
    <3> SUFFICES ASSUME NEW q \in Requests, NEW k \in Jobs, on'[q] = {k}, q = maker'[k],
                        pc'[q] = "save" \/ Saving(q)'
                 PROVE  at'[k] = "made"
      OBVIOUS
    <3>1. CASE q = r
      BY <2>3, <2>10, <3>1
    <3>2. CASE q # r
      BY <2>3, <2>4, <2>7, <3>2 DEF PlaceInv, Threads
    <3> QED BY <3>1, <3>2
  <2>12. \A q \in Requests, k \in Jobs :
           on'[q] = {k} /\ pc'[q] = "merged" /\ q # maker'[k] => k \in split'
    BY <2>3, <2>4 DEF PlaceInv, Threads
  <2>13. \A q \in Threads, k \in Jobs : on'[q] = {k} => at'[k] # "none"
    BY <2>3, <2>4 DEF PlaceInv
  <2>14. \A k \in Jobs : at'[k] = "taken" <=>
           on'[Worker] = {k} /\ (pc'[Worker] \in {"search", "save"} \/ Saving(Worker)')
    BY <2>3, <2>4, <2>7 DEF PlaceInv
  <2>15. \A k \in Jobs : Before(k)' =>
           /\ fields'[k].status = "PENDING"
           /\ \A q \in Threads : on'[q] = {k} /\ Saving(q)' => copy'[q].status = "PENDING"
    BY <2>2, <2>3, <2>6, <2>7, <2>8 DEF PlaceInv
  <2> QED BY <2>2, <2>3, <2>6, <2>7, <2>9, <2>11, <2>12, <2>13, <2>14, <2>15 DEF PlaceInv
<1>6. ASSUME NEW t \in Threads, NEW j \in Jobs, Read(t, j) PROVE PlaceInv'
  <2>1. UNCHANGED <<fields, at, maker, on>> /\ pc[t] = "save" /\ on[t] = {j}
    BY <1>6 DEF Read
  <2>2. /\ \A q \in Threads \ {t} : pc'[q] = pc[q] /\ copy'[q] = copy[q]
        /\ copy'[t].status = fields[j].status /\ pc'[t] \in {"merged", "flush"}
        /\ split \subseteq split'
        /\ pc'[t] = "merged" /\ t \notin {Worker, maker[j]} => j \in split'
    BY <1>6, ReadCopies
  <2>3. Saving(t)' /\ ~Saving(t) /\ \A q \in Threads \ {t} : Saving(q)' <=> Saving(q)
    BY <2>1, <2>2 DEF Saving
  <2>4. \A k \in Jobs : (Searching(k)' <=> Searching(k)) /\ (Before(k)' <=> Before(k))
    BY <2>1, <2>2 DEF Searching, Before, Threads
  <2>5. \A k \in Jobs : at[k] # "none" => maker[k] # Worker /\ pc'[maker[k]] # "new"
    BY <2>1, <2>2 DEF PlaceInv, TypeInv, TypeOK
  <2>6. \A k \in Jobs : on[t] = {k} => k = j
    BY <2>1
  <2>7. t = Worker => copy'[t].status # "PENDING" \/ j \in split'
    <3> SUFFICES ASSUME t = Worker, j \notin split PROVE fields[j].status # "PENDING"
      BY <2>2
    <3>1. at[j] = "taken" /\ ~Searching(j)
      BY <2>1 DEF PlaceInv, Searching
    <3> QED BY <3>1 DEF PlaceInv, Before
  <2>8. \A k \in Jobs : at[k] = "taken" <=>
          on[Worker] = {k} /\ (pc'[Worker] \in {"search", "save"} \/ Saving(Worker)')
    BY <2>1, <2>2, <2>3 DEF PlaceInv, Threads
  <2>9. \A r \in Requests, k \in Jobs :
          on[r] = {k} /\ (pc'[r] = "save" \/ Saving(r)') /\ r = maker[k] => at[k] = "made"
    BY <2>1, <2>2, <2>3 DEF PlaceInv, Threads
  <2>10. \A r \in Requests, k \in Jobs :
          on[r] = {k} /\ pc'[r] = "merged" /\ r # maker[k] => k \in split'
    <3> TAKE r \in Requests, k \in Jobs
    <3> HAVE on[r] = {k} /\ pc'[r] = "merged" /\ r # maker[k]
    <3>1. CASE r = t
      BY <2>2, <2>6, <3>1, JobRecordsAssumption
    <3>2. CASE r # t
      BY <2>2, <3>2 DEF PlaceInv, Threads
    <3> QED BY <3>1, <3>2
  <2>11. \A k \in Jobs : Before(k) =>
           \A q \in Threads : on[q] = {k} /\ Saving(q)' => copy'[q].status = "PENDING"
    BY <2>2, <2>3, <2>6 DEF PlaceInv
  <2>12. \A k \in Jobs : Saving(Worker)' /\ on[Worker] = {k} =>
           copy'[Worker].status # "PENDING" \/ k \in split'
    BY <2>2, <2>3, <2>6, <2>7 DEF PlaceInv, Threads
  <2> QED BY <2>1, <2>2, <2>4, <2>5, <2>8, <2>9, <2>10, <2>11, <2>12 DEF PlaceInv
<1>7. ASSUME NEW t \in Threads, NEW j \in Jobs, CopyBack(t, j) PROVE PlaceInv'
  <2>1. /\ UNCHANGED <<at, maker, on, copy, split>> /\ pc[t] = "merged" /\ on[t] = {j}
        /\ pc'[t] = "flush" /\ \A q \in Threads \ {t} : pc'[q] = pc[q]
        /\ fields'[j] = copy[t] /\ \A k \in Jobs \ {j} : fields'[k] = fields[k]
    BY <1>7 DEF CopyBack, TypeInv, TypeOK
  <2>2. \A q \in Threads : /\ Saving(q)' <=> Saving(q)
                           /\ pc'[q] = pc[q] \/ q = t
    BY <2>1 DEF Saving
  <2>3. \A k \in Jobs : (Searching(k)' <=> Searching(k)) /\ (Before(k)' <=> Before(k))
    BY <2>1 DEF Searching, Before, Threads
  <2>4. ~Before(j) => fields'[j].status # "PENDING" \/ j \in split
    <3>1. CASE t = Worker
      BY <2>1, <3>1 DEF PlaceInv, Saving
    <3>2. CASE t = maker[j] /\ t # Worker
      BY <2>1, <3>2 DEF PlaceInv, Saving, Before, Threads
    <3>3. CASE t # maker[j] /\ t # Worker
      BY <2>1, <3>3 DEF PlaceInv, Threads
    <3> QED BY <3>1, <3>2, <3>3
  <2>5. Before(j) => fields'[j].status = "PENDING"
    BY <2>1 DEF PlaceInv, Saving
  <2>6. \A k \in Jobs : at[k] # "none" => maker[k] # Worker /\ pc'[maker[k]] # "new"
    BY <2>1 DEF PlaceInv, TypeInv, TypeOK
  <2>7. \A k \in Jobs : at[k] = "taken" <=>
          on[Worker] = {k} /\ (pc'[Worker] \in {"search", "save"} \/ Saving(Worker)')
    BY <2>1, <2>2 DEF PlaceInv, Threads, Saving
  <2>8. \A r \in Requests, k \in Jobs :
          /\ on[r] = {k} /\ (pc'[r] = "save" \/ Saving(r)') /\ r = maker[k] => at[k] = "made"
          /\ on[r] = {k} /\ pc'[r] = "merged" /\ r # maker[k] => k \in split
    BY <2>1, <2>2 DEF PlaceInv, Threads
  <2>9. \A k \in Jobs : Before(k) =>
          /\ fields'[k].status = "PENDING"
          /\ \A q \in Threads : on[q] = {k} /\ Saving(q)' => copy[q].status = "PENDING"
    BY <2>1, <2>2, <2>5 DEF PlaceInv
  <2>10. \A k \in Jobs : ~Before(k) => fields'[k].status # "PENDING" \/ k \in split
    BY <2>1, <2>4 DEF PlaceInv
  <2>11. \A k \in Jobs : Saving(Worker)' /\ on[Worker] = {k} =>
           copy[Worker].status # "PENDING" \/ k \in split
    BY <2>2 DEF PlaceInv, Threads
  <2> QED BY <2>1, <2>3, <2>6, <2>7, <2>8, <2>9, <2>10, <2>11 DEF PlaceInv
<1>8. ASSUME NEW t \in Threads, NEW j \in Jobs, EndSave(t, j),
             pc[t] \in {"save", "flush"}, on[t] = {j}
      PROVE  PlaceInv'
  <2>1. /\ UNCHANGED <<fields, maker, on, split>>
        /\ pc'[t] \in {"idle", "done"} /\ copy'[t] = NoFields
        /\ \A q \in Threads \ {t} : pc'[q] = pc[q] /\ copy'[q] = copy[q]
        /\ at'[j] = IF t = Worker THEN "done" ELSE IF t = maker[j] THEN "queued" ELSE at[j]
        /\ \A k \in Jobs \ {j} : at'[k] = at[k]
    BY <1>8 DEF EndSave, TypeInv, TypeOK
  <2>2. \A q \in Threads : Saving(q)' => Saving(q) /\ q # t
    BY <2>1 DEF Saving
  <2>3. t = Worker => at[j] = "taken" /\ pc'[Worker] = "idle"
    BY <1>8 DEF PlaceInv, Saving, EndSave, TypeInv, TypeOK
  <2>4. t # Worker /\ t = maker[j] => at[j] = "made"
    BY <1>8 DEF PlaceInv, Saving, Threads
  <2>5. \A k \in Jobs : Searching(k)' <=> Searching(k)
    BY <1>8, <2>1 DEF Searching, Threads
  <2>6. \A k \in Jobs : Before(k)' <=> Before(k)
    BY <1>8, <2>1, <2>3, <2>4, <2>5 DEF Before, Searching
  <2>7. at[j] # "none" /\ at'[j] # "none"
    BY <1>8, <2>1 DEF PlaceInv
  <2>8. \A k \in Jobs : at'[k] # "none" => maker[k] # Worker /\ pc'[maker[k]] # "new"
    BY <2>1, <2>7 DEF PlaceInv, TypeInv, TypeOK
  <2>9. \A r \in Requests, k \in Jobs :
          on[r] = {k} /\ (pc'[r] = "save" \/ Saving(r)') /\ r = maker[k] => at'[k] = "made"
    <3> TAKE r \in Requests, k \in Jobs
    <3> HAVE on[r] = {k} /\ (pc'[r] = "save" \/ Saving(r)') /\ r = maker[k]
    <3>1. r # t /\ r \in Threads /\ (pc[r] = "save" \/ Saving(r))
      BY <2>1, <2>2 DEF Threads
    <3>2. at[k] = "made"
      BY <3>1 DEF PlaceInv
    <3> QED BY <2>1, <2>3, <3>1, <3>2
  <2>10. \A r \in Requests, k \in Jobs :
          on[r] = {k} /\ pc'[r] = "merged" /\ r # maker[k] => k \in split
    BY <2>1 DEF PlaceInv, Threads
  <2>11. \A k \in Jobs : at'[k] = "taken" <=>
          on[Worker] = {k} /\ (pc'[Worker] \in {"search", "save"} \/ Saving(Worker)')
    <3>1. CASE t = Worker
      <4>1. ~Saving(Worker)' /\ pc'[Worker] = "idle"
        BY <2>2, <2>3, <3>1
      <4>2. \A k \in Jobs : at[k] = "taken" => k = j
        BY <1>8, <3>1 DEF PlaceInv
      <4> QED BY <2>1, <3>1, <4>1, <4>2
    <3>2. CASE t # Worker
      <4>1. pc'[Worker] = pc[Worker] /\ (Saving(Worker)' <=> Saving(Worker))
        BY <2>1, <3>2 DEF Saving, Threads
      <4>2. \A k \in Jobs : at'[k] = "taken" <=> at[k] = "taken"
        BY <2>1, <2>4, <3>2
      <4> QED BY <4>1, <4>2 DEF PlaceInv
    <3> QED BY <3>1, <3>2
  <2>12. \A k \in Jobs : Before(k) =>
          /\ fields[k].status = "PENDING"
          /\ \A q \in Threads : on[q] = {k} /\ Saving(q)' => copy'[q].status = "PENDING"
    BY <2>1, <2>2 DEF PlaceInv
  <2>13. \A k \in Jobs : Saving(Worker)' /\ on[Worker] = {k} =>
           copy'[Worker].status # "PENDING" \/ k \in split
    BY <2>1, <2>2 DEF PlaceInv, Threads
  <2>14. \A q \in Threads, k \in Jobs : on[q] = {k} => at'[k] # "none"
    BY <2>1, <2>7 DEF PlaceInv
  <2>15. \A k \in Jobs : ~Before(k) => fields[k].status # "PENDING" \/ k \in split
    BY DEF PlaceInv
  <2> QED BY <2>1, <2>6, <2>8, <2>9, <2>10, <2>11, <2>12, <2>13, <2>14, <2>15 DEF PlaceInv
<1>9. ASSUME NEW t \in Threads, NEW j \in Jobs, Flush(t, j) \/ Lose(t, j) PROVE PlaceInv'
  BY <1>8, <1>9 DEF Flush, Lose
<1>10. ASSUME NEW j \in Jobs, Start(j) PROVE PlaceInv'
  <2>1. /\ pc[Worker] = "idle" /\ at[j] = "queued" /\ UNCHANGED <<maker, copy, split>>
        /\ at'[j] = "taken" /\ \A k \in Jobs \ {j} : at'[k] = at[k]
        /\ on'[Worker] = {j} /\ \A q \in Threads \ {Worker} : on'[q] = on[q]
    BY <1>10 DEF Start, TypeInv, TypeOK, Threads
  <2>2. /\ \A q \in Threads \ {Worker} : pc'[q] = pc[q]
        /\ \/ pc'[Worker] = "search" /\ fields' = fields
           \/ /\ pc'[Worker] = "save" /\ fields'[j].status # "PENDING"
              /\ \A k \in Jobs \ {j} : fields'[k] = fields[k]
    BY <1>10 DEF Start, EndSearch, TypeInv, TypeOK, Threads
  <2>3. \A q \in Threads : Saving(q)' => Saving(q) /\ q # Worker
    BY <2>2 DEF Saving
  <2>4. \A k \in Jobs : ~Searching(k) /\ (Searching(k)' <=> k = j /\ pc'[Worker] = "search")
    BY <2>1 DEF Searching
  <2>5. /\ Before(j) /\ (Before(j)' <=> pc'[Worker] = "search")
        /\ \A k \in Jobs \ {j} : Before(k)' <=> Before(k)
    BY <2>1, <2>4 DEF Before
  <2>6. \A k \in Jobs : at'[k] # "none" => maker[k] # Worker /\ pc'[maker[k]] # "new"
    BY <2>1, <2>2 DEF PlaceInv, TypeInv, TypeOK
  <2>7. \A r \in Requests : r # Worker /\ r \in Threads
    BY JobRecordsAssumption DEF Threads
  <2>8. \A r \in Requests, k \in Jobs :
          on'[r] = {k} /\ (pc'[r] = "save" \/ Saving(r)') /\ r = maker[k] => at'[k] = "made"
    <3> TAKE r \in Requests, k \in Jobs
    <3> HAVE on'[r] = {k} /\ (pc'[r] = "save" \/ Saving(r)') /\ r = maker[k]
    <3>1. at[k] = "made"
      BY <2>1, <2>2, <2>3, <2>7 DEF PlaceInv
    <3> QED BY <2>1, <3>1
  <2>9. \A k \in Jobs : at'[k] = "taken" <=>
          on'[Worker] = {k} /\ (pc'[Worker] \in {"search", "save"} \/ Saving(Worker)')
    <3>1. ~Saving(Worker) /\ \A k \in Jobs : at[k] # "taken"
      BY <2>1 DEF PlaceInv, Saving
    <3> QED BY <2>1, <2>2, <3>1
  <2>10. \A k \in Jobs : Before(k)' =>
          /\ fields'[k].status = "PENDING"
          /\ \A q \in Threads : on'[q] = {k} /\ Saving(q)' => copy[q].status = "PENDING"
    <3> TAKE k \in Jobs
    <3> HAVE Before(k)'
    <3>1. Before(k) /\ fields'[k] = fields[k]
      BY <2>2, <2>5
    <3> QED BY <2>1, <2>3, <3>1 DEF PlaceInv
  <2>11. \A k \in Jobs : ~Before(k)' => fields'[k].status # "PENDING" \/ k \in split
    BY <2>2, <2>5 DEF PlaceInv
  <2>12. \A q \in Threads, k \in Jobs : on'[q] = {k} => at'[k] # "none"
    BY <2>1 DEF PlaceInv
  <2>13. \A r \in Requests, k \in Jobs :
          on'[r] = {k} /\ pc'[r] = "merged" /\ r # maker[k] => k \in split
    BY <2>1, <2>2, <2>7 DEF PlaceInv
  <2>14. ~Saving(Worker)'
    BY <2>3 DEF Threads
  <2> QED BY <2>1, <2>6, <2>8, <2>9, <2>10, <2>11, <2>12, <2>13, <2>14 DEF PlaceInv
<1>11. ASSUME NEW j \in Jobs, Finish(j) PROVE PlaceInv'
  <2>1. /\ pc[Worker] = "search" /\ on[Worker] = {j} /\ UNCHANGED <<at, maker, on, copy, split>>
        /\ pc'[Worker] = "save" /\ \A q \in Threads \ {Worker} : pc'[q] = pc[q]
        /\ fields'[j].status # "PENDING" /\ \A k \in Jobs \ {j} : fields'[k] = fields[k]
    BY <1>11 DEF Finish, EndSearch, TypeInv, TypeOK, Threads
  <2>2. \A q \in Threads : Saving(q)' <=> Saving(q)
    BY <2>1 DEF Saving
  <2>3. at[j] = "taken"
    BY <2>1 DEF PlaceInv
  <2>4. /\ ~Before(j)' /\ \A k \in Jobs \ {j} : Before(k)' <=> Before(k)
    BY <2>1, <2>3 DEF Before, Searching
  <2>5. \A k \in Jobs : at[k] # "none" => maker[k] # Worker /\ pc'[maker[k]] # "new"
    BY <2>1 DEF PlaceInv, TypeInv, TypeOK
  <2>6. \A k \in Jobs : at[k] = "taken" <=>
          on[Worker] = {k} /\ (pc'[Worker] \in {"search", "save"} \/ Saving(Worker)')
    BY <2>1, <2>2 DEF PlaceInv, Threads
  <2>7. \A r \in Requests : r # Worker /\ r \in Threads
    BY JobRecordsAssumption DEF Threads
  <2>8. \A r \in Requests, k \in Jobs :
          /\ on[r] = {k} /\ (pc'[r] = "save" \/ Saving(r)') /\ r = maker[k] => at[k] = "made"
          /\ on[r] = {k} /\ pc'[r] = "merged" /\ r # maker[k] => k \in split
    BY <2>1, <2>2, <2>7 DEF PlaceInv
  <2>9. \A k \in Jobs : Before(k)' =>
          /\ fields'[k].status = "PENDING"
          /\ \A q \in Threads : on[q] = {k} /\ Saving(q)' => copy[q].status = "PENDING"
    BY <2>1, <2>2, <2>4 DEF PlaceInv
  <2>10. \A k \in Jobs : ~Before(k)' => fields'[k].status # "PENDING" \/ k \in split
    BY <2>1, <2>4 DEF PlaceInv
  <2>11. \A k \in Jobs : Saving(Worker)' /\ on[Worker] = {k} =>
           copy[Worker].status # "PENDING" \/ k \in split
    BY <2>2 DEF PlaceInv, Threads
  <2> QED BY <2>1, <2>5, <2>6, <2>8, <2>9, <2>10, <2>11 DEF PlaceInv
<1>12. CASE Restart
  <2>1. /\ \A j \in Jobs : at'[j] = "none" /\ fields'[j] = NoFields
        /\ \A t \in Threads : on'[t] = {} /\ ~Saving(t)'
        /\ Worker \in Threads /\ Requests \subseteq Threads
    BY <1>12 DEF Restart, Saving, Threads
  <2>2. \A j \in Jobs : Before(j)' /\ fields'[j].status = "PENDING"
    BY <2>1 DEF Before, NoFields
  <2>3. \A t \in Threads, j \in Jobs : on'[t] # {j}
    BY <2>1
  <2>4. \A j \in Jobs : at'[j] # "taken"
    BY <2>1
  <2> QED BY <2>1, <2>2, <2>3, <2>4 DEF PlaceInv
<1>13. CASE UNCHANGED vars
  BY <1>13, PlaceKept DEF vars
<1> QED BY <1>1, <1>2, <1>3, <1>4, <1>5, <1>6, <1>7, <1>9, <1>10, <1>11, <1>12, <1>13
      DEF Next, Save

-----------------------------------------------------------------------------
(* Rows, jobs and copies                                                   *)

LEMMA InitRows == ASSUME Init PROVE RowsInv
<1>1. /\ \A j \in Jobs : fields[j].id = NoId
      /\ \A t \in Threads : ~Saving(t)
      /\ \A i \in Ids : rows[i] = NoRow
      /\ lastId = 0
  BY DEF Init, Saving, NoFields, Threads
<1>2. \A t \in Threads : pc[t] \notin {"merged", "flush"}
  BY <1>1 DEF Saving
<1> QED BY <1>1, <1>2 DEF RowsInv, NoId

(* The copies left are saved as they would have been; jobs may have been   *)
(* closed, if no row and no copy of theirs was closed.                     *)
LEMMA RowsKept ==
  ASSUME RowsInv, UNCHANGED <<rows, lastId>>,
         \A j \in Jobs : /\ fields'[j].id = fields[j].id
                         /\ \/ Agree(fields'[j], fields[j])
                            \/ /\ fields[j].status = "PENDING"
                               /\ \A t \in Threads : on[t] = {j} /\ Saving(t) => ~Closed(copy[t]),
         \A t \in Threads : Saving(t)' =>
           /\ Saving(t) /\ pc'[t] = pc[t] /\ copy'[t] = copy[t]
           /\ version'[t] = version[t] /\ on'[t] = on[t]
  PROVE  RowsInv'
<1>1. /\ \A j \in Jobs : fields'[j].id <= lastId
      /\ \A t \in Threads : Saving(t)' => copy'[t].id \in Ids /\ copy'[t].id <= lastId
      /\ \A j, k \in Jobs : fields'[j].id # NoId /\ fields'[j].id = fields'[k].id => j = k
      /\ \A t \in Threads, j \in Jobs :
           Saving(t)' /\ copy'[t].id = fields'[j].id => on'[t] = {j} /\ pc'[t] = "flush"
  BY DEF RowsInv
<1>2. \A t \in Threads : pc'[t] \in {"merged", "flush"} => Saving(t)'
  BY DEF Saving
<1>3. \A t \in Threads : pc'[t] = "merged" =>
       /\ rows[copy'[t].id] = NoRow /\ version'[t] = 0
       /\ \A q \in Threads \ {t} : Saving(q)' => copy'[q].id # copy'[t].id
  BY <1>2 DEF RowsInv
<1>4. \A j \in Jobs : fields'[j].id # NoId /\ Closed(rows[fields'[j].id]) =>
       Agree(rows[fields'[j].id], fields'[j])
  <2> TAKE j \in Jobs
  <2> HAVE fields'[j].id # NoId /\ Closed(rows[fields'[j].id])
  <2>1. Agree(rows[fields[j].id], fields[j]) /\ Closed(rows[fields[j].id])
    BY DEF RowsInv
  <2>2. fields[j].status # "PENDING"
    BY <2>1 DEF Agree, Closed
  <2> QED BY <2>1, <2>2 DEF Agree
<1>5. \A t \in Threads, j \in Jobs :
       pc'[t] = "flush" /\ copy'[t].id = fields'[j].id /\ Closed(copy'[t]) =>
         Agree(fields'[j], copy'[t])
  <2> TAKE t \in Threads, j \in Jobs
  <2> HAVE pc'[t] = "flush" /\ copy'[t].id = fields'[j].id /\ Closed(copy'[t])
  <2>1. Saving(t)' /\ Saving(t) /\ copy'[t] = copy[t] /\ pc[t] = "flush"
    BY <1>2
  <2>2. on[t] = {j} /\ Agree(fields[j], copy[t])
    BY <2>1 DEF RowsInv
  <2>3. Agree(fields'[j], fields[j])
    BY <2>1, <2>2
  <2> QED BY <2>1, <2>2, <2>3 DEF Agree
<1>6. \A t \in Threads : pc'[t] = "flush" => version'[t] <= rows[copy'[t].id].version
  BY <1>2 DEF RowsInv
<1>7. \A t \in Threads :
       pc'[t] = "flush" /\ Closed(rows[copy'[t].id]) /\ version'[t] = rows[copy'[t].id].version =>
         Agree(rows[copy'[t].id], copy'[t])
  BY <1>2 DEF RowsInv
<1>8. \A i \in Ids : i > lastId => rows[i] = NoRow
  BY DEF RowsInv
<1> QED BY <1>1, <1>3, <1>4, <1>5, <1>6, <1>7, <1>8 DEF RowsInv

LEMMA EndSearchRows ==
  ASSUME TypeInv, PlaceInv, RowsInv, NEW j \in Jobs, NEW s, EndSearch(j, s), Before(j),
         UNCHANGED <<rows, lastId, copy, version>>,
         \A t \in Threads \ {Worker} : on'[t] = on[t]
  PROVE  RowsInv'
<1>1. /\ fields'[j].id = fields[j].id
      /\ \A k \in Jobs \ {j} : fields'[k] = fields[k]
      /\ ~Saving(Worker)'
      /\ \A t \in Threads \ {Worker} : pc'[t] = pc[t]
  BY DEF EndSearch, TypeInv, TypeOK, Saving, Threads
<1>2. /\ fields[j].status = "PENDING"
      /\ \A t \in Threads : on[t] = {j} /\ Saving(t) => ~Closed(copy[t])
  BY DEF PlaceInv, Closed
<1>3. \A t \in Threads : Saving(t)' =>
        /\ Saving(t) /\ pc'[t] = pc[t] /\ copy'[t] = copy[t]
        /\ version'[t] = version[t] /\ on'[t] = on[t]
  BY <1>1 DEF Saving
<1>4. \A k \in Jobs : /\ fields'[k].id = fields[k].id
                      /\ \/ Agree(fields'[k], fields[k])
                         \/ /\ fields[k].status = "PENDING"
                            /\ \A t \in Threads : on[t] = {k} /\ Saving(t) => ~Closed(copy[t])
  BY <1>1, <1>2 DEF Agree
<1> QED BY <1>3, <1>4, RowsKept

LEMMA ReadRows ==
  ASSUME TypeInv, RowsInv, NEW t \in Threads, NEW j \in Jobs, Read(t, j)
  PROVE  RowsInv'
<1>1. UNCHANGED <<fields, rows, on>> /\ on[t] = {j}
  BY ReadCopies DEF Read, jobVars
<1>2. /\ \A q \in Threads \ {t} :
           copy'[q] = copy[q] /\ version'[q] = version[q] /\ pc'[q] = pc[q]
      /\ Agree(fields[j], copy'[t])
  BY ReadCopies DEF Agree
<1>3. \A q \in Threads \ {t} : Saving(q)' <=> Saving(q)
  BY <1>2 DEF Saving
<1>4. lastId' \in Nat /\ lastId <= lastId' /\ lastId \in Nat
  BY Numbers, ReadCopies
<1>5. CASE /\ copy'[t].id = fields[j].id /\ fields[j].id # NoId
           /\ version'[t] = rows[fields[j].id].version /\ rows[fields[j].id] # NoRow
           /\ pc'[t] = "flush" /\ lastId' = lastId
  <2>1. fields[j].id \in Ids /\ rows[fields[j].id].version \in Nat
    BY <1>5, Numbers DEF Ids, NoId, Fields
  <2>2. \A k \in Jobs : copy'[t].id = fields[k].id => k = j
    <3> TAKE k \in Jobs
    <3> HAVE copy'[t].id = fields[k].id
    <3>1. fields[j].id # NoId /\ fields[j].id = fields[k].id
      BY <1>5
    <3>2. \A m, l \in Jobs : fields[m].id # NoId /\ fields[m].id = fields[l].id => m = l
      BY DEF RowsInv
    <3> QED BY <3>1, <3>2
  <2>3. \A q \in Threads : pc'[q] = "merged" => q # t /\ copy[q].id # fields[j].id
    BY <1>2, <1>5 DEF RowsInv, Saving
  <2>4. \A q \in Threads : pc'[q] = "merged" =>
         /\ rows[copy'[q].id] = NoRow /\ version'[q] = 0
         /\ \A p \in Threads \ {q} : Saving(p)' => copy'[p].id # copy'[q].id
    BY <1>2, <1>3, <1>5, <2>3 DEF RowsInv
  <2>5. \A q \in Threads : pc'[q] = "flush" => version'[q] <= rows[copy'[q].id].version
    BY <1>2, <1>5, <2>1 DEF RowsInv
  <2>6. \A q \in Threads :
          pc'[q] = "flush" /\ Closed(rows[copy'[q].id]) /\ version'[q] = rows[copy'[q].id].version =>
            Agree(rows[copy'[q].id], copy'[q])
    BY <1>2, <1>5 DEF RowsInv, Agree
  <2>7. \A q \in Threads, k \in Jobs :
          /\ Saving(q)' /\ copy'[q].id = fields[k].id => on[q] = {k} /\ pc'[q] = "flush"
          /\ pc'[q] = "flush" /\ copy'[q].id = fields[k].id /\ Closed(copy'[q]) =>
              Agree(fields[k], copy'[q])
    BY <1>1, <1>2, <1>3, <1>5, <2>2 DEF RowsInv
  <2>8. \A q \in Threads : Saving(q)' => copy'[q].id \in Ids /\ copy'[q].id <= lastId
    BY <1>2, <1>3, <1>5, <2>1 DEF RowsInv
  <2> QED BY <1>1, <1>5, <2>4, <2>5, <2>6, <2>7, <2>8 DEF RowsInv
<1>6. CASE /\ copy'[t].id = lastId' /\ lastId < MaxRows /\ lastId' = lastId + 1
           /\ version'[t] = 0 /\ pc'[t] = "merged"
  <2>1. lastId' \in Ids /\ lastId' > lastId
    BY <1>4, <1>6, JobRecordsAssumption DEF Ids
  <2>2. /\ \A k \in Jobs : fields[k].id \in Nat /\ fields[k].id <= lastId /\ fields[k].id # lastId'
        /\ \A q \in Threads \ {t} : Saving(q) =>
             copy[q].id \in Nat /\ copy[q].id <= lastId /\ copy[q].id # lastId'
    BY <1>4, <1>6, Numbers DEF RowsInv
  <2>3. \A q \in Threads : pc'[q] = "merged" =>
         /\ rows[copy'[q].id] = NoRow /\ version'[q] = 0
         /\ \A p \in Threads \ {q} : Saving(p)' => copy'[p].id # copy'[q].id
    <3> TAKE q \in Threads
    <3> HAVE pc'[q] = "merged"
    <3>1. CASE q = t
      BY <1>2, <1>3, <1>6, <2>1, <2>2, <3>1 DEF RowsInv
    <3>2. CASE q # t
      <4>1. Saving(q) /\ pc[q] = "merged" /\ copy'[q] = copy[q]
        BY <1>2, <3>2 DEF Saving
      <4>2. copy'[t].id # copy[q].id
        BY <1>6, <2>2, <3>2, <4>1
      <4>3. version'[q] = version[q]
        BY <1>2, <3>2
      <4> QED BY <1>2, <1>3, <4>1, <4>2, <4>3 DEF RowsInv
    <3> QED BY <3>1, <3>2
  <2>4. \A q \in Threads : pc'[q] = "flush" =>
         /\ q # t /\ version'[q] <= rows[copy'[q].id].version
         /\ Closed(rows[copy'[q].id]) /\ version'[q] = rows[copy'[q].id].version =>
              Agree(rows[copy'[q].id], copy'[q])
    BY <1>2, <1>6 DEF RowsInv
  <2>5. \A q \in Threads, k \in Jobs :
          /\ Saving(q)' /\ copy'[q].id = fields[k].id => on[q] = {k} /\ pc'[q] = "flush"
          /\ pc'[q] = "flush" /\ copy'[q].id = fields[k].id /\ Closed(copy'[q]) =>
              Agree(fields[k], copy'[q])
    BY <1>2, <1>3, <1>6, <2>2 DEF RowsInv
  <2>6. \A q \in Threads : Saving(q)' => copy'[q].id \in Ids /\ copy'[q].id <= lastId'
    BY <1>2, <1>3, <1>4, <1>6, <2>1, <2>2 DEF RowsInv
  <2>7. \A i \in Ids : i > lastId' => rows[i] = NoRow
    BY <1>4, <1>6 DEF RowsInv, Ids
  <2>8. \A k \in Jobs : fields[k].id <= lastId'
    BY <1>4, <2>2
  <2> QED BY <1>1, <2>3, <2>4, <2>5, <2>6, <2>7, <2>8 DEF RowsInv
<1> QED BY <1>5, <1>6, ReadCopies

LEMMA CopyBackRows ==
  ASSUME TypeInv, RowsInv, NEW t \in Threads, NEW j \in Jobs, CopyBack(t, j)
  PROVE  RowsInv'
<1>1. /\ UNCHANGED <<rows, lastId, copy, version, on>> /\ pc[t] = "merged" /\ on[t] = {j}
      /\ pc'[t] = "flush" /\ \A q \in Threads \ {t} : pc'[q] = pc[q]
      /\ fields'[j] = copy[t] /\ \A k \in Jobs \ {j} : fields'[k] = fields[k]
  BY DEF CopyBack, TypeInv, TypeOK, saveVars
<1>2. Saving(t) /\ \A q \in Threads : Saving(q)' <=> Saving(q)
  BY <1>1 DEF Saving
<1>3. /\ rows[copy[t].id] = NoRow /\ version[t] = 0 /\ copy[t].id \in Ids /\ copy[t].id <= lastId
      /\ \A q \in Threads \ {t} : Saving(q) => copy[q].id # copy[t].id
      /\ \A k \in Jobs : fields[k].id # copy[t].id
  BY <1>1, <1>2 DEF RowsInv
<1>4. ~Closed(rows[copy[t].id]) /\ rows[copy[t].id].version = 0
  BY <1>3 DEF Closed, NoRow
<1>5. \A q \in Threads, k \in Jobs : Saving(q) /\ copy[q].id = fields'[k].id =>
        on[q] = {k} /\ pc'[q] = "flush"
  <2> TAKE q \in Threads, k \in Jobs
  <2> HAVE Saving(q) /\ copy[q].id = fields'[k].id
  <2>1. CASE k = j
    BY <1>1, <1>3, <2>1
  <2>2. CASE k # j
    BY <1>1, <1>3, <2>2 DEF RowsInv
  <2> QED BY <2>1, <2>2
<1>6. \A k \in Jobs : fields'[k].id # NoId /\ Closed(rows[fields'[k].id]) =>
        Agree(rows[fields'[k].id], fields'[k])
  BY <1>1, <1>4 DEF RowsInv
<1>7. \A q \in Threads, k \in Jobs :
        pc'[q] = "flush" /\ copy[q].id = fields'[k].id /\ Closed(copy[q]) =>
          Agree(fields'[k], copy[q])
  <2> TAKE q \in Threads, k \in Jobs
  <2> HAVE pc'[q] = "flush" /\ copy[q].id = fields'[k].id /\ Closed(copy[q])
  <2>1. Saving(q)
    BY <1>1 DEF Saving
  <2>2. CASE q = t
    <3>1. k = j
      BY <1>1, <1>3, <2>2
    <3> QED BY <1>1, <2>2, <3>1 DEF Agree
  <2>3. CASE q # t
    <3>1. k # j /\ pc[q] = "flush"
      BY <1>1, <1>3, <2>1, <2>3
    <3> QED BY <1>1, <3>1 DEF RowsInv
  <2> QED BY <2>2, <2>3
<1>8. \A q \in Threads : pc'[q] = "flush" =>
        /\ version[q] <= rows[copy[q].id].version
        /\ Closed(rows[copy[q].id]) /\ version[q] = rows[copy[q].id].version =>
             Agree(rows[copy[q].id], copy[q])
  <2> TAKE q \in Threads
  <2> HAVE pc'[q] = "flush"
  <2>1. CASE q = t
    BY <1>3, <1>4, <2>1
  <2>2. CASE q # t
    BY <1>1, <2>2 DEF RowsInv
  <2> QED BY <2>1, <2>2
<1>9. \A q \in Threads : pc'[q] = "merged" =>
       /\ rows[copy[q].id] = NoRow /\ version[q] = 0
       /\ \A p \in Threads \ {q} : Saving(p) => copy[p].id # copy[q].id
  <2> TAKE q \in Threads
  <2> HAVE pc'[q] = "merged"
  <2>1. pc[q] = "merged"
    BY <1>1
  <2> QED BY <2>1 DEF RowsInv
<1>10. \A k, l \in Jobs : fields'[k].id # NoId /\ fields'[k].id = fields'[l].id => k = l
  BY <1>1, <1>3 DEF RowsInv
<1>11. \A k \in Jobs : fields'[k].id <= lastId
  BY <1>1, <1>3 DEF RowsInv
<1>12. /\ \A q \in Threads : Saving(q) => copy[q].id \in Ids /\ copy[q].id <= lastId
       /\ \A i \in Ids : i > lastId => rows[i] = NoRow
  BY DEF RowsInv
<1> QED BY <1>1, <1>2, <1>5, <1>6, <1>7, <1>8, <1>9, <1>10, <1>11, <1>12 DEF RowsInv

LEMMA FlushRows ==
  ASSUME TypeInv, RowsInv, NEW t \in Threads, NEW j \in Jobs, Flush(t, j)
  PROVE  RowsInv'
<1> DEFINE i == copy[t].id
<1>1. /\ UNCHANGED <<fields, lastId, on>> /\ pc[t] = "flush" /\ pc'[t] \in {"idle", "done"}
      /\ \A q \in Threads \ {t} :
           pc'[q] = pc[q] /\ copy'[q] = copy[q] /\ version'[q] = version[q]
  BY DEF Flush, EndSave, TypeInv, TypeOK
<1>2. \A q \in Threads : Saving(q)' => q # t /\ Saving(q) /\ copy'[q] = copy[q] /\ pc'[q] = pc[q]
  BY <1>1 DEF Saving
<1>3. \A q \in Threads : pc'[q] \in {"merged", "flush"} =>
        q # t /\ pc'[q] = pc[q] /\ copy'[q] = copy[q] /\ version'[q] = version[q] /\ Saving(q)
  BY <1>1 DEF Saving
<1>4. CASE UNCHANGED rows
  BY <1>1, <1>2, <1>3, <1>4, RowsKept DEF Agree, Saving
<1>5. CASE SameVersion(t) /\ rows' = [rows EXCEPT ![i] =
             [status |-> copy[t].status, date |-> copy[t].date, version |-> version[t] + 1]]
  <2>1. Saving(t) /\ i \in Ids /\ i <= lastId /\ version[t] \in Nat /\ version[t] = rows[i].version
    BY <1>1, <1>5, Numbers DEF RowsInv, Saving, SameVersion
  <2>2. /\ rows'[i] = [status |-> copy[t].status, date |-> copy[t].date, version |-> version[t] + 1]
        /\ \A k \in Ids \ {i} : rows'[k] = rows[k]
    BY <1>5, <2>1 DEF TypeInv, TypeOK
  <2>3. /\ rows'[i].version = version[t] + 1 /\ Agree(rows'[i], copy[t])
        /\ Closed(rows'[i]) => Closed(copy[t])
    BY <2>2 DEF Agree, Closed
  <2>4. \A q \in Threads : pc'[q] = "merged" =>
         /\ rows'[copy'[q].id] = NoRow /\ version'[q] = 0
         /\ \A p \in Threads \ {q} : Saving(p)' => copy'[p].id # copy'[q].id
    <3> TAKE q \in Threads
    <3> HAVE pc'[q] = "merged"
    <3>1. q # t /\ pc[q] = "merged" /\ copy'[q] = copy[q] /\ version'[q] = version[q] /\ Saving(q)
      BY <1>3
    <3>2. copy[q].id \in Ids /\ copy[q].id # i /\ rows[copy[q].id] = NoRow /\ version[q] = 0
      BY <2>1, <3>1 DEF RowsInv
    <3>3. \A p \in Threads \ {q} : Saving(p)' => copy'[p].id # copy'[q].id
      BY <1>2, <3>1 DEF RowsInv
    <3> QED BY <2>2, <3>1, <3>2, <3>3
  <2>5. \A q \in Threads : pc'[q] = "flush" =>
         /\ version'[q] <= rows'[copy'[q].id].version
         /\ Closed(rows'[copy'[q].id]) /\ version'[q] = rows'[copy'[q].id].version =>
              Agree(rows'[copy'[q].id], copy'[q])
    <3> TAKE q \in Threads
    <3> HAVE pc'[q] = "flush"
    <3>1. q # t /\ pc[q] = "flush" /\ copy'[q] = copy[q] /\ version'[q] = version[q] /\ Saving(q)
      BY <1>3
    <3>2. copy[q].id \in Ids /\ version[q] <= rows[copy[q].id].version /\ version[q] \in Nat
      BY <3>1, Numbers DEF RowsInv
    <3>3. CASE copy[q].id = i
      <4>1. version[q] < rows'[i].version
        BY <2>1, <2>3, <3>2, <3>3
      <4> QED BY <3>1, <3>2, <3>3, <4>1, <2>1, <2>3
    <3>4. CASE copy[q].id # i
      BY <2>2, <3>1, <3>2, <3>4 DEF RowsInv
    <3> QED BY <3>3, <3>4
  <2>6. \A k \in Jobs : fields[k].id # NoId /\ Closed(rows'[fields[k].id]) =>
          Agree(rows'[fields[k].id], fields[k])
    <3> TAKE k \in Jobs
    <3> HAVE fields[k].id # NoId /\ Closed(rows'[fields[k].id])
    <3>1. CASE fields[k].id = i
      <4>1. Agree(fields[k], copy[t])
        BY <1>1, <2>3, <3>1 DEF RowsInv
      <4> QED BY <2>3, <3>1, <4>1 DEF Agree
    <3>2. CASE fields[k].id # i
      <4>1. fields[k].id \in Ids
        BY Numbers DEF Ids, NoId, Fields
      <4> QED BY <2>2, <3>2, <4>1 DEF RowsInv
    <3> QED BY <3>1, <3>2
  <2>7. \A q \in Threads, k \in Jobs :
          /\ Saving(q)' /\ copy'[q].id = fields[k].id => on[q] = {k} /\ pc'[q] = "flush"
          /\ pc'[q] = "flush" /\ copy'[q].id = fields[k].id /\ Closed(copy'[q]) =>
              Agree(fields[k], copy'[q])
    BY <1>2, <1>3 DEF RowsInv
  <2>8. \A q \in Threads : Saving(q)' => copy'[q].id \in Ids /\ copy'[q].id <= lastId
    BY <1>2 DEF RowsInv
  <2>9. \A k \in Ids : k > lastId => rows'[k] = NoRow
    <3> TAKE k \in Ids
    <3> HAVE k > lastId
    <3>1. k # i /\ rows[k] = NoRow
      BY <2>1, Numbers DEF RowsInv, Ids
    <3> QED BY <2>2, <3>1
  <2>10. /\ \A k \in Jobs : fields[k].id <= lastId
         /\ \A k, l \in Jobs : fields[k].id # NoId /\ fields[k].id = fields[l].id => k = l
    BY DEF RowsInv
  <2> QED BY <1>1, <2>4, <2>5, <2>6, <2>7, <2>8, <2>9, <2>10 DEF RowsInv
<1> QED BY <1>4, <1>5 DEF Flush

LEMMA RestartRows == ASSUME TypeInv, RowsInv, Restart PROVE RowsInv'
<1>1. /\ \A j \in Jobs : fields'[j] = NoFields
      /\ \A t \in Threads : pc'[t] \notin {"merged", "flush"} /\ ~Saving(t)'
      /\ lastId' = lastId /\ lastId \in Nat
  BY Numbers DEF Restart, Saving, Threads
<1>2. \A i \in Ids : i > lastId => rows'[i] = NoRow
  <2>1. ClosedRow(NoRow) = NoRow
    BY DEF ClosedRow, NoRow
  <2>2. \A i \in Ids : rows'[i] = ClosedRow(rows[i])
    BY DEF Restart
  <2> QED BY <1>1, <2>1, <2>2 DEF RowsInv
<1>3. \A j \in Jobs : fields'[j].id = NoId
  BY <1>1 DEF NoFields
<1> QED BY <1>1, <1>2, <1>3 DEF RowsInv, NoId

LEMMA NextRows == ASSUME TypeInv, PlaceInv, RowsInv, [Next]_vars PROVE RowsInv'
<1> USE DEF storeVars, jobVars, saveVars, searchVars, doneVars
<1>1. CASE Tick
  BY <1>1, RowsKept DEF Tick, Agree, Saving
<1>2. ASSUME NEW e \in Entities, Change(e) PROVE RowsInv'
  BY <1>2, RowsKept DEF Change, Agree, Saving
<1>3. ASSUME NEW e \in Entities, Fetch(e) PROVE RowsInv'
  BY <1>3, RowsKept DEF Fetch, Agree, Saving
<1>4. ASSUME NEW e \in Entities, LookAt(e) PROVE RowsInv'
  BY <1>4, RowsKept DEF LookAt, Agree, Saving
<1>5. ASSUME NEW r \in Requests, NEW j \in Jobs, Join(r, j) PROVE RowsInv'
  <2>1. PICK d \in 0 .. MaxTime : fields' = [fields EXCEPT ![j].delta = d]
    BY <1>5 DEF Join
  <2>2. \A k \in Jobs : fields'[k].id = fields[k].id /\ Agree(fields'[k], fields[k])
    BY <2>1, Numbers DEF Agree, Fields, TypeInv, TypeOK
  <2>3. \A t \in Threads : Saving(t)' => Saving(t) /\ pc'[t] = pc[t] /\ on'[t] = on[t]
    BY <1>5 DEF Join, Saving, TypeInv, TypeOK
  <2>4. UNCHANGED <<rows, lastId, copy, version>>
    BY <1>5 DEF Join
  <2> QED BY <2>2, <2>3, <2>4, RowsKept
<1>6. ASSUME NEW t \in Threads, NEW j \in Jobs, Lose(t, j) PROVE RowsInv'
  <2>1. \A q \in Threads : Saving(q)' =>
          /\ Saving(q) /\ pc'[q] = pc[q] /\ copy'[q] = copy[q]
          /\ version'[q] = version[q] /\ on'[q] = on[q]
    BY <1>6 DEF Lose, EndSave, Saving, TypeInv, TypeOK
  <2>2. UNCHANGED <<rows, lastId, fields>>
    BY <1>6 DEF Lose, EndSave
  <2> QED BY <2>1, <2>2, RowsKept DEF Agree
<1>7. ASSUME NEW j \in Jobs, Start(j) PROVE RowsInv'
  <2>1. /\ at[j] = "queued" /\ UNCHANGED <<rows, lastId, copy, version>>
        /\ \A t \in Threads \ {Worker} : on'[t] = on[t]
    BY <1>7 DEF Start, TypeInv, TypeOK, Threads
  <2>2. CASE EndSearch(j, "FAIL")
    BY <2>1, <2>2, EndSearchRows DEF Before
  <2>3. CASE UNCHANGED fields /\ pc' = [pc EXCEPT ![Worker] = "search"]
    <3>1. \A t \in Threads : Saving(t)' => t # Worker /\ Saving(t) /\ pc'[t] = pc[t]
      BY <2>3 DEF Saving, TypeInv, TypeOK
    <3> QED BY <2>1, <2>3, <3>1, RowsKept DEF Agree
  <2> QED BY <1>7, <2>2, <2>3 DEF Start
<1>8. ASSUME NEW j \in Jobs, Finish(j) PROVE RowsInv'
  <2>1. Before(j) /\ UNCHANGED <<rows, lastId, copy, version, on>>
    BY <1>8 DEF Finish, Before, Searching
  <2> QED BY <1>8, <2>1, EndSearchRows DEF Finish
<1>9. CASE UNCHANGED vars
  BY <1>9, RowsKept DEF vars, Agree, Saving
<1> QED BY <1>1, <1>2, <1>3, <1>4, <1>5, <1>6, <1>7, <1>8, <1>9, ReadRows, CopyBackRows,
      FlushRows, RestartRows DEF Next, Save

-----------------------------------------------------------------------------
Inv == TypeInv /\ DatesInv /\ SharedInv /\ PlaceInv /\ RowsInv

(* The types and the four parts hold in every reachable state.             *)
THEOREM InvHolds == Spec => []Inv
<1>1. Init => Inv
  BY InitTyped, InitDates, InitShared, InitPlace, InitRows DEF Inv
<1>2. Inv /\ [Next]_vars => Inv'
  BY NextTyped, NextDates, NextShared, NextPlace, NextRows DEF Inv
<1> QED BY <1>1, <1>2, PTL DEF Spec

(* TypeOK: every variable keeps its type and a row has a date when it is   *)
(* closed (JobRegistry, persist, closeOtherJobRegistryByAppId).            *)
THEOREM RecordsTyped == Spec => []TypeOK
<1>1. Inv => TypeOK
  BY DEF Inv, TypeInv
<1> QED BY <1>1, InvHolds, PTL

(* OnlyLateIsSkipped: a change that no completed search has looked at is   *)
(* not older than the date that the next search starts from, unless it     *)
(* reached the cache during a search or late.                              *)
THEOREM DeltaMissesNothing == Spec => []OnlyLateIsSkipped
<1>1. Inv => OnlyLateIsSkipped
  <2> SUFFICES ASSUME Inv, NEW e \in Present \ late, <<e, cache[e]>> \notin searched,
                      NEW i \in Completed
               PROVE  rows[i].date <= cache[e].date
    BY DEF OnlyLateIsSkipped
  <2>1. lastDone <= cache[e].date /\ rows[i].date <= lastDone
    BY DEF Inv, DatesInv, Fresh
  <2>2. cache[e].date \in Nat /\ rows[i].date \in Nat /\ lastDone \in Nat
    BY Numbers DEF Inv, Present, Completed
  <2> QED BY <2>1, <2>2
<1> QED BY <1>1, InvHolds, PTL

(* AllUnlessShared: who asks for a search of all entities gets one, unless *)
(* the job is shared with a request that does not.                         *)
THEOREM AllAreSearched == Spec => []AllUnlessShared
<1>1. Inv => AllUnlessShared
  BY DEF Inv, SharedInv, Covered, Shared, AllUnlessShared
<1> QED BY <1>1, InvHolds, PTL

(* OpenWillRun: the job that a request finds open is going to be searched, *)
(* unless a request that had joined it inserted its row.                   *)
THEOREM OpenIsAhead == Spec => []OpenWillRun
<1>1. Inv => OpenWillRun
  BY DEF Inv, PlaceInv, Before, Searching, OpenWillRun, Open
<1> QED BY <1>1, InvHolds, PTL

(* RecordedIsFinal: the outcome in a row of job_registry is never replaced.*)
THEOREM OutcomeStays == Spec => RecordedIsFinal
<1>1. Inv /\ [Next]_vars =>
        [\A i \in Ids : rows[i].status \notin {"none", "PENDING"} =>
           rows'[i].status = rows[i].status /\ rows'[i].date = rows[i].date]_vars
  <2> SUFFICES ASSUME Inv, Next, NEW i \in Ids, Closed(rows[i])
               PROVE  Agree(rows'[i], rows[i])
    BY DEF Closed, Agree
  <2>1. CASE UNCHANGED rows
    BY <2>1 DEF Agree
  <2>2. ASSUME NEW t \in Threads, NEW j \in Jobs, Flush(t, j), SameVersion(t),
               rows' = [rows EXCEPT ![copy[t].id] = [status |-> copy[t].status,
                          date |-> copy[t].date, version |-> version[t] + 1]]
        PROVE  Agree(rows'[i], rows[i])
    <3>1. CASE i = copy[t].id
      <4>1. Agree(rows[i], copy[t])
        BY <2>2, <3>1 DEF Inv, RowsInv, Flush, SameVersion
      <4>2. Agree(rows'[i], copy[t])
        BY <2>2, <3>1 DEF Agree, Inv, TypeInv, TypeOK
      <4> QED BY <4>1, <4>2 DEF Agree
    <3>2. CASE i # copy[t].id
      BY <2>2, <3>2 DEF Agree, Inv, TypeInv, TypeOK
    <3> QED BY <3>1, <3>2
  <2>3. CASE Restart
    BY <2>3 DEF Restart, ClosedRow, Closed, Agree
  <2>4. UNCHANGED rows \/ Restart \/ \E t \in Threads, j \in Jobs : Flush(t, j)
    BY DEF Next, Save, Tick, Change, Fetch, LookAt, Start, Finish, Join, Read, CopyBack, Lose
  <2> QED BY <2>1, <2>2, <2>3, <2>4 DEF Flush
<1> QED BY <1>1, InvHolds, PTL DEF Spec, RecordedIsFinal
=============================================================================

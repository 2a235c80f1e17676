------------------------- MODULE JobHandler_proofs --------------------------
(***************************************************************************)
(* Theorems about JobHandler for every set of requests, threads and calls. *)
(***************************************************************************)
EXTENDS JobHandler, TLAPS

(* A thread that is past the look-up works on a job.                       *)
Busy == {"register", "save", "dispatch", "search", "store", "fail", "release",
         "wake", "wakeStart", "notify", "post", "notifyAgain", "postAgain"}
CurOK == \A t \in Threads : pc[t] \in Busy /\ t # Loader => cur[t] \in Reqs
(* The loader takes no part in requests and searches.                      *)
LoaderOK == pc[Loader] \in {"loading", "handle", "start", "done"}
(* A merge is copied back before its thread goes on.                       *)
CopyOK == \A t \in Threads : copy[t] # {} => Saving(t)
Typed == TypeOK /\ CurOK /\ LoaderOK /\ CopyOK

JobRec == [members : SUBSET Reqs, status : Statuses, runs : Nat, row : BOOLEAN]

(* The queue chosen by handleQueueFindSimilarities is one of the queues,   *)
(* and is not empty.                                                       *)
LEMMA ChosenQueue ==
  ASSUME TypeOK, \E k \in Kinds : NonEmpty(k)
  PROVE  QueueToServe \in Kinds /\ NonEmpty(QueueToServe)
<1> DEFINE First(n) == /\ NonEmpty(Priority[n])
                       /\ \A m \in 1..(n - 1) : ~NonEmpty(Priority[m])
<1>1. /\ DOMAIN Priority = {1, 2, 3}
      /\ Priority[1] = "class" /\ Priority[2] = "instance" /\ Priority[3] = "lod"
  BY DEF Priority
<1>2. \E n \in DOMAIN Priority : First(n)
  <2>1. CASE NonEmpty("class")
    <3>1. First(1) BY <1>1, <2>1
    <3> QED BY <3>1, <1>1
  <2>2. CASE ~NonEmpty("class") /\ NonEmpty("instance")
    <3>1. First(2) BY <1>1, <2>2
    <3> QED BY <3>1, <1>1
  <2>3. CASE ~NonEmpty("class") /\ ~NonEmpty("instance")
    <3>1. NonEmpty("lod") BY <2>3 DEF Kinds
    <3>2. First(3)
      <4>1. 1..(3 - 1) = {1, 2} OBVIOUS
      <4> QED BY <4>1, <1>1, <2>3, <3>1
    <3> QED BY <3>2, <1>1
  <2> QED BY <2>1, <2>2, <2>3
<1> DEFINE i == CHOOSE n \in DOMAIN Priority : First(n)
<1>3. i \in DOMAIN Priority /\ First(i)
  BY <1>2
<1>4. QueueToServe = Priority[i]
  BY DEF QueueToServe
<1> HIDE DEF i
<1> QED BY <1>1, <1>3, <1>4 DEF Kinds

(* Changing one value of a function keeps its type.                        *)
LEMMA Update ==
  ASSUME NEW S, NEW T, NEW f \in [S -> T], NEW x \in S, NEW y \in T
  PROVE  [f EXCEPT ![x] = y] \in [S -> T]
OBVIOUS

(* What a search does to the job it runs.                                  *)
LEMMA JobChanges ==
  ASSUME NEW f \in [Reqs -> JobRec], NEW j \in Reqs
  PROVE  /\ \A n \in Nat : [f EXCEPT ![j].runs = @ + n] \in [Reqs -> JobRec]
         /\ \A s \in Statuses : [f EXCEPT ![j].status = s] \in [Reqs -> JobRec]
<1>1. ASSUME NEW n \in Nat PROVE [f EXCEPT ![j].runs = @ + n] \in [Reqs -> JobRec]
  <2>1. f[j].runs + n \in Nat
    BY DEF JobRec
  <2> QED BY <2>1 DEF JobRec
<1>2. ASSUME NEW s \in Statuses PROVE [f EXCEPT ![j].status = s] \in [Reqs -> JobRec]
  BY DEF JobRec
<1> QED BY <1>1, <1>2

LEMMA TypedInit == Init => Typed
<1> SUFFICES ASSUME Init PROVE Typed
  OBVIOUS
<1> USE JobHandlerAssumption
<1>1. call \in Calls
  BY DEF Init
<1>2. TypeOK
  <2>1. pc \in [Threads -> PCs] /\ pick \in [Threads -> Kinds]
    BY DEF Init, PCs, Kinds
  <2>2. /\ cur \in [Threads -> Reqs \cup {NoJob}]
        /\ copy \in [Threads -> SUBSET Copies] /\ told \in [Threads -> SUBSET Reqs]
    BY DEF Init
  <2>3. [members |-> {}, status |-> "NONE", runs |-> 0, row |-> FALSE] \in JobRec
    BY DEF JobRec, Statuses
  <2>4. job \in [Reqs -> JobRec]
    BY <2>3 DEF Init
  <2>5. q \in [Kinds -> Seq(Reqs)] /\ size \in [Kinds -> Int] /\ tasks \in [Kinds -> Nat]
    BY DEF Init
  <2>6. hooked \in [Reqs -> {"no", "called", "skipped"}]
    BY DEF Init
  <2>7. /\ isWorking \in BOOLEAN /\ isAppReady \in BOOLEAN
        /\ phase = "boot" /\ esUp \in BOOLEAN /\ reloads \in Nat /\ published = {}
        /\ left \in BOOLEAN /\ cut = {} /\ late = {} /\ lost = {} /\ split = {}
    BY DEF Init
  <2> QED BY <1>1, <2>1, <2>2, <2>4, <2>5, <2>6, <2>7 DEF TypeOK, JobRec
<1>3. CurOK /\ LoaderOK /\ CopyOK
  BY DEF Init, CurOK, LoaderOK, CopyOK, Threads, Busy
<1> QED BY <1>2, <1>3 DEF Typed

(* The call of a request.                                                  *)
LEMMA CallTyped == ASSUME Typed, NEW r \in Reqs PROVE call[r] \in Call
BY JobHandlerAssumption DEF Typed, TypeOK

(* A step of a request thread keeps the types.                             *)
LEMMA TypedRequest ==
  ASSUME Typed, NEW r \in Reqs, RequestStep(r)
  PROVE  Typed'
<1> USE JobHandlerAssumption DEF Typed, TypeOK, CurOK, LoaderOK, CopyOK, Saving, Busy,
        Threads, PCs, Statuses, ownVars
<1>1. call[r].kind \in Kinds
  BY CallTyped DEF Call
<1>2. CASE LookUp(r)
  <2>1. PICK j \in Reqs : cur' = [cur EXCEPT ![r] = j]
    BY <1>2 DEF LookUp, Joinable
  <2> QED BY <1>2, <2>1 DEF LookUp, queueVars, flagVars, restVars, loadVars, outVars, histVars
<1>3. CASE LookUpBreaks(r) \/ LookUpFails(r) \/ SaveBreaks(r)
  <2>1. /\ pc' = [pc EXCEPT ![r] = "error"] /\ copy[r] = {}
        /\ UNCHANGED <<call, cur, pick, ownVars, job, queueVars, flagVars, restVars>>
    BY <1>3 DEF LookUpBreaks, LookUpFails, SaveBreaks
  <2> QED BY <2>1 DEF queueVars, flagVars, restVars, loadVars, outVars, histVars
<1>4. CASE Register(r)
  <2> DEFINE j == cur[r]
             s == IF j = r THEN "PENDING" ELSE job[j].status
  <2>1. job \in [Reqs -> JobRec] /\ j \in Reqs
    BY <1>4 DEF JobRec, Register
  <2>2. s \in Statuses
    BY <2>1 DEF JobRec
  <2>3. job' = [job EXCEPT ![j] = [members |-> job[j].members \cup {r}, status |-> s,
                                   runs |-> job[j].runs, row |-> job[j].row]]
    BY <1>4 DEF Register
  <2>4. job' \in [Reqs -> JobRec]
    <3> HIDE DEF Typed, TypeOK, j, s
    <3>1. [members |-> job[j].members \cup {r}, status |-> s,
           runs |-> job[j].runs, row |-> job[j].row] \in JobRec
      BY <2>1, <2>2 DEF JobRec
    <3> QED BY <2>1, <2>3, <3>1, Update
  <2>5. late' \in SUBSET Reqs
    BY <1>4 DEF Register, Joined
  <2> HIDE DEF j, s
  <2>6. /\ pc' = [pc EXCEPT ![r] = "save"] /\ pc[r] = "register"
        /\ UNCHANGED <<call, cur, pick, ownVars, queueVars, flagVars, loadVars, outVars,
                       left, cut, lost, split>>
    BY <1>4 DEF Register
  <2>7. pc' \in [Threads -> PCs] /\ CurOK' /\ LoaderOK' /\ CopyOK'
    BY <2>6
  <2> QED BY <2>4, <2>5, <2>6, <2>7 DEF JobRec, queueVars, flagVars, loadVars, outVars
<1>5. CASE Enqueue(r)
  <2>1. q' \in [Kinds -> Seq(Reqs)] /\ size' \in [Kinds -> Int]
    <3> DEFINE k == call[r].kind
    <3>1. cur[r] \in Reqs /\ k \in Kinds
      BY <1>1, <1>5 DEF Enqueue, Adding
    <3>2. Append(q[k], cur[r]) \in Seq(Reqs) /\ size[k] + 1 \in Int
      BY <3>1
    <3>3. /\ q' \in {q, [q EXCEPT ![k] = Append(@, cur[r])]}
          /\ size' \in {size, [size EXCEPT ![k] = @ + 1]}
      BY <1>5 DEF Enqueue, Add
    <3>4. [q EXCEPT ![k] = Append(@, cur[r])] \in [Kinds -> Seq(Reqs)]
      BY <3>1, <3>2, Update
    <3>5. [size EXCEPT ![k] = @ + 1] \in [Kinds -> Int]
      BY <3>1, <3>2, Update
    <3> HIDE DEF k
    <3> QED BY <3>3, <3>4, <3>5
  <2> QED BY <2>1, <1>5 DEF Enqueue, Adding, flagVars, restVars, loadVars, outVars, histVars
<1>6. CASE JoinQueued(r)
  BY <1>6 DEF JoinQueued, queueVars, flagVars, restVars, loadVars, outVars, histVars
<1>7. CASE RefuseSync(r)
  BY <1>7 DEF RefuseSync, queueVars, flagVars, restVars, loadVars, outVars, histVars
<1>8. CASE RunSync(r)
  <2>1. job \in [Reqs -> JobRec] /\ cur[r] \in Reqs
    BY <1>8 DEF JobRec, RunSync
  <2>2. job' \in [Reqs -> JobRec]
    BY <1>8, <2>1, JobChanges DEF RunSync, BeginSearch
  <2> QED BY <1>8, <2>2 DEF RunSync, BeginSearch, JobRec, queueVars, restVars, loadVars,
             outVars, histVars
<1> QED BY <1>2, <1>3, <1>4, <1>5, <1>6, <1>7, <1>8 DEF RequestStep

(* So does a pool thread that takes a task.                                *)
LEMMA TypedTake ==
  ASSUME Typed, TakeStep
  PROVE  Typed'
<1> USE JobHandlerAssumption DEF Typed, TypeOK, CurOK, LoaderOK, CopyOK, Saving, Busy,
        Threads, PCs, Statuses, loadVars, outVars, ownVars
<1>1. ASSUME NEW w \in Workers, NEW k \in Kinds, Take(w, k) PROVE Typed'
  <2>1. tasks[k] > 0 /\ tasks' = [tasks EXCEPT ![k] = @ - 1]
    BY <1>1 DEF Take
  <2>2. tasks' \in [Kinds -> Nat]
    <3>1. tasks[k] - 1 \in Nat
      BY <2>1
    <3> QED BY <2>1, <3>1
  <2>3. CASE q[k] = <<>>
    BY <1>1, <2>2, <2>3 DEF Take
  <2>4. CASE q[k] # <<>>
    <3>1. Head(q[k]) \in Reqs /\ Tail(q[k]) \in Seq(Reqs)
      BY <2>4
    <3>2. /\ q' = [q EXCEPT ![k] = Tail(@)] /\ size' = [size EXCEPT ![k] = @ - 1]
          /\ BeginSearch(Head(q[k]))
          /\ cur' = [cur EXCEPT ![w] = Head(q[k])]
          /\ pc' = [pc EXCEPT ![w] = "search"] /\ pc[w] = "idle"
          /\ UNCHANGED <<call, pick, copy, told, isAppReady, loadVars, outVars,
                         left, cut, late, lost, split>>
      BY <1>1, <2>4 DEF Take
    <3>3. q' \in [Kinds -> Seq(Reqs)] /\ size' \in [Kinds -> Int]
      <4>1. q \in [Kinds -> Seq(Reqs)] /\ size \in [Kinds -> Int] /\ size[k] - 1 \in Int
        OBVIOUS
      <4> HIDE DEF Typed, TypeOK
      <4> QED BY <3>1, <3>2, <4>1, Update
    <3>4. job' \in [Reqs -> JobRec]
      <4>1. job \in [Reqs -> JobRec]
        BY DEF JobRec
      <4>2. job' = [job EXCEPT ![Head(q[k])].runs = @ + 1]
        BY <3>2 DEF BeginSearch
      <4> HIDE DEF Typed, TypeOK
      <4> QED BY <3>1, <4>1, <4>2, JobChanges
    <3>5. isWorking' = TRUE
      BY <3>2 DEF BeginSearch
    <3>6. /\ cur' \in [Threads -> Reqs \cup {NoJob}]
          /\ pc' \in [Threads -> PCs] /\ CurOK' /\ LoaderOK' /\ CopyOK'
      BY <3>1, <3>2
    <3> QED BY <2>2, <3>2, <3>3, <3>4, <3>5, <3>6 DEF JobRec
  <2> QED BY <2>3, <2>4
<1>2. ASSUME NEW v \in Workers, NEW w \in Workers, NEW k \in Kinds, TakeTogether(v, w, k)
      PROVE  Typed'
  <2>1. Head(q[k]) \in Reqs /\ Tail(q[k]) \in Seq(Reqs) /\ <<>> \in Seq(Reqs)
    BY <1>2 DEF TakeTogether
  <2>2. tasks' \in [Kinds -> Nat]
    <3>1. tasks[k] > 1 /\ tasks' = [tasks EXCEPT ![k] = @ - 2]
      BY <1>2 DEF TakeTogether
    <3>2. tasks[k] - 2 \in Nat
      BY <3>1
    <3> QED BY <3>1, <3>2
  <2>3. q' \in [Kinds -> Seq(Reqs)] /\ size' \in [Kinds -> Int]
    <3>1. /\ q' \in {[q EXCEPT ![k] = Tail(@)], [q EXCEPT ![k] = <<>>]}
          /\ size' \in {[size EXCEPT ![k] = @ - d] : d \in {1, 2}}
      BY <1>2 DEF TakeTogether
    <3>2. \A d \in {1, 2} : size[k] - d \in Int
      OBVIOUS
    <3>3. q \in [Kinds -> Seq(Reqs)] /\ size \in [Kinds -> Int]
      OBVIOUS
    <3>4. /\ [q EXCEPT ![k] = Tail(@)] \in [Kinds -> Seq(Reqs)]
          /\ [q EXCEPT ![k] = <<>>] \in [Kinds -> Seq(Reqs)]
      BY <2>1, <3>3, Update
    <3>5. \A d \in {1, 2} : [size EXCEPT ![k] = @ - d] \in [Kinds -> Int]
      BY <3>2, <3>3, Update
    <3> HIDE DEF Typed, TypeOK
    <3> QED BY <3>1, <3>4, <3>5
  <2>4. PICK both \in BOOLEAN :
       LET j == Head(q[k])
           T == IF both THEN {v, w} ELSE {v}
       IN  /\ pc' = [t \in Threads |-> IF t \in T THEN "search" ELSE pc[t]]
           /\ cur' = [t \in Threads |-> IF t \in T THEN j ELSE cur[t]]
           /\ job' = [job EXCEPT ![j].runs = @ + (IF both THEN 2 ELSE 1)]
           /\ left' = (left \/ ~both)
    BY <1>2 DEF TakeTogether
  <2> DEFINE T == IF both THEN {v, w} ELSE {v}
             j == Head(q[k])
  <2>5. job' = [job EXCEPT ![j].runs = @ + (IF both THEN 2 ELSE 1)] /\ left' \in BOOLEAN
    BY <2>4
  <2>6. job' \in [Reqs -> JobRec]
    <3>1. job \in [Reqs -> JobRec] /\ (IF both THEN 2 ELSE 1) \in Nat
      BY DEF JobRec
    <3> HIDE DEF Typed, TypeOK
    <3> QED BY <2>1, <2>5, <3>1, JobChanges DEF j
  <2>7. \A t \in T : t \in Workers /\ pc[t] = "idle"
    <3>1. pc[v] = "idle" /\ pc[w] = "idle" /\ T \subseteq {v, w}
      BY <1>2 DEF TakeTogether
    <3> HIDE DEF Typed, TypeOK, T
    <3> QED BY <3>1
  <2>8. /\ pc' = [t \in Threads |-> IF t \in T THEN "search" ELSE pc[t]]
        /\ cur' = [t \in Threads |-> IF t \in T THEN j ELSE cur[t]]
    BY <2>4
  <2> HIDE DEF T, j
  <2>9. /\ UNCHANGED <<call, pick, copy, told, isAppReady, loadVars, outVars,
                       cut, late, lost, split>>
        /\ isWorking' = TRUE /\ j \in Reqs
    BY <1>2, <2>1 DEF TakeTogether, j
  <2>10. /\ pc' \in [Threads -> PCs] /\ cur' \in [Threads -> Reqs \cup {NoJob}]
         /\ CurOK' /\ LoaderOK' /\ CopyOK'
    <3>1. pc' \in [Threads -> PCs] /\ cur' \in [Threads -> Reqs \cup {NoJob}]
      BY <2>8, <2>9
    <3>2. Loader \notin T /\ copy' = copy
      BY <2>7, <2>9
    <3>3. \A t \in Threads : t \notin T => pc'[t] = pc[t] /\ cur'[t] = cur[t]
      BY <2>8
    <3>4. \A t \in Threads : t \in T => pc'[t] = "search" /\ cur'[t] = j
      BY <2>8
    <3>5. CurOK'
      BY <2>9, <3>3, <3>4
    <3>6. LoaderOK'
      BY <3>2, <3>3
    <3>7. CopyOK'
      BY <2>7, <3>2, <3>3
    <3> QED BY <3>1, <3>5, <3>6, <3>7
  <2> QED BY <2>2, <2>3, <2>5, <2>6, <2>9, <2>10 DEF JobRec
<1> QED BY <1>1, <1>2 DEF TakeStep

(* A thread that ends its search with nothing to copy back.                *)
LEMMA TypedEnd ==
  ASSUME Typed, NEW t \in Reqs \cup Workers, NEW p \in {"handle", "error"},
         EndSearch(t, p), \A u \in Threads : copy'[u] # {} => u # t /\ copy'[u] = copy[u]
  PROVE  /\ pc' \in [Threads -> PCs] /\ cur' \in [Threads -> Reqs \cup {NoJob}]
         /\ CurOK' /\ LoaderOK' /\ CopyOK'
BY JobHandlerAssumption DEF EndSearch, Typed, TypeOK, CurOK, LoaderOK, CopyOK, Saving, Busy,
   Threads, PCs

(* A thread in a search keeps the types, ...                               *)
LEMMA TypedSearch ==
  ASSUME Typed, NEW t \in Reqs \cup Workers, SearchStep(t)
  PROVE  Typed'
<1> USE JobHandlerAssumption DEF Typed, TypeOK, CurOK, LoaderOK, CopyOK, Saving, Busy,
        Threads, PCs, Statuses, ownVars, queueVars, flagVars, restVars, loadVars, outVars,
        histVars
<1>1. CASE Finish(t) \/ StoreThrows(t)
  <2>1. job \in [Reqs -> JobRec] /\ cur[t] \in Reqs
    BY <1>1 DEF JobRec, Finish, StoreThrows
  <2>2. PICK s \in Statuses, p \in {"store", "fail"} :
          job' = [job EXCEPT ![cur[t]].status = s] /\ pc' = [pc EXCEPT ![t] = p]
    BY <1>1 DEF Finish, StoreThrows
  <2>3. job' \in [Reqs -> JobRec]
    <3> HIDE DEF Typed, TypeOK
    <3> QED BY <2>1, <2>2, JobChanges
  <2>4. UNCHANGED <<call, cur, pick, ownVars, queueVars, flagVars, restVars>> /\ Running(t)
    BY <1>1 DEF Finish, StoreThrows, Running
  <2>5. pc' \in [Threads -> PCs] /\ CurOK' /\ LoaderOK'
    BY <2>1, <2>2, <2>4 DEF Running
  <2>6. CopyOK'
    BY <2>2, <2>4
  <2> QED BY <2>3, <2>4, <2>5, <2>6 DEF JobRec
<1>2. CASE FailThrows(t)
  <2>1. /\ cur[t] \in Reqs /\ copy[t] = {}
        /\ UNCHANGED <<call, pick, ownVars, job, queueVars, flagVars, loadVars, outVars,
                       late, lost, split>>
    BY <1>2 DEF FailThrows
  <2>2. /\ pc' \in [Threads -> PCs] /\ cur' \in [Threads -> Reqs \cup {NoJob}]
        /\ CurOK' /\ LoaderOK' /\ CopyOK'
    <3> HIDE DEF Typed, CurOK, LoaderOK, CopyOK, PCs
    <3> QED BY <1>2, <2>1, TypedEnd DEF FailThrows, Dies
  <2>3. left' \in BOOLEAN /\ cut' \in SUBSET Reqs
    BY <1>2, <2>1 DEF FailThrows, Dies
  <2> QED BY <2>1, <2>2, <2>3
<1>3. CASE Release(t)
  BY <1>3 DEF Release
<1> QED BY <1>1, <1>2, <1>3 DEF SearchStep

(* ... and so does one that saves its job, ...                             *)
LEMMA TypedSave ==
  ASSUME Typed, NEW t \in Reqs \cup Workers, SaveStep(t)
  PROVE  Typed'
<1> USE JobHandlerAssumption DEF Typed, TypeOK, CurOK, LoaderOK, CopyOK, Saving, Busy,
        Threads, PCs, Statuses, ownVars, queueVars, flagVars, restVars, loadVars, outVars,
        histVars
<1>1. CASE SaveDone(t)
  BY <1>1 DEF SaveDone, AfterSave
<1>2. CASE Merge(t)
  <2> DEFINE c == [members |-> job[cur[t]].members, status |-> job[cur[t]].status]
  <2>1. cur[t] \in Reqs /\ c \in Copies
    BY <1>2 DEF Merge, Copies
  <2>2. copy' = [copy EXCEPT ![t] = {c}] /\ split' \in SUBSET Reqs
    BY <1>2, <2>1 DEF Merge
  <2>3. copy' \in [Threads -> SUBSET Copies] /\ CopyOK'
    <3> HIDE DEF c
    <3> QED BY <1>2, <2>1, <2>2 DEF Merge
  <2>4. UNCHANGED <<call, pc, cur, pick, told, job, queueVars, flagVars, loadVars, outVars,
                    left, cut, late, lost>>
    BY <1>2 DEF Merge
  <2> HIDE DEF c
  <2> QED BY <2>2, <2>3, <2>4
<1>3. CASE CopyBack(t)
  <2>1. cur[t] \in Reqs /\ job \in [Reqs -> JobRec] /\ copy[t] \subseteq Copies
    BY <1>3 DEF CopyBack, JobRec
  <2>2. PICK c \in copy[t], row \in BOOLEAN :
          /\ job' = [job EXCEPT ![cur[t]] =
               [members |-> c.members, status |-> c.status, runs |-> @.runs, row |-> row]]
          /\ lost' = lost \cup (job[cur[t]].members \ c.members)
    BY <1>3 DEF CopyBack
  <2>3. job' \in [Reqs -> JobRec]
    <3> HIDE DEF Typed, TypeOK
    <3>1. [members |-> c.members, status |-> c.status, runs |-> job[cur[t]].runs,
           row |-> row] \in JobRec
      BY <2>1 DEF JobRec, Copies
    <3> QED BY <2>1, <2>2, <3>1, Update
  <2>4. lost' \in SUBSET Reqs
    BY <2>1, <2>2
  <2>5. /\ copy' = [copy EXCEPT ![t] = {}] /\ Saving(t)
        /\ UNCHANGED <<call, pick, told, queueVars, flagVars, loadVars, outVars, late, split>>
    BY <1>3 DEF CopyBack
  <2>6. CASE AfterSave(t) /\ UNCHANGED <<cur, left, cut>>
    <3>1. pc' \in [Threads -> PCs] /\ CurOK' /\ LoaderOK' /\ CopyOK'
      BY <2>5, <2>6 DEF AfterSave
    <3> QED BY <2>3, <2>4, <2>5, <2>6, <3>1 DEF JobRec
  <2>7. CASE Dies(t)
    <3>1. \A u \in Threads : copy'[u] # {} => u # t /\ copy'[u] = copy[u]
      BY <2>5
    <3>2. /\ pc' \in [Threads -> PCs] /\ cur' \in [Threads -> Reqs \cup {NoJob}]
          /\ CurOK' /\ LoaderOK' /\ CopyOK'
      <4> HIDE DEF Typed, CurOK, LoaderOK, CopyOK, PCs
      <4> QED BY <2>7, <3>1, TypedEnd DEF Dies
    <3>3. left' \in BOOLEAN /\ cut' \in SUBSET Reqs
      BY <2>1, <2>7 DEF Dies
    <3> QED BY <2>3, <2>4, <2>5, <3>2, <3>3 DEF JobRec
  <2> QED BY <1>3, <2>6, <2>7 DEF CopyBack
<1> QED BY <1>1, <1>2, <1>3 DEF SaveStep

(* ... and one that answers.                                               *)
LEMMA TypedAnswer ==
  ASSUME Typed, NEW t \in Reqs \cup Workers, AnswerStep(t)
  PROVE  Typed'
<1> USE JobHandlerAssumption DEF Typed, TypeOK, CurOK, LoaderOK, CopyOK, Saving, Busy,
        Threads, PCs, Statuses, ownVars, queueVars, flagVars, restVars, loadVars, outVars,
        histVars
<1>1. CASE BeginRound(t)
  <2>1. told' \in [Threads -> SUBSET Reqs]
    BY <1>1 DEF BeginRound, WebHooks, Members
  <2> QED BY <1>1, <2>1 DEF BeginRound
<1>2. ASSUME NEW r \in Reqs, Post(t, r) PROVE Typed'
  BY <1>2 DEF Post
<1>3. InRound(t) => cur[t] \in Reqs /\ copy[t] = {}
  BY DEF InRound
<1>4. ASSUME InRound(t), EndRound(t), copy' = copy
      PROVE  /\ pc' \in [Threads -> PCs] /\ cur' \in [Threads -> Reqs \cup {NoJob}]
             /\ CurOK' /\ LoaderOK' /\ CopyOK' /\ published' \in SUBSET Reqs
  <2>1. CASE pc[t] = "post" /\ Kind(t) = "class"
    BY <1>3, <1>4, <2>1 DEF EndRound
  <2>2. CASE ~(pc[t] = "post" /\ Kind(t) = "class")
    <3>1. EndSearch(t, "handle") /\ PropagueKafkaActions(cur[t])
      BY <1>4, <2>2 DEF EndRound
    <3>2. published' \in SUBSET Reqs
      BY <1>3, <1>4, <3>1 DEF PropagueKafkaActions
    <3> HIDE DEF Typed, CurOK, LoaderOK, CopyOK, PCs, TypeOK
    <3> QED BY <1>3, <1>4, <3>1, <3>2, TypedEnd
  <2> QED BY <2>1, <2>2
<1>5. CASE RoundDone(t)
  <2>1. /\ pc' \in [Threads -> PCs] /\ cur' \in [Threads -> Reqs \cup {NoJob}]
        /\ CurOK' /\ LoaderOK' /\ CopyOK' /\ published' \in SUBSET Reqs
    BY <1>4, <1>5 DEF RoundDone
  <2> QED BY <1>5, <2>1 DEF RoundDone
<1>6. CASE RoundBreaks(t)
  <2>1. /\ UNCHANGED <<call, pick, copy, job, queueVars, flagVars, loadVars, left, late, lost,
                       split>>
        /\ hooked' \in [Reqs -> {"no", "called", "skipped"}]
        /\ told' \in [Threads -> SUBSET Reqs] /\ InRound(t)
    BY <1>6 DEF RoundBreaks
  <2>2. CASE EndSearch(t, "error") /\ cut' = cut \cup {cur[t]} /\ UNCHANGED published
    <3>1. /\ pc' \in [Threads -> PCs] /\ cur' \in [Threads -> Reqs \cup {NoJob}]
          /\ CurOK' /\ LoaderOK' /\ CopyOK'
      <4> HIDE DEF Typed, CurOK, LoaderOK, CopyOK, PCs, TypeOK
      <4> QED BY <1>3, <2>1, <2>2, TypedEnd
    <3>2. cut' \in SUBSET Reqs
      BY <1>3, <2>1, <2>2
    <3> QED BY <2>1, <2>2, <3>1, <3>2
  <2>3. CASE EndRound(t) /\ UNCHANGED cut
    <3>1. /\ pc' \in [Threads -> PCs] /\ cur' \in [Threads -> Reqs \cup {NoJob}]
          /\ CurOK' /\ LoaderOK' /\ CopyOK' /\ published' \in SUBSET Reqs
      BY <1>4, <2>1, <2>3
    <3> QED BY <2>1, <2>3, <3>1
  <2> QED BY <1>6, <2>2, <2>3 DEF RoundBreaks
<1> QED BY <1>1, <1>2, <1>5, <1>6 DEF AnswerStep

(* So does a thread that serves the queues.                                *)
LEMMA TypedQueue ==
  ASSUME Typed, NEW t \in Threads, QueueStep(t)
  PROVE  Typed'
<1> USE JobHandlerAssumption DEF Typed, TypeOK, CurOK, LoaderOK, CopyOK, Saving, Busy,
        Threads, PCs, Statuses, ownVars, flagVars, restVars, loadVars, outVars, histVars
<1>1. CASE CheckQueue(t)
  <2>1. CASE CanStart
    <3>1. QueueToServe \in Kinds
      BY <2>1, ChosenQueue DEF CanStart
    <3>2. /\ pick' = [pick EXCEPT ![t] = QueueToServe]
          /\ pc' = [pc EXCEPT ![t] = IF @ = "wake" THEN "wakeStart" ELSE "start"]
          /\ UNCHANGED <<call, cur, ownVars, job, queueVars, flagVars, restVars>>
      BY <1>1, <2>1 DEF CheckQueue
    <3>3. pc' \in [Threads -> PCs] /\ CurOK' /\ LoaderOK' /\ CopyOK'
      BY <1>1, <3>2 DEF CheckQueue
    <3>4. pick' \in [Threads -> Kinds]
      BY <3>1, <3>2
    <3> QED BY <3>2, <3>3, <3>4 DEF queueVars
  <2>2. CASE ~CanStart
    <3>1. /\ pc' = [pc EXCEPT ![t] = AfterQueue(t)] /\ pc[t] \in {"wake", "handle"}
          /\ UNCHANGED <<call, cur, pick, ownVars, job, queueVars, flagVars, restVars>>
      BY <1>1, <2>2 DEF CheckQueue
    <3>2. pc' \in [Threads -> PCs] /\ CurOK' /\ LoaderOK' /\ CopyOK'
      BY <3>1 DEF AfterQueue
    <3> QED BY <3>1, <3>2 DEF queueVars
  <2> QED BY <2>1, <2>2
<1>2. CASE StartTask(t)
  <2>1. tasks[pick[t]] + 1 \in Nat
    OBVIOUS
  <2>2. tasks' \in [Kinds -> Nat]
    BY <1>2, <2>1 DEF StartTask
  <2>3. pc' \in [Threads -> PCs] /\ CurOK' /\ LoaderOK' /\ CopyOK'
    BY <1>2 DEF StartTask, AfterQueue
  <2>4. /\ isWorking' = TRUE
        /\ UNCHANGED <<call, cur, pick, ownVars, job, q, size, isAppReady, restVars>>
    BY <1>2 DEF StartTask
  <2> QED BY <2>2, <2>3, <2>4
<1> QED BY <1>1, <1>2 DEF QueueStep

(* So does the loader.                                                     *)
LEMMA TypedLoad ==
  ASSUME Typed, LoadStep
  PROVE  Typed'
<1> USE JobHandlerAssumption DEF Typed, TypeOK, CurOK, LoaderOK, CopyOK, Saving, Busy,
        Threads, PCs, Statuses, threadVars, ownVars, queueVars, flagVars, outVars, histVars
<1>1. CASE CachedDataIsReady BY <1>1 DEF CachedDataIsReady
<1>2. CASE RealDataIsReady BY <1>2 DEF RealDataIsReady
<1>3. CASE ElasticSearchIsReady BY <1>3 DEF ElasticSearchIsReady
<1>4. CASE LoadFails BY <1>4 DEF LoadFails
<1>5. CASE Reload
  <2>1. reloads' \in Nat
    BY <1>5 DEF Reload
  <2>2. pc' \in [Threads -> PCs] /\ CurOK' /\ LoaderOK' /\ CopyOK'
    BY <1>5 DEF Reload
  <2> QED BY <1>5, <2>1, <2>2 DEF Reload
<1> QED BY <1>1, <1>2, <1>3, <1>4, <1>5 DEF LoadStep

LEMMA TypedStutter == ASSUME Typed, UNCHANGED vars PROVE Typed'
  BY DEF Typed, TypeOK, CurOK, LoaderOK, CopyOK, Saving, vars, threadVars, ownVars, queueVars,
         flagVars, restVars, loadVars, outVars, histVars

LEMMA TypedNext == Typed /\ [Next]_vars => Typed'
  BY TypedRequest, TypedTake, TypedSearch, TypedSave, TypedAnswer, TypedQueue, TypedLoad,
     TypedStutter
  DEF Next

(* In every reachable state all variables have their types and every       *)
(* thread past its look-up works on a job.                                 *)
THEOREM TypeCorrect == Spec => []TypeOK
<1>1. Typed => TypeOK
  BY DEF Typed
<1> QED BY TypedInit, TypedNext, <1>1, PTL DEF Spec

(* The same with what the later proofs need: CurOK, LoaderOK and CopyOK.   *)
LEMMA TypedAlways == Spec => []Typed
  BY TypedInit, TypedNext, PTL DEF Spec

-----------------------------------------------------------------------------
(* No lost wake-up.  NoLostWakeup is inductive once it is known that the   *)
(* application stays ready after Elasticsearch has been filled.            *)
WakeInv == NoLostWakeup /\ (esUp => isAppReady)

(* A step that leaves the flags and the sizes alone, and keeps every       *)
(* thread that is going to look at the queues on its way, is harmless.     *)
LEMMA WakeHarmless ==
  ASSUME WakeInv, UNCHANGED <<isWorking, isAppReady, size, esUp>>,
         \A t \in Threads : WillLook(t) => WillLook(t)'
  PROVE  WakeInv'
<1>1. CanStart' <=> CanStart
  BY DEF CanStart, NonEmpty
<1> QED BY <1>1 DEF WakeInv, NoLostWakeup

(* So is one after which a search is marked as running.                    *)
LEMMA WakeWorking ==
  ASSUME WakeInv, isWorking', UNCHANGED <<isAppReady, esUp>>
  PROVE  WakeInv'
BY DEF WakeInv, NoLostWakeup, CanStart

(* So is one after which some thread is going to look.                     *)
LEMMA WakeLook ==
  ASSUME WakeInv, NEW t \in Threads, WillLook(t)', esUp' => isAppReady'
  PROVE  WakeInv'
BY DEF WakeInv, NoLostWakeup

LEMMA WakeRequest ==
  ASSUME Typed, WakeInv, NEW r \in Reqs, RequestStep(r)
  PROVE  WakeInv'
<1>1. pc \in [Threads -> PCs] /\ r \in Threads
  BY DEF Typed, TypeOK, Threads
<1>2. CASE \/ LookUp(r) \/ LookUpBreaks(r) \/ LookUpFails(r) \/ Register(r) \/ SaveBreaks(r)
           \/ JoinQueued(r) \/ RefuseSync(r)
  <2>1. ~WillLook(r) /\ UNCHANGED <<isWorking, isAppReady, size, esUp>>
    BY <1>2 DEF LookUp, LookUpBreaks, LookUpFails, Register, SaveBreaks, JoinQueued, RefuseSync,
       WillLook, queueVars, flagVars, restVars, loadVars
  <2>2. \A t \in Threads \ {r} : pc'[t] = pc[t]
    BY <1>1, <1>2
    DEF LookUp, LookUpBreaks, LookUpFails, Register, SaveBreaks, JoinQueued, RefuseSync
  <2> QED BY <2>1, <2>2, WakeHarmless DEF WillLook
<1>3. CASE Enqueue(r)
  <2>1. WillLook(r)' /\ UNCHANGED <<isAppReady, esUp>>
    BY <1>1, <1>3 DEF Enqueue, WillLook, flagVars, restVars, loadVars
  <2> QED BY <1>1, <2>1, WakeLook DEF WakeInv
<1>4. CASE RunSync(r)
  BY <1>4, WakeWorking DEF RunSync, BeginSearch, restVars, loadVars
<1> QED BY <1>2, <1>3, <1>4 DEF RequestStep

LEMMA WakeTake ==
  ASSUME Typed, WakeInv, TakeStep
  PROVE  WakeInv'
<1>1. isWorking' /\ UNCHANGED <<isAppReady, esUp>>
  BY DEF TakeStep, Take, TakeTogether, BeginSearch, loadVars
<1> QED BY <1>1, WakeWorking

LEMMA WakeSearch ==
  ASSUME Typed, WakeInv, NEW t \in Reqs \cup Workers,
         SaveStep(t) \/ SearchStep(t) \/ AnswerStep(t)
  PROVE  WakeInv'
<1>1. pc \in [Threads -> PCs] /\ t \in Threads
  BY DEF Typed, TypeOK, Threads
<1>2. CASE SaveStep(t) \/ Finish(t) \/ StoreThrows(t) \/ FailThrows(t) \/ AnswerStep(t)
  <2>1. ~WillLook(t) /\ UNCHANGED <<isWorking, isAppReady, size, esUp>>
    <3>1. CASE SaveStep(t)
      BY <1>1, <3>1 DEF SaveStep, SaveDone, Merge, CopyBack, Saving, Typed, CopyOK, WillLook,
         queueVars, flagVars, restVars, loadVars
    <3>2. CASE Finish(t) \/ StoreThrows(t) \/ FailThrows(t)
      BY <3>2 DEF Finish, StoreThrows, FailThrows, WillLook,
         queueVars, flagVars, restVars, loadVars
    <3>3. CASE AnswerStep(t)
      BY <3>3 DEF AnswerStep, BeginRound, Post, RoundDone, RoundBreaks, InRound, WillLook,
         queueVars, flagVars, restVars, loadVars
    <3> QED BY <1>2, <3>1, <3>2, <3>3
  <2>2. \A u \in Threads \ {t} : pc'[u] = pc[u]
    BY <1>1, <1>2
    DEF SaveStep, SaveDone, Merge, CopyBack, AfterSave, Finish, StoreThrows, FailThrows, Dies,
        AnswerStep, BeginRound, Post, RoundDone, RoundBreaks, EndRound, EndSearch
  <2> QED BY <2>1, <2>2, WakeHarmless DEF WillLook
<1>3. CASE Release(t)
  <2>1. WillLook(t)' /\ UNCHANGED <<isAppReady, esUp>>
    BY <1>1, <1>3 DEF Release, WillLook, loadVars
  <2> QED BY <1>1, <2>1, WakeLook DEF WakeInv
<1> QED BY <1>2, <1>3 DEF SearchStep

LEMMA WakeQueue ==
  ASSUME Typed, WakeInv, NEW t \in Threads, QueueStep(t)
  PROVE  WakeInv'
<1>1. pc \in [Threads -> PCs]
  BY DEF Typed, TypeOK
<1>2. CASE CheckQueue(t) /\ CanStart
  <2>1. WillLook(t)' /\ UNCHANGED <<isAppReady, esUp>>
    BY <1>1, <1>2 DEF CheckQueue, WillLook, flagVars, restVars, loadVars
  <2> QED BY <1>1, <2>1, WakeLook DEF WakeInv
<1>3. CASE CheckQueue(t) /\ ~CanStart
  <2>1. ~CanStart' /\ UNCHANGED <<isAppReady, esUp>>
    BY <1>3 DEF CheckQueue, CanStart, NonEmpty, queueVars, flagVars, restVars, loadVars
  <2> QED BY <2>1 DEF WakeInv, NoLostWakeup
<1>4. CASE StartTask(t)
  BY <1>4, WakeWorking DEF StartTask, restVars, loadVars
<1> QED BY <1>2, <1>3, <1>4 DEF QueueStep

LEMMA WakeLoad ==
  ASSUME Typed, WakeInv, LoadStep
  PROVE  WakeInv'
<1>1. pc \in [Threads -> PCs] /\ Loader \in Threads
  BY DEF Typed, TypeOK, Threads
<1>2. CASE CachedDataIsReady \/ RealDataIsReady
  <2>1. isAppReady' = TRUE /\ UNCHANGED <<isWorking, size, esUp, pc>>
    BY <1>2 DEF CachedDataIsReady, RealDataIsReady, threadVars, queueVars
  <2> QED BY <2>1 DEF WakeInv, NoLostWakeup, CanStart, NonEmpty, WillLook
<1>3. CASE ElasticSearchIsReady
  <2>1. WillLook(Loader)' /\ isAppReady' = TRUE
    BY <1>1, <1>3 DEF ElasticSearchIsReady, WillLook
  <2> QED BY <1>1, <2>1, WakeLook
<1>4. CASE LoadFails \/ Reload
  <2>1. ~WillLook(Loader) /\ UNCHANGED <<isWorking, isAppReady, size, esUp>>
    BY <1>4 DEF LoadFails, Reload, WillLook, queueVars, flagVars
  <2>2. \A t \in Threads \ {Loader} : pc'[t] = pc[t]
    BY <1>1, <1>4 DEF LoadFails, Reload
  <2> QED BY <2>1, <2>2, WakeHarmless DEF WillLook
<1> QED BY <1>2, <1>3, <1>4 DEF LoadStep

LEMMA WakeNext == Typed /\ WakeInv /\ [Next]_vars => WakeInv'
<1> SUFFICES ASSUME Typed, WakeInv, [Next]_vars PROVE WakeInv'
  OBVIOUS
<1>1. CASE UNCHANGED vars
  <2>1. UNCHANGED <<isWorking, isAppReady, size, esUp, pc>>
    BY <1>1 DEF vars, threadVars, queueVars, flagVars, restVars, loadVars
  <2> QED BY <2>1, WakeHarmless DEF WillLook
<1>2. CASE Next
  BY <1>2, WakeRequest, WakeTake, WakeSearch, WakeQueue, WakeLoad DEF Next
<1> QED BY <1>1, <1>2

(* handleQueueFindSimilarities loses no wake-up: for all requests, threads *)
(* and interleavings, synchronous requests, failing saves and web hooks,   *)
(* reloads and unsynchronised collections included.                        *)
THEOREM WakeupIsKept == Spec => []NoLostWakeup
<1>1. Init => WakeInv
  BY DEF Init, WakeInv, NoLostWakeup
<1>2. WakeInv => NoLostWakeup
  BY DEF WakeInv
<1> QED BY TypedAlways, <1>1, <1>2, WakeNext, PTL DEF Spec

-----------------------------------------------------------------------------
(* What isWorking stands for.  WorkingIsTrue is inductive: only the end of *)
(* a search takes a thread out of Running, and it resets the flag or dies; *)
(* only a poll takes a task away, and it searches or sets left.            *)
LEMMA WorkingNext ==
  ASSUME Typed, WorkingIsTrue, Next
  PROVE  WorkingIsTrue'
<1> USE JobHandlerAssumption
<1>1. /\ pc \in [Threads -> PCs] /\ tasks \in [Kinds -> Nat] /\ pick \in [Threads -> Kinds]
      /\ \A t \in Reqs \cup Workers : t \in Threads
  BY DEF Typed, TypeOK, Threads
(* Nothing of it changes.                                                  *)
<1>2. ASSUME UNCHANGED <<isWorking, left, tasks>>,
             \A t \in Threads : Running(t) => Running(t)'
      PROVE  WorkingIsTrue'
  BY <1>2 DEF WorkingIsTrue
<1>3. ASSUME NEW t \in Threads, Running(t)' PROVE WorkingIsTrue'
  BY <1>3 DEF WorkingIsTrue
<1>4. ASSUME NEW r \in Reqs, RequestStep(r) PROVE WorkingIsTrue'
  <2>1. CASE RunSync(r)
    <3>1. Running(r)'
      BY <1>1, <2>1 DEF RunSync, Running
    <3> QED BY <1>1, <1>3, <3>1
  <2>2. CASE ~RunSync(r)
    <3>1. /\ UNCHANGED <<isWorking, left, tasks>> /\ ~Running(r)
          /\ \A t \in Threads \ {r} : pc'[t] = pc[t]
      BY <1>1, <1>4, <2>2
      DEF RequestStep, LookUp, LookUpBreaks, LookUpFails, Register, SaveBreaks, Enqueue, Adding,
          JoinQueued, RefuseSync, Running, queueVars, flagVars, restVars, histVars
    <3> QED BY <1>2, <3>1 DEF Running
  <2> QED BY <2>1, <2>2
<1>5. ASSUME NEW w \in Workers, NEW k \in Kinds, Take(w, k) PROVE WorkingIsTrue'
  <2>1. CASE q[k] = <<>>
    BY <1>5, <2>1 DEF Take, WorkingIsTrue
  <2>2. CASE q[k] # <<>>
    <3>1. Running(w)'
      BY <1>1, <1>5, <2>2 DEF Take, Running
    <3> QED BY <1>1, <1>3, <3>1
  <2> QED BY <2>1, <2>2
<1>6. ASSUME NEW v \in Workers, NEW w \in Workers, NEW k \in Kinds, TakeTogether(v, w, k)
      PROVE  WorkingIsTrue'
  <2>1. PICK both \in BOOLEAN :
          pc' = [t \in Threads |-> IF t \in (IF both THEN {v, w} ELSE {v}) THEN "search" ELSE pc[t]]
    BY <1>6 DEF TakeTogether
  <2>2. Running(v)'
    BY <1>1, <2>1 DEF Running
  <2> QED BY <1>1, <1>3, <2>2
<1>7. ASSUME NEW t \in Reqs \cup Workers, SaveStep(t) \/ SearchStep(t) \/ AnswerStep(t)
      PROVE  WorkingIsTrue'
  <2>1. CASE Finish(t) \/ StoreThrows(t)
    <3>1. Running(t)'
      BY <1>1, <2>1 DEF Finish, StoreThrows, Running
    <3> QED BY <1>1, <1>3, <3>1
  <2>2. CASE FailThrows(t) \/ (CopyBack(t) /\ Dies(t)) \/ Release(t)
    BY <2>2 DEF FailThrows, Dies, Release, WorkingIsTrue
  <2>3. CASE \/ SaveDone(t) \/ Merge(t) \/ AnswerStep(t)
             \/ (CopyBack(t) /\ AfterSave(t) /\ UNCHANGED left)
    <3>1. UNCHANGED <<isWorking, left, tasks>>
      BY <2>3
      DEF SaveDone, Merge, CopyBack, AnswerStep, BeginRound, Post, RoundDone, RoundBreaks,
          queueVars, flagVars, restVars, histVars
    <3>2. \A u \in Threads \ {t} : pc'[u] = pc[u]
      BY <1>1, <2>3
      DEF SaveDone, Merge, AfterSave, AnswerStep, BeginRound, Post, RoundDone, RoundBreaks,
          EndRound, EndSearch
    <3>3. Running(t) => Running(t)'
      BY <1>1, <2>3
      DEF SaveDone, Merge, AfterSave, AnswerStep, BeginRound, Post, RoundDone, RoundBreaks,
          InRound, Running
    <3> QED BY <1>2, <3>1, <3>2, <3>3 DEF Running
  <2> QED BY <1>7, <2>1, <2>2, <2>3 DEF SaveStep, CopyBack, SearchStep
<1>8. ASSUME NEW t \in Threads, QueueStep(t) PROVE WorkingIsTrue'
  <2>1. CASE CheckQueue(t)
    <3>1. /\ UNCHANGED <<isWorking, left, tasks>> /\ ~Running(t)
          /\ \A u \in Threads \ {t} : pc'[u] = pc[u]
      BY <1>1, <2>1 DEF CheckQueue, Running, queueVars, flagVars, restVars, histVars
    <3> QED BY <1>2, <3>1 DEF Running
  <2>2. CASE StartTask(t)
    <3>1. tasks'[pick[t]] > 0 /\ pick[t] \in Kinds
      BY <1>1, <1>8, <2>2 DEF StartTask
    <3> QED BY <3>1 DEF WorkingIsTrue
  <2> QED BY <1>8, <2>1, <2>2 DEF QueueStep
<1>9. CASE LoadStep
  <2>1. /\ UNCHANGED <<isWorking, left, tasks>> /\ ~Running(Loader)
        /\ \A u \in Threads \ {Loader} : pc'[u] = pc[u]
    BY <1>1, <1>9
    DEF LoadStep, CachedDataIsReady, RealDataIsReady, ElasticSearchIsReady, LoadFails, Reload,
        Running, threadVars, queueVars, flagVars, histVars
  <2> QED BY <1>2, <2>1 DEF Running
<1> QED BY <1>4, <1>5, <1>6, <1>7, <1>8, <1>9 DEF Next, TakeStep

(* Whatever the threads do: isWorking is set only while a search runs or a *)
(* task waits, or after a search has ended without resetting it.           *)
THEOREM WorkingIsKept == Spec => []WorkingIsTrue
<1>1. Init => WorkingIsTrue
  BY DEF Init, WorkingIsTrue
<1>2. Typed /\ WorkingIsTrue /\ [Next]_vars => WorkingIsTrue'
  <2>1. WorkingIsTrue /\ UNCHANGED vars => WorkingIsTrue'
    BY DEF vars, threadVars, queueVars, flagVars, restVars, histVars, WorkingIsTrue, Running
  <2> QED BY <2>1, WorkingNext
<1> QED BY TypedAlways, <1>1, <1>2, PTL DEF Spec

-----------------------------------------------------------------------------
(* The answers, whatever the threads do.  A request of a job that has an   *)
(* outcome is owed its answers, and one that would be a request of the job *)
(* again if a copy put the outcome back; until a thread that will answer   *)
(* all requests of the job has done so.                                    *)
Owed(j) ==
  {r \in Reqs \ (late \cup lost) :
     \/ job[j].status \in Final /\ r \in Members(j)
     \/ \E t \in Threads : /\ cur[t] = j
                           /\ \E c \in copy[t] : c.status \in Final /\ r \in c.members}
WillPost(j, r) ==
  \E t \in Threads : cur[t] = j /\ (RoundAhead(t) \/ (InRound(t) /\ r \in told[t]))
WillEnd(j) == \E t \in Threads : cur[t] = j /\ (RoundAhead(t) \/ InRound(t))
AnswersInv ==
  \A j \in Reqs \ cut : \A r \in Owed(j) :
    /\ call[r].hook = "none" \/ hooked[r] # "no" \/ WillPost(j, r)
    /\ call[r].kafka => call[j].kind = "instance" \/ j \in published \/ WillEnd(j)
CopiesOK ==
  \A t \in Threads : \A c \in copy[t] : c.members \subseteq Members(cur[t]) \cup lost

(* Thread t remains as far from the end of its rounds as it is.            *)
GoesOn(t) ==
  /\ cur'[t] = cur[t]
  /\ RoundAhead(t) => RoundAhead(t)'
  /\ InRound(t) => InRound(t)' /\ told'[t] = told[t]

(* A step that answers nobody keeps AnswersInv when all threads go on, or  *)
(* die, and every request that it makes owed has a round ahead.            *)
LEMMA AnswersKept ==
  ASSUME AnswersInv, UNCHANGED <<call, hooked, published>>, cut \subseteq cut',
         \A t \in Threads :
           (RoundAhead(t) \/ InRound(t)) /\ cur[t] \in Reqs \ cut' => GoesOn(t),
         \A j \in Reqs \ cut' : \A r \in Owed(j)' :
           r \in Owed(j) \/ \E t \in Threads : cur'[t] = j /\ RoundAhead(t)'
  PROVE  AnswersInv'
<1> SUFFICES ASSUME NEW j \in Reqs \ cut', NEW r \in Owed(j)'
             PROVE  /\ call'[r].hook = "none" \/ hooked'[r] # "no" \/ WillPost(j, r)'
                    /\ call'[r].kafka =>
                         call'[j].kind = "instance" \/ j \in published' \/ WillEnd(j)'
  BY DEF AnswersInv
<1>1. CASE \E t \in Threads : cur'[t] = j /\ RoundAhead(t)'
  BY <1>1 DEF WillPost, WillEnd
<1>2. CASE r \in Owed(j)
  <2>1. WillPost(j, r) => WillPost(j, r)'
    BY DEF WillPost, GoesOn
  <2>2. WillEnd(j) => WillEnd(j)'
    BY DEF WillEnd, GoesOn
  <2> QED BY <1>2, <2>1, <2>2 DEF AnswersInv
<1> QED BY <1>1, <1>2

(* Nobody is owed more when jobs and copies stay, ...                      *)
LEMMA OwedSame ==
  ASSUME \A j \in Reqs : /\ Members(j)' = Members(j)
                        /\ job'[j].status = job[j].status,
         \A t \in Threads : copy'[t] = copy[t] /\ (copy[t] # {} => cur'[t] = cur[t]),
         late \subseteq late', lost \subseteq lost'
  PROVE  \A j \in Reqs : Owed(j)' \subseteq Owed(j)
BY DEF Owed

(* ... and all threads go on when but one has changed that answers nobody. *)
LEMMA OthersGoOn ==
  ASSUME Typed, NEW t \in Threads, call' = call,
         \A u \in Threads \ {t} : pc'[u] = pc[u] /\ cur'[u] = cur[u] /\ told'[u] = told[u]
  PROVE  \A u \in Threads \ {t} : GoesOn(u)
BY DEF GoesOn, RoundAhead, InRound, Running, Kind

LEMMA AnswersRequest ==
  ASSUME Typed, AnswersInv, NEW r \in Reqs, RequestStep(r)
  PROVE  AnswersInv'
<1> USE JobHandlerAssumption
<1>1. /\ pc \in [Threads -> PCs] /\ cur \in [Threads -> Reqs \cup {NoJob}]
      /\ r \in Threads /\ job \in [Reqs -> JobRec]
  BY DEF Typed, TypeOK, Threads, JobRec
<1>2. /\ UNCHANGED <<call, hooked, published, cut, copy, told, lost>>
      /\ \A u \in Threads \ {r} : pc'[u] = pc[u] /\ cur'[u] = cur[u]
  BY <1>1 DEF RequestStep, LookUp, LookUpBreaks, LookUpFails, Register, SaveBreaks, Enqueue,
     JoinQueued, RefuseSync, RunSync, ownVars, restVars, outVars, histVars
<1>3. ~RoundAhead(r) /\ ~InRound(r)
  BY DEF RequestStep, LookUp, LookUpBreaks, LookUpFails, Register, SaveBreaks, Enqueue, Adding,
     JoinQueued, RefuseSync, RunSync, RoundAhead, InRound, Running
<1>4. \A t \in Threads : RoundAhead(t) \/ InRound(t) => GoesOn(t)
  BY <1>2, <1>3, <1>1, OthersGoOn
<1>5. CASE ~Register(r)
  <2>1. \A j \in Reqs : Members(j)' = Members(j) /\ job'[j].status = job[j].status
    BY <1>1, <1>5 DEF RequestStep, LookUp, LookUpBreaks, LookUpFails, SaveBreaks, Enqueue,
       JoinQueued, RefuseSync, RunSync, BeginSearch, Members, JobRec
  <2>2. late' = late /\ (copy[r] # {} => cur'[r] = cur[r])
    BY <1>5 DEF RequestStep, LookUp, LookUpBreaks, LookUpFails, SaveBreaks, Enqueue, Typed,
       CopyOK, Saving, JoinQueued, RefuseSync, RunSync, restVars, histVars, Threads
  <2>3. \A j \in Reqs : Owed(j)' \subseteq Owed(j)
    BY <1>2, <2>1, <2>2, OwedSame
  <2> QED BY <1>2, <1>4, <2>3, AnswersKept
<1>6. CASE Register(r)
  <2> DEFINE j == cur[r]
  <2>1. /\ j \in Reqs /\ cur' = cur
        /\ job' = [job EXCEPT ![j] =
             [members |-> @.members \cup {r}, status |-> IF j = r THEN "PENDING" ELSE @.status,
              runs |-> @.runs, row |-> @.row]]
    BY <1>1, <1>6 DEF Register, Typed, CurOK, Busy
  <2>2. late' = IF job[j].status \in Final /\ ~Answering(j) THEN late \cup {r} ELSE late
    BY <1>6 DEF Register, Joined
  <2>3. \A i \in Reqs : /\ job'[i].status \in Final => job[i].status \in Final
                        /\ Members(i)' = IF i = j THEN Members(i) \cup {r} ELSE Members(i)
    BY <1>1, <2>1 DEF Final, Members, JobRec
  <2> HIDE DEF j
  <2>4. \A i \in Reqs : \A x \in Owed(i)' : x \in Owed(i) \/ (x = r /\ i = j /\ Answering(j))
    BY <1>2, <2>1, <2>2, <2>3 DEF Owed
  <2>5. Answering(j) => \E t \in Threads : cur'[t] = j /\ RoundAhead(t)'
    BY <1>4, <2>1 DEF Answering, GoesOn
  <2> QED BY <1>2, <1>4, <2>4, <2>5, AnswersKept
<1> QED BY <1>5, <1>6

(* A poll changes nothing of a job but how often it was searched, and only *)
(* idle threads.                                                           *)
LEMMA TakeChanges ==
  ASSUME Typed, TakeStep
  PROVE  /\ \A j \in Reqs : Members(j)' = Members(j) /\ job'[j].status = job[j].status
         /\ \A t \in Threads : pc[t] # "idle" => pc'[t] = pc[t] /\ cur'[t] = cur[t]
<1>1. /\ pc \in [Threads -> PCs] /\ cur \in [Threads -> Reqs \cup {NoJob}]
      /\ job \in [Reqs -> JobRec]
  BY DEF Typed, TypeOK, JobRec
<1>2. \A j \in Reqs : Members(j)' = Members(j) /\ job'[j].status = job[j].status
  <2>1. ASSUME NEW i, NEW n, job' = [job EXCEPT ![i].runs = n]
        PROVE  \A j \in Reqs : Members(j)' = Members(j) /\ job'[j].status = job[j].status
    BY <1>1, <2>1 DEF Members, JobRec
  <2>2. ASSUME NEW w \in Workers, NEW k \in Kinds, Take(w, k)
        PROVE  \A j \in Reqs : Members(j)' = Members(j) /\ job'[j].status = job[j].status
    <3>1. job' = job \/ \E i, n : job' = [job EXCEPT ![i].runs = n]
      BY <2>2 DEF Take, BeginSearch
    <3> QED BY <2>1, <3>1 DEF Members
  <2>3. ASSUME NEW v \in Workers, NEW w \in Workers, NEW k \in Kinds, TakeTogether(v, w, k)
        PROVE  \A j \in Reqs : Members(j)' = Members(j) /\ job'[j].status = job[j].status
    <3>1. \E i, n : job' = [job EXCEPT ![i].runs = n]
      BY <2>3 DEF TakeTogether
    <3> QED BY <2>1, <3>1
  <2> QED BY <2>2, <2>3 DEF TakeStep
<1>3. \A t \in Threads : pc[t] # "idle" => pc'[t] = pc[t] /\ cur'[t] = cur[t]
  <2>1. ASSUME NEW w \in Workers, NEW k \in Kinds, Take(w, k), NEW t \in Threads, pc[t] # "idle"
        PROVE  pc'[t] = pc[t] /\ cur'[t] = cur[t]
    BY <1>1, <2>1 DEF Take
  <2>2. ASSUME NEW v \in Workers, NEW w \in Workers, NEW k \in Kinds, TakeTogether(v, w, k),
               NEW t \in Threads, pc[t] # "idle"
        PROVE  pc'[t] = pc[t] /\ cur'[t] = cur[t]
    <3>1. PICK both \in BOOLEAN :
            /\ pc' = [u \in Threads |-> IF u \in (IF both THEN {v, w} ELSE {v})
                                         THEN "search" ELSE pc[u]]
            /\ cur' = [u \in Threads |-> IF u \in (IF both THEN {v, w} ELSE {v})
                                          THEN Head(q[k]) ELSE cur[u]]
      BY <2>2 DEF TakeTogether
    <3>2. t # v /\ t # w
      BY <2>2 DEF TakeTogether
    <3> QED BY <3>1, <3>2
  <2> QED BY <2>1, <2>2 DEF TakeStep
<1> QED BY <1>2, <1>3

LEMMA AnswersTake ==
  ASSUME Typed, AnswersInv, TakeStep
  PROVE  AnswersInv'
<1>1. UNCHANGED <<call, hooked, published, cut, copy, told, late, lost>>
  BY DEF TakeStep, Take, TakeTogether, ownVars, outVars
<1>2. \A t \in Threads : RoundAhead(t) \/ InRound(t) => GoesOn(t)
  BY <1>1, TakeChanges DEF GoesOn, RoundAhead, InRound, Running, Kind
<1>3. \A t \in Threads : copy[t] # {} => cur'[t] = cur[t]
  BY TakeChanges DEF Typed, CopyOK, Saving
<1>4. \A j \in Reqs : Owed(j)' \subseteq Owed(j)
  BY <1>1, <1>3, TakeChanges, OwedSame
<1> QED BY <1>1, <1>2, <1>4, AnswersKept

LEMMA AnswersSearch ==
  ASSUME Typed, AnswersInv, NEW t \in Reqs \cup Workers, SearchStep(t)
  PROVE  AnswersInv'
<1> USE JobHandlerAssumption
<1>1. /\ pc \in [Threads -> PCs] /\ cur \in [Threads -> Reqs \cup {NoJob}]
      /\ t \in Threads /\ job \in [Reqs -> JobRec] /\ cut \subseteq Reqs
  BY DEF Typed, TypeOK, Threads, JobRec
<1>2. /\ UNCHANGED <<call, hooked, published, copy, told, late, lost>>
      /\ \A u \in Threads \ {t} : pc'[u] = pc[u] /\ cur'[u] = cur[u]
      /\ Running(t) /\ cur[t] \in Reqs
  BY <1>1 DEF SearchStep, Finish, StoreThrows, FailThrows, Dies, EndSearch, Release, Running,
     Typed, CurOK, LoaderOK, Busy, ownVars, restVars, outVars, histVars
<1>3. \A u \in Threads \ {t} : GoesOn(u)
  BY <1>1, <1>2, OthersGoOn
<1>4. CASE Finish(t) \/ StoreThrows(t)
  <2>1. /\ cut' = cut /\ cur' = cur /\ pc'[t] \in {"store", "fail"}
        /\ \E s : job' = [job EXCEPT ![cur[t]].status = s]
    BY <1>1, <1>4 DEF Finish, StoreThrows, restVars, histVars
  <2>2. RoundAhead(t)' /\ GoesOn(t)
    BY <1>2, <2>1 DEF RoundAhead, Running, GoesOn, InRound
  <2>3. \A j \in Reqs : /\ Members(j)' = Members(j)
                        /\ j # cur[t] => job'[j].status = job[j].status
    BY <1>1, <2>1 DEF Members, JobRec
  <2>4. \A j \in Reqs : \A r \in Owed(j)' : r \in Owed(j) \/ cur'[t] = j
    BY <1>2, <2>1, <2>3 DEF Owed
  <2> QED BY <1>1, <1>2, <1>3, <2>1, <2>2, <2>4, AnswersKept
<1>5. CASE FailThrows(t)
  <2>1. cut' = cut \cup {cur[t]} /\ job' = job /\ copy[t] = {}
    BY <1>5 DEF FailThrows, Dies
  <2>2. \A j \in Reqs : Owed(j)' \subseteq Owed(j)
    BY <1>2, <2>1, OwedSame DEF Members
  <2> QED BY <1>2, <1>3, <2>1, <2>2, AnswersKept
<1>6. CASE Release(t)
  <2>1. cut' = cut /\ cur' = cur /\ pc'[t] = "wake" /\ job' = job
    BY <1>1, <1>6 DEF Release
  <2>2. GoesOn(t)
    BY <1>2, <2>1 DEF RoundAhead, Running, GoesOn, InRound
  <2>3. \A j \in Reqs : Owed(j)' \subseteq Owed(j)
    BY <1>2, <2>1, OwedSame DEF Members
  <2> QED BY <1>2, <1>3, <2>1, <2>2, <2>3, AnswersKept
<1> QED BY <1>4, <1>5, <1>6 DEF SearchStep

LEMMA AnswersSave ==
  ASSUME Typed, AnswersInv, NEW t \in Reqs \cup Workers, SaveStep(t)
  PROVE  AnswersInv'
<1> USE JobHandlerAssumption
<1>1. /\ pc \in [Threads -> PCs] /\ cur \in [Threads -> Reqs \cup {NoJob}]
      /\ copy \in [Threads -> SUBSET Copies]
      /\ t \in Threads /\ job \in [Reqs -> JobRec] /\ cut \subseteq Reqs
  BY DEF Typed, TypeOK, Threads, JobRec
<1>2. /\ UNCHANGED <<call, hooked, published, told, late>>
      /\ \A u \in Threads \ {t} : pc'[u] = pc[u] /\ cur'[u] = cur[u] /\ copy'[u] = copy[u]
      /\ Saving(t) /\ cur[t] \in Reqs
  BY <1>1 DEF SaveStep, SaveDone, Merge, CopyBack, AfterSave, Dies, EndSearch, Saving,
     Typed, CopyOK, CurOK, LoaderOK, Busy, ownVars, restVars, outVars, histVars
<1>3. \A u \in Threads \ {t} : GoesOn(u)
  BY <1>1, <1>2, OthersGoOn
<1>4. ASSUME AfterSave(t) \/ pc' = pc, cur' = cur PROVE GoesOn(t)
  BY <1>1, <1>2, <1>4 DEF AfterSave, Saving, GoesOn, RoundAhead, InRound, Running, Kind
<1>5. CASE SaveDone(t)
  <2>1. UNCHANGED <<cut, cur, job, copy, lost>> /\ AfterSave(t)
    BY <1>5 DEF SaveDone, ownVars, restVars, histVars
  <2>2. \A j \in Reqs : Owed(j)' \subseteq Owed(j)
    BY <1>2, <2>1, OwedSame DEF Members
  <2> QED BY <1>2, <1>3, <1>4, <2>1, <2>2, AnswersKept
<1>6. CASE Merge(t)
  <2>1. /\ UNCHANGED <<cut, cur, job, pc, lost>>
        /\ copy'[t] = {[members |-> job[cur[t]].members, status |-> job[cur[t]].status]}
    BY <1>1, <1>6 DEF Merge
  <2>2. \A j \in Reqs : Owed(j)' \subseteq Owed(j)
    BY <1>2, <2>1 DEF Owed, Members
  <2> QED BY <1>2, <1>3, <1>4, <2>1, <2>2, AnswersKept
<1>7. CASE CopyBack(t)
  <2>1. PICK c \in copy[t], row \in BOOLEAN :
          /\ job' = [job EXCEPT ![cur[t]] =
               [members |-> c.members, status |-> c.status, runs |-> @.runs, row |-> row]]
          /\ lost' = lost \cup (job[cur[t]].members \ c.members)
    BY <1>7 DEF CopyBack
  <2>2. copy'[t] = {}
    BY <1>1, <1>7 DEF CopyBack
  <2>3. \A j \in Reqs :
          /\ Members(j)' = IF j = cur[t] THEN c.members ELSE Members(j)
          /\ job'[j].status = IF j = cur[t] THEN c.status ELSE job[j].status
    BY <1>1, <2>1 DEF Members, JobRec
  <2>4. \A j \in Reqs : Owed(j)' \subseteq Owed(j)
    BY <1>1, <1>2, <2>1, <2>2, <2>3 DEF Owed
  <2>5. CASE AfterSave(t) /\ UNCHANGED <<cur, left, cut>>
    BY <1>2, <1>3, <1>4, <2>4, <2>5, AnswersKept
  <2>6. CASE Dies(t)
    <3>1. cut' = cut \cup {cur[t]}
      BY <2>6 DEF Dies
    <3> QED BY <1>2, <1>3, <2>4, <3>1, AnswersKept
  <2> QED BY <1>7, <2>5, <2>6 DEF CopyBack
<1> QED BY <1>5, <1>6, <1>7 DEF SaveStep

LEMMA AnswersQueue ==
  ASSUME Typed, AnswersInv, NEW t \in Threads, QueueStep(t)
  PROVE  AnswersInv'
<1>1. pc \in [Threads -> PCs]
  BY DEF Typed, TypeOK
<1>2. /\ UNCHANGED <<call, cur, hooked, published, copy, told, late, lost, cut, job>>
      /\ \A u \in Threads \ {t} : pc'[u] = pc[u]
  BY <1>1 DEF QueueStep, CheckQueue, StartTask, ownVars, restVars, outVars, histVars
<1>3. GoesOn(t)
  BY <1>1, <1>2 DEF QueueStep, CheckQueue, StartTask, AfterQueue, GoesOn, RoundAhead, InRound,
     Running, Kind
<1>4. \A u \in Threads \ {t} : GoesOn(u)
  BY <1>2, OthersGoOn
<1>5. \A j \in Reqs : Owed(j)' \subseteq Owed(j)
  BY <1>2, OwedSame DEF Members
<1> QED BY <1>2, <1>3, <1>4, <1>5, AnswersKept

LEMMA AnswersLoad ==
  ASSUME Typed, AnswersInv, LoadStep
  PROVE  AnswersInv'
<1>1. pc \in [Threads -> PCs] /\ Loader \in Threads
  BY DEF Typed, TypeOK, Threads
<1>2. /\ UNCHANGED <<call, cur, hooked, published, copy, told, late, lost, cut, job>>
      /\ \A u \in Threads \ {Loader} : pc'[u] = pc[u]
  BY <1>1 DEF LoadStep, CachedDataIsReady, RealDataIsReady, ElasticSearchIsReady, LoadFails, Reload,
     threadVars, ownVars, outVars, histVars
<1>3. ~RoundAhead(Loader) /\ ~InRound(Loader)
  BY DEF Typed, LoaderOK, RoundAhead, InRound, Running
<1>4. \A u \in Threads \ {Loader} : GoesOn(u)
  BY <1>1, <1>2, OthersGoOn
<1>5. \A j \in Reqs : Owed(j)' \subseteq Owed(j)
  BY <1>2, OwedSame DEF Members
<1> QED BY <1>2, <1>3, <1>4, <1>5, AnswersKept

(* A round of web hooks calls all that are there when it begins; the last  *)
(* one of a job publishes its actions.                                     *)
LEMMA AnswersRound ==
  ASSUME Typed, AnswersInv, CopiesOK, NEW t \in Reqs \cup Workers, AnswerStep(t)
  PROVE  AnswersInv'
<1> USE JobHandlerAssumption
<1>1. /\ pc \in [Threads -> PCs] /\ cur \in [Threads -> Reqs \cup {NoJob}]
      /\ told \in [Threads -> SUBSET Reqs] /\ hooked \in [Reqs -> {"no", "called", "skipped"}]
      /\ t \in Threads /\ cut \subseteq Reqs
  BY DEF Typed, TypeOK, Threads
<1>2. /\ UNCHANGED <<call, copy, job, late, lost>> /\ cut \subseteq cut'
      /\ cur[t] \in Reqs /\ copy[t] = {}
      /\ \A u \in Threads \ {t} : pc'[u] = pc[u] /\ cur'[u] = cur[u] /\ told'[u] = told[u]
  BY <1>1 DEF AnswerStep, BeginRound, Post, RoundDone, RoundBreaks, EndRound, EndSearch, InRound,
     Typed, CurOK, CopyOK, Saving, LoaderOK, Busy, ownVars, restVars, histVars
<1>3. \A u \in Threads \ {t} : GoesOn(u)
  BY <1>1, <1>2, OthersGoOn
<1>4. \A j \in Reqs : Owed(j)' \subseteq Owed(j)
  BY <1>2, OwedSame DEF Members
<1>5. \A j \in Reqs : \A r \in Owed(j) : r \in Members(j)
  BY DEF Owed, CopiesOK
<1>6. \A r \in Reqs : hooked[r] # "no" => hooked'[r] # "no"
  BY <1>1, <1>2 DEF AnswerStep, BeginRound, Post, RoundDone, RoundBreaks, restVars, outVars
<1>7. published \subseteq published'
  BY DEF AnswerStep, BeginRound, Post, RoundDone, RoundBreaks, EndRound, PropagueKafkaActions,
     restVars, outVars
<1> SUFFICES ASSUME NEW j \in Reqs \ cut', NEW r \in Owed(j)'
             PROVE  /\ call[r].hook = "none" \/ hooked'[r] # "no" \/ WillPost(j, r)'
                    /\ call[r].kafka =>
                         call[j].kind = "instance" \/ j \in published' \/ WillEnd(j)'
  BY <1>2 DEF AnswersInv
<1>8. /\ r \in Owed(j) /\ r \in Reqs /\ r \in Members(j)
      /\ call[r].hook = "none" \/ hooked[r] # "no" \/ WillPost(j, r)
      /\ call[r].kafka => call[j].kind = "instance" \/ j \in published \/ WillEnd(j)
  BY <1>2, <1>4, <1>5 DEF AnswersInv, Owed
(* Only the thread that takes the step can fail to go on.                  *)
<1>9. ASSUME /\ cur[t] = j /\ (RoundAhead(t) \/ (InRound(t) /\ r \in told[t])) =>
                call[r].hook = "none" \/ hooked'[r] # "no" \/ WillPost(j, r)'
             /\ cur[t] = j /\ (RoundAhead(t) \/ InRound(t)) /\ call[r].kafka =>
                call[j].kind = "instance" \/ j \in published' \/ WillEnd(j)'
      PROVE  /\ call[r].hook = "none" \/ hooked'[r] # "no" \/ WillPost(j, r)'
             /\ call[r].kafka =>
                  call[j].kind = "instance" \/ j \in published' \/ WillEnd(j)'
  <2>1. ASSUME NEW u \in Threads \ {t}, cur[u] = j, RoundAhead(u) \/ (InRound(u) /\ r \in told[u])
        PROVE  WillPost(j, r)'
    BY <1>3, <2>1 DEF GoesOn, WillPost
  <2>2. ASSUME NEW u \in Threads \ {t}, cur[u] = j, RoundAhead(u) \/ InRound(u)
        PROVE  WillEnd(j)'
    BY <1>3, <2>2 DEF GoesOn, WillEnd
  <2>3. WillPost(j, r) => call[r].hook = "none" \/ hooked'[r] # "no" \/ WillPost(j, r)'
    BY <1>9, <2>1 DEF WillPost
  <2>4. WillEnd(j) /\ call[r].kafka =>
          call[j].kind = "instance" \/ j \in published' \/ WillEnd(j)'
    BY <1>9, <2>2 DEF WillEnd
  <2> QED BY <1>6, <1>7, <1>8, <2>3, <2>4
<1> SUFFICES ASSUME cur[t] = j
             PROVE  /\ RoundAhead(t) \/ (InRound(t) /\ r \in told[t]) =>
                         call[r].hook = "none" \/ hooked'[r] # "no" \/ WillPost(j, r)'
                    /\ call[r].kafka =>
                         call[j].kind = "instance" \/ j \in published' \/ WillEnd(j)'
  BY <1>9
<1>10. CASE BeginRound(t)
  <2>1. cur'[t] = j /\ InRound(t)' /\ told'[t] = WebHooks(j)
    BY <1>1, <1>10 DEF BeginRound, InRound
  <2>2. call[r].hook = "none" \/ r \in told'[t]
    BY <1>8, <2>1 DEF WebHooks
  <2> QED BY <1>1, <2>1, <2>2 DEF WillPost, WillEnd
<1>11. ASSUME NEW x \in Reqs, Post(t, x)
       PROVE  /\ RoundAhead(t) \/ (InRound(t) /\ r \in told[t]) =>
                   call[r].hook = "none" \/ hooked'[r] # "no" \/ WillPost(j, r)'
              /\ call[r].kafka =>
                   call[j].kind = "instance" \/ j \in published' \/ WillEnd(j)'
  <2>1. /\ pc' = pc /\ cur' = cur /\ told'[t] = told[t] \ {x} /\ InRound(t)
        /\ hooked'[x] = "called"
    BY <1>1, <1>11 DEF Post
  <2>2. InRound(t)' /\ (RoundAhead(t) => RoundAhead(t)')
    BY <1>2, <2>1 DEF InRound, RoundAhead, Running, Kind
  <2> QED BY <1>1, <2>1, <2>2 DEF WillPost, WillEnd
<1>12. ASSUME InRound(t), EndRound(t),
              r \in told[t] => call[r].hook = "none" \/ hooked'[r] # "no"
       PROVE  /\ RoundAhead(t) \/ (InRound(t) /\ r \in told[t]) =>
                   call[r].hook = "none" \/ hooked'[r] # "no" \/ WillPost(j, r)'
              /\ call[r].kafka =>
                   call[j].kind = "instance" \/ j \in published' \/ WillEnd(j)'
  <2>1. CASE pc[t] = "post" /\ Kind(t) = "class"
    <3>1. RoundAhead(t)' /\ cur'[t] = j
      BY <1>1, <1>12, <2>1 DEF EndRound, RoundAhead
    <3> QED BY <1>1, <3>1 DEF WillPost, WillEnd
  <2>2. CASE ~(pc[t] = "post" /\ Kind(t) = "class")
    <3>1. ~RoundAhead(t)
      BY <1>12, <2>2 DEF InRound, RoundAhead, Running
    <3>2. PropagueKafkaActions(j)
      BY <1>12, <2>2 DEF EndRound
    <3>3. call[r].kafka /\ call[j].kind # "instance" => j \in published'
      BY <1>8, <3>2 DEF PropagueKafkaActions
    <3> QED BY <1>12, <3>1, <3>3
  <2> QED BY <2>1, <2>2
<1>13. CASE RoundDone(t)
  BY <1>12, <1>13 DEF RoundDone
<1>14. CASE RoundBreaks(t)
  <2>1. r \in told[t] => hooked'[r] # "no"
    BY <1>1, <1>8, <1>14 DEF RoundBreaks
  <2>2. EndRound(t)
    BY <1>14 DEF RoundBreaks
  <2> QED BY <1>12, <1>14, <2>1, <2>2 DEF RoundBreaks
<1> QED BY <1>10, <1>11, <1>13, <1>14 DEF AnswerStep

(* A copy holds no request that the job has not, but for those a copy has  *)
(* removed.                                                                *)
LEMMA CopiesNext ==
  ASSUME Typed, CopiesOK, [Next]_vars
  PROVE  CopiesOK'
<1> USE JobHandlerAssumption
<1>1. /\ pc \in [Threads -> PCs] /\ cur \in [Threads -> Reqs \cup {NoJob}]
      /\ copy \in [Threads -> SUBSET Copies]
      /\ job \in [Reqs -> JobRec] /\ Reqs \cup Workers \subseteq Threads
      /\ \A t \in Threads : copy[t] # {} => cur[t] \in Reqs
  BY DEF Typed, TypeOK, Threads, JobRec, CopyOK, CurOK, LoaderOK, Saving, Busy
<1>2. ASSUME copy' = copy, lost' = lost, \A t \in Threads : copy[t] # {} => cur'[t] = cur[t],
             \A j \in Reqs : Members(j) \subseteq Members(j)'
      PROVE  CopiesOK'
  BY <1>1, <1>2 DEF CopiesOK
<1>3. \A t \in Threads : copy[t] # {} => pc[t] \in {"save", "store", "fail"}
  BY DEF Typed, CopyOK, Saving
<1>4. ASSUME NEW r \in Reqs, RequestStep(r) PROVE CopiesOK'
  <2>1. copy' = copy /\ lost' = lost
    BY <1>4 DEF RequestStep, LookUp, LookUpBreaks, LookUpFails, Register, SaveBreaks, Enqueue,
       JoinQueued, RefuseSync, RunSync, ownVars, restVars, histVars
  <2>2. \A t \in Threads : copy[t] # {} => cur'[t] = cur[t]
    BY <1>1, <1>3, <1>4 DEF RequestStep, LookUp, LookUpBreaks, LookUpFails, Register, SaveBreaks,
       Enqueue, JoinQueued, RefuseSync, RunSync
  <2>3. \A j \in Reqs : Members(j) \subseteq Members(j)'
    <3>1. CASE Register(r)
      <4>1. job' = [job EXCEPT ![cur[r]] =
              [members |-> @.members \cup {r},
               status |-> IF cur[r] = r THEN "PENDING" ELSE @.status,
               runs |-> @.runs, row |-> @.row]]
        BY <3>1 DEF Register
      <4> QED BY <1>1, <4>1 DEF Members, JobRec
    <3>2. CASE ~Register(r)
      BY <1>1, <1>4, <3>2 DEF RequestStep, LookUp, LookUpBreaks, LookUpFails, SaveBreaks, Enqueue,
         JoinQueued, RefuseSync, RunSync, BeginSearch, Members, JobRec
    <3> QED BY <3>1, <3>2
  <2> QED BY <1>2, <2>1, <2>2, <2>3
<1>5. CASE TakeStep
  <2>1. copy' = copy /\ lost' = lost
    BY <1>5 DEF TakeStep, Take, TakeTogether, ownVars
  <2> QED BY <1>2, <1>3, <1>5, <2>1, TakeChanges
<1>6. ASSUME NEW t \in Reqs \cup Workers, SaveStep(t) PROVE CopiesOK'
  <2>1. CASE SaveDone(t)
    <3>1. UNCHANGED <<copy, lost, cur, job>>
      BY <2>1 DEF SaveDone, ownVars, restVars, histVars
    <3> QED BY <1>2, <3>1 DEF Members
  <2>2. CASE Merge(t)
    <3>1. /\ UNCHANGED <<lost, cur, job>>
          /\ copy' = [copy EXCEPT ![t] = {[members |-> Members(cur[t]), status |-> job[cur[t]].status]}]
      BY <2>2 DEF Merge, Members
    <3> QED BY <1>1, <3>1 DEF CopiesOK, Members
  <2>3. CASE CopyBack(t)
    <3>1. PICK c \in copy[t], row \in BOOLEAN :
            /\ job' = [job EXCEPT ![cur[t]] =
                 [members |-> c.members, status |-> c.status, runs |-> @.runs, row |-> row]]
            /\ lost' = lost \cup (job[cur[t]].members \ c.members)
      BY <2>3 DEF CopyBack
    <3>2. /\ copy' = [copy EXCEPT ![t] = {}]
          /\ \A u \in Threads \ {t} : cur'[u] = cur[u]
      BY <1>1, <2>3 DEF CopyBack, Dies, EndSearch
    <3>3. \A j \in Reqs : Members(j)' = IF j = cur[t] THEN c.members ELSE Members(j)
      BY <1>1, <3>1 DEF Members
    <3>4. \A j \in Reqs : Members(j) \subseteq Members(j)' \cup lost'
      BY <3>1, <3>3 DEF Members
    <3>5. lost \subseteq lost'
      BY <3>1
    <3> HIDE DEF Members
    <3> QED BY <1>1, <3>2, <3>4, <3>5 DEF CopiesOK
  <2> QED BY <1>6, <2>1, <2>2, <2>3 DEF SaveStep
<1>7. ASSUME NEW t \in Reqs \cup Workers, SearchStep(t) \/ AnswerStep(t) PROVE CopiesOK'
  <2>1. /\ UNCHANGED <<copy, lost>> /\ \A u \in Threads \ {t} : cur'[u] = cur[u]
    BY <1>1, <1>7
    DEF SearchStep, Finish, StoreThrows, FailThrows, Dies, Release, EndSearch, AnswerStep,
        BeginRound, Post, RoundDone, RoundBreaks, EndRound, ownVars, restVars, histVars
  <2>2. copy[t] # {} => cur'[t] = cur[t]
    BY <1>1, <1>3, <1>7
    DEF SearchStep, Finish, StoreThrows, FailThrows, Release, AnswerStep,
        BeginRound, Post, RoundDone, RoundBreaks, InRound
  <2>3. \A j \in Reqs : Members(j) \subseteq Members(j)'
    BY <1>1, <1>7
    DEF SearchStep, Finish, StoreThrows, FailThrows, Release, AnswerStep,
        BeginRound, Post, RoundDone, RoundBreaks, Members, JobRec
  <2> QED BY <1>2, <2>1, <2>2, <2>3
<1>8. ASSUME \/ \E t \in Threads : QueueStep(t)
             \/ LoadStep
             \/ UNCHANGED vars
      PROVE  CopiesOK'
  <2>1. UNCHANGED <<copy, lost, cur, job>>
    BY <1>8 DEF QueueStep, CheckQueue, StartTask, LoadStep, CachedDataIsReady, RealDataIsReady,
       ElasticSearchIsReady, LoadFails, Reload, vars, threadVars, ownVars, restVars, histVars
  <2> QED BY <1>2, <2>1 DEF Members
<1> QED BY <1>4, <1>5, <1>6, <1>7, <1>8 DEF Next

LEMMA AnswersInit == Init => AnswersInv /\ CopiesOK
<1> SUFFICES ASSUME Init PROVE AnswersInv /\ CopiesOK
  OBVIOUS
<1>1. \A j \in Reqs : Owed(j) = {}
  BY DEF Init, Owed, Final
<1>2. CopiesOK
  BY DEF Init, CopiesOK
<1> QED BY <1>1, <1>2 DEF AnswersInv

LEMMA AnswersNext ==
  Typed /\ AnswersInv /\ CopiesOK /\ [Next]_vars => AnswersInv' /\ CopiesOK'
<1> SUFFICES ASSUME Typed, AnswersInv, CopiesOK, [Next]_vars PROVE AnswersInv'
  BY CopiesNext
<1>1. CASE UNCHANGED vars
  <2>1. UNCHANGED <<call, pc, cur, told, copy, job, hooked, published, cut, late, lost>>
    BY <1>1 DEF vars, threadVars, ownVars, restVars, outVars, histVars
  <2>2. \A j \in Reqs : Owed(j)' \subseteq Owed(j)
    BY <2>1, OwedSame DEF Members
  <2>3. \A t \in Threads : GoesOn(t)
    BY <2>1 DEF GoesOn, RoundAhead, InRound, Running, Kind
  <2> QED BY <2>1, <2>2, <2>3, AnswersKept
<1>2. CASE Next
  BY <1>2, AnswersRequest, AnswersTake, AnswersSearch, AnswersSave, AnswersRound, AnswersQueue,
     AnswersLoad DEF Next
<1> QED BY <1>1, <1>2

LEMMA AnswersAlways == Spec => [](AnswersInv /\ CopiesOK)
BY TypedAlways, AnswersInit, AnswersNext, PTL DEF Spec

(* Every web hook of a job that is over was called or passed over, for all *)
(* requests, threads and interleavings: but for requests that came late or *)
(* were removed, and jobs that an exception has ended.                     *)
THEOREM EveryoneIsAnswered == Spec => []EveryoneAnswered
<1>1. Typed /\ AnswersInv => EveryoneAnswered
  <2>1. ASSUME AnswersInv, NEW j \in Reqs, Answered(j), NEW r \in InTime(j), r \in Reqs
        PROVE  call[r].hook = "none" \/ hooked[r] # "no"
    <3>1. r \in Owed(j) /\ j \notin cut /\ ~WillPost(j, r)
      BY <2>1 DEF Answered, InTime, Owed, WillPost
    <3> QED BY <2>1, <3>1 DEF AnswersInv
  <2>2. Typed => \A j \in Reqs : InTime(j) \subseteq Reqs
    BY DEF Typed, TypeOK, InTime, Members
  <2> QED BY <2>1, <2>2 DEF EveryoneAnswered
<1> QED BY <1>1, TypedAlways, AnswersAlways, PTL

(* And its actions went to Kafka if one of these requests asked for it.    *)
THEOREM KafkaIsAnswered == Spec => []KafkaAnswered
<1>1. Typed /\ AnswersInv => KafkaAnswered
  <2>1. ASSUME AnswersInv, NEW j \in Reqs, Answered(j), call[j].kind # "instance",
               NEW r \in InTime(j), r \in Reqs, call[r].kafka
        PROVE  j \in published
    <3>1. r \in Owed(j) /\ j \notin cut /\ ~WillEnd(j)
      BY <2>1 DEF Answered, InTime, Owed, WillEnd
    <3> QED BY <2>1, <3>1 DEF AnswersInv
  <2>2. Typed => \A j \in Reqs : InTime(j) \subseteq Reqs
    BY DEF Typed, TypeOK, InTime, Members
  <2> QED BY <2>1, <2>2 DEF KafkaAnswered
<1> QED BY <1>1, TypedAlways, AnswersAlways, PTL
=============================================================================

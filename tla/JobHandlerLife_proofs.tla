----------------------- MODULE JobHandlerLife_proofs ------------------------
(***************************************************************************)
(* Theorems about the life of a job in JobHandler: it is scheduled while   *)
(* it is open, does not open again, and is searched once.  They are about  *)
(* every interleaving, with collections that behave.                       *)
(***************************************************************************)
EXTENDS JobHandler_proofs

(* The request j has not yet given its own job away.                       *)
Fresh(j)    == pc[j] = "new" \/ (pc[j] = "register" /\ cur[j] = j)
Creating(j) == pc[j] = "new" \/ (pc[j] \in {"register", "save", "dispatch"} /\ cur[j] = j)
(* Thread t works on a job that is in the map.                             *)
Opened(t) == \/ pc[t] \in {"save", "dispatch", "search", "store", "fail"}
             \/ pc[t] = "register" /\ cur[t] # t
Outcome(t) == pc[t] \in {"store", "fail"}
(* Only its creator, or a pool thread that got it from the queue, saves    *)
(* job j when it is not split.                                             *)
Owner(t) == t \in Workers \cup {cur[t]} /\ cur[t] \notin split

FreshOK  == \A j \in Reqs : Fresh(j) => job[j].status = "NONE"
OpenedOK == \A t \in Threads : Opened(t) => job[cur[t]].status # "NONE"
QueueOK  == \A k \in Kinds : \A i \in DOMAIN q[k] :
              ~Creating(q[k][i]) /\ job[q[k][i]].status # "NONE"
WorkerOK == \A w \in Workers :
              /\ pc[w] # "save"
              /\ pc[w] \in {"search", "store", "fail"} => ~Creating(cur[w])
OwnerOK  == \A t \in Threads : Outcome(t) /\ Owner(t) => job[cur[t]].status \in Final
BackOK   == \A t \in Threads : \A c \in copy[t] :
              /\ c.status # "NONE"
              /\ cur[t] \notin split => Owner(t) /\ (pc[t] # "save" => c.status \in Final)
LifeInv  == FreshOK /\ OpenedOK /\ QueueOK /\ WorkerOK /\ OwnerOK /\ BackOK

Same(t) == pc'[t] = pc[t] /\ cur'[t] = cur[t]

(* What most steps do: no status, copy or row changes.                     *)
LEMMA LifeKept ==
  ASSUME Typed, LifeInv, UNCHANGED <<copy, split>>,
         \A j \in Reqs : job'[j].status = job[j].status,
         \A k \in Kinds : \A i \in DOMAIN q'[k] : \E e \in Reqs :
           /\ q'[k][i] = e
           /\ \/ \E m \in DOMAIN q[k] : q[k][m] = e
              \/ ~Creating(e)' /\ job[e].status # "NONE",
         \A j \in Reqs : (Creating(j)' => Creating(j)) /\ (Fresh(j)' => Fresh(j)),
         \A t \in Threads :
           /\ Opened(t)' => cur'[t] \in Reqs /\ job[cur'[t]].status # "NONE"
           /\ Outcome(t)' => Outcome(t) /\ cur'[t] = cur[t]
           /\ copy[t] # {} => cur'[t] = cur[t] /\ (pc[t] = "save" => pc'[t] = "save"),
         \A w \in Workers :
           /\ pc'[w] # "save"
           /\ pc'[w] \in {"search", "store", "fail"} =>
                cur'[w] \in Reqs /\ ~Creating(cur'[w])
  PROVE  LifeInv'
<1>1. \A k \in Kinds : \A m \in DOMAIN q[k] : q[k][m] \in Reqs
  BY DEF Typed, TypeOK
<1>2. FreshOK'
  BY DEF LifeInv, FreshOK
<1>3. OpenedOK'
  BY DEF OpenedOK
<1>4. QueueOK'
  <2>1. ASSUME NEW k \in Kinds, NEW i \in DOMAIN q'[k]
        PROVE  \E e \in Reqs : q'[k][i] = e /\ ~Creating(e)' /\ job'[e].status # "NONE"
    <3>1. PICK e \in Reqs : /\ q'[k][i] = e
                            /\ \/ \E m \in DOMAIN q[k] : q[k][m] = e
                               \/ ~Creating(e)' /\ job[e].status # "NONE"
      BY <2>1
    <3>2. (\E m \in DOMAIN q[k] : q[k][m] = e) => ~Creating(e) /\ job[e].status # "NONE"
      BY DEF LifeInv, QueueOK
    <3> QED BY <3>1, <3>2
  <2> QED BY <2>1 DEF QueueOK, Creating
<1>5. WorkerOK'
  BY DEF WorkerOK
<1>6. \A t \in Threads : Outcome(t) \/ copy[t] # {} => cur[t] \in Reqs
  BY DEF Typed, CurOK, CopyOK, LoaderOK, Saving, Outcome, Busy
<1>7. OwnerOK'
  BY <1>6 DEF LifeInv, OwnerOK, Owner
<1>8. BackOK'
  BY <1>6 DEF LifeInv, BackOK, Owner
<1> QED BY <1>2, <1>3, <1>4, <1>5, <1>7, <1>8 DEF LifeInv

LEMMA LifeRequest ==
  ASSUME Typed, LifeInv, ~UnsafeCollections, NEW r \in Reqs, RequestStep(r)
  PROVE  LifeInv'
<1> USE JobHandlerAssumption
<1>1. /\ pc \in [Threads -> PCs] /\ cur \in [Threads -> Reqs \cup {NoJob}]
      /\ r \in Threads /\ \A j \in Reqs : j \in Threads
      /\ job \in [Reqs -> JobRec] /\ q \in [Kinds -> Seq(Reqs)]
      /\ \A w \in Workers : w \in Threads \ {r}
  BY DEF Typed, TypeOK, Threads, JobRec
<1>2. /\ UNCHANGED <<copy, split>> /\ (copy[r] = {} \/ Register(r)) /\ call' = call
      /\ \A t \in Threads \ {r} : Same(t)
  BY <1>1 DEF RequestStep, LookUp, LookUpBreaks, LookUpFails, Register, SaveBreaks, Enqueue, Adding,
     JoinQueued, RefuseSync, RunSync, ownVars, restVars, histVars, Same, Typed, CopyOK, Saving
<1>3. \A t \in Threads : Opened(t) \/ Outcome(t) => cur[t] \in Reqs
  BY DEF Typed, CurOK, LoaderOK, Opened, Outcome, Busy
<1>4. CASE ~Register(r)
  <2>1. \A j \in Reqs : job'[j].status = job[j].status
    BY <1>1, <1>4 DEF RequestStep, LookUp, LookUpBreaks, LookUpFails, SaveBreaks, Enqueue,
       JoinQueued, RefuseSync, RunSync, BeginSearch, JobRec
  <2>2. /\ pc[r] \in {"new", "register", "save", "dispatch"}
        /\ (Creating(r)' => Creating(r)) /\ (Fresh(r)' => Fresh(r)) /\ ~Outcome(r)'
    BY <1>1, <1>4 DEF RequestStep, LookUp, LookUpBreaks, LookUpFails, SaveBreaks, Enqueue, Adding,
       JoinQueued, RefuseSync, RunSync, Creating, Fresh, Outcome
  <2>3. \A j \in Reqs : (Creating(j)' => Creating(j)) /\ (Fresh(j)' => Fresh(j))
    BY <1>1, <1>2, <2>2 DEF Creating, Fresh, Same
  <2>4. Opened(r)' => cur'[r] \in Reqs /\ job[cur'[r]].status # "NONE"
    <3>1. CASE LookUp(r)
      <4>1. PICK j \in IF Joinable(r) = {} THEN {r} ELSE Joinable(r) : cur'[r] = j
        BY <1>1, <3>1 DEF LookUp
      <4>2. j \in Reqs /\ (j = r \/ job[j].status = "PENDING")
        BY <4>1 DEF Joinable
      <4>3. pc'[r] = "register"
        BY <1>1, <3>1 DEF LookUp
      <4> QED BY <4>1, <4>2, <4>3 DEF Opened
    <3>2. CASE RunSync(r)
      <4>1. Opened(r) /\ cur' = cur
        BY <3>2 DEF RunSync, Opened
      <4> QED BY <1>1, <1>3, <4>1 DEF LifeInv, OpenedOK
    <3>3. CASE ~LookUp(r) /\ ~RunSync(r)
      BY <1>1, <1>4, <3>3 DEF RequestStep, LookUpBreaks, LookUpFails, SaveBreaks, Enqueue,
         JoinQueued, RefuseSync, Opened
    <3> QED BY <3>1, <3>2, <3>3
  <2>5. \A t \in Threads : Opened(t)' => cur'[t] \in Reqs /\ job[cur'[t]].status # "NONE"
    BY <1>2, <1>3, <2>4 DEF Same, Opened, LifeInv, OpenedOK
  <2>6. \A k \in Kinds : \A i \in DOMAIN q'[k] : \E e \in Reqs :
           /\ q'[k][i] = e
           /\ \/ \E m \in DOMAIN q[k] : q[k][m] = e
              \/ ~Creating(e)' /\ job[e].status # "NONE"
    <3>1. CASE Enqueue(r)
      <4>1. /\ cur[r] = r /\ pc[r] = "dispatch" /\ pc'[r] = "handle"
            /\ q' = [q EXCEPT ![call[r].kind] = Append(@, r)]
        BY <1>1, <3>1 DEF Enqueue, Adding, Add
      <4>2. ~Creating(r)' /\ job[r].status # "NONE"
        BY <1>1, <4>1 DEF Creating, Opened, LifeInv, OpenedOK
      <4>3. ASSUME NEW k \in Kinds, NEW i \in DOMAIN q'[k]
            PROVE  q'[k][i] = r \/ \E m \in DOMAIN q[k] : q'[k][i] = q[k][m]
        <5>1. q[k] \in Seq(Reqs) /\ (q'[k] = q[k] \/ q'[k] = Append(q[k], r))
          BY <1>1, <4>1
        <5> QED BY <4>3, <5>1
      <4>4. \A k \in Kinds : \A m \in DOMAIN q[k] : q[k][m] \in Reqs
        BY <1>1
      <4> QED BY <4>2, <4>3, <4>4
    <3>2. CASE ~Enqueue(r)
      <4>1. \A k \in Kinds : \A m \in DOMAIN q[k] : q[k][m] \in Reqs
        BY <1>1
      <4>2. q' = q
        BY <1>4, <3>2 DEF RequestStep, LookUp, LookUpBreaks, LookUpFails, SaveBreaks,
           JoinQueued, RefuseSync, RunSync, queueVars
      <4> QED BY <4>1, <4>2
    <3> QED BY <3>1, <3>2
  <2>7. \A t \in Threads :
           /\ Outcome(t)' => Outcome(t) /\ cur'[t] = cur[t]
           /\ copy[t] # {} => cur'[t] = cur[t] /\ (pc[t] = "save" => pc'[t] = "save")
    BY <1>2, <1>4, <2>2 DEF Same, Outcome
  <2>8. \A w \in Workers :
           /\ pc'[w] # "save"
           /\ pc'[w] \in {"search", "store", "fail"} => cur'[w] \in Reqs /\ ~Creating(cur'[w])
    BY <1>1, <1>2, <1>3 DEF Same, LifeInv, WorkerOK, Opened
  <2> QED BY <1>2, <2>1, <2>3, <2>5, <2>6, <2>7, <2>8, LifeKept
<1>5. CASE Register(r)
  <2>1. /\ pc[r] = "register" /\ pc'[r] = "save" /\ cur' = cur /\ q' = q /\ cur[r] \in Reqs
    BY <1>1, <1>5 DEF Register, queueVars, Typed, CurOK, Busy
  <2>2. \A j \in Reqs : job'[j].status = IF j = r /\ cur[r] = r THEN "PENDING" ELSE job[j].status
    BY <1>1, <1>5 DEF Register, JobRec
  <2>3. \A j \in Reqs : (Fresh(j)' => Fresh(j)) /\ (Creating(j)' => Creating(j)) /\ ~Fresh(r)'
    BY <1>1, <1>2, <2>1 DEF Fresh, Creating, Same
  <2>4. FreshOK'
    BY <2>2, <2>3 DEF LifeInv, FreshOK
  <2>5. OpenedOK'
    BY <1>2, <1>3, <2>1, <2>2 DEF LifeInv, OpenedOK, Opened, Same
  <2>6. QueueOK'
    <3>1. \A k \in Kinds : \A i \in DOMAIN q[k] : q[k][i] \in Reqs
      BY <1>1
    <3> QED BY <2>1, <2>2, <2>3, <3>1 DEF LifeInv, QueueOK
  <2>7. WorkerOK'
    <3>1. \A w \in Workers : Opened(w) => cur[w] \in Reqs
      BY <1>1, <1>3
    <3> QED BY <1>1, <1>2, <2>3, <3>1 DEF LifeInv, WorkerOK, Opened, Same
  <2>8. OwnerOK'
    <3>1. cur[r] = r => job[r].status = "NONE"
      BY <2>1 DEF LifeInv, FreshOK, Fresh
    <3>2. \A t \in Threads : Outcome(t)' =>
            Outcome(t) /\ cur[t] \in Reqs /\ job[cur[t]].status # "NONE"
      BY <1>2, <1>3, <2>1 DEF Outcome, Same, Opened, LifeInv, OpenedOK
    <3> QED BY <1>2, <2>1, <2>2, <3>1, <3>2 DEF LifeInv, OwnerOK, Owner
  <2>9. BackOK'
    <3>1. copy[r] = {}
      BY <1>1, <2>1 DEF Typed, CopyOK, Saving
    <3> QED BY <1>2, <2>1, <3>1 DEF LifeInv, BackOK, Owner, Same
  <2> QED BY <2>4, <2>5, <2>6, <2>7, <2>8, <2>9 DEF LifeInv
<1> QED BY <1>4, <1>5

LEMMA LifeTake ==
  ASSUME Typed, LifeInv, ~UnsafeCollections, TakeStep
  PROVE  LifeInv'
<1> USE JobHandlerAssumption
<1>1. /\ pc \in [Threads -> PCs] /\ cur \in [Threads -> Reqs \cup {NoJob}]
      /\ \A j \in Reqs : j \in Threads /\ j \notin Workers
      /\ q \in [Kinds -> Seq(Reqs)] /\ Workers \subseteq Threads
  BY DEF Typed, TypeOK, Threads
<1>2. PICK w \in Workers, k \in Kinds : Take(w, k)
  BY DEF TakeStep, TakeTogether
<1>3. \A t \in Threads : Opened(t) \/ Outcome(t) => cur[t] \in Reqs
  BY DEF Typed, CurOK, LoaderOK, Opened, Outcome, Busy
<1>4. UNCHANGED <<copy, split>> /\ pc[w] = "idle" /\ \A t \in Threads \ {w} : Same(t)
  BY <1>1, <1>2 DEF Take, ownVars, Same
<1>5. CASE q[k] = <<>>
  <2>1. UNCHANGED <<pc, cur, job, q>>
    BY <1>2, <1>5 DEF Take
  <2>2. \A n \in Kinds : \A m \in DOMAIN q[n] : q[n][m] \in Reqs
    BY <1>1
  <2> QED BY <1>1, <1>3, <1>4, <2>1, <2>2, LifeKept
          DEF LifeInv, OpenedOK, WorkerOK, Opened, Outcome, Creating, Fresh
<1>6. CASE q[k] # <<>>
  <2> DEFINE h == Head(q[k])
  <2>1. /\ pc'[w] = "search" /\ cur'[w] = h /\ q' = [q EXCEPT ![k] = Tail(@)]
    BY <1>1, <1>2, <1>6 DEF Take
  <2>2. /\ \E m \in DOMAIN q[k] : q[k][m] = h
        /\ \A n \in Kinds : \A i \in DOMAIN q'[n] : \E m \in DOMAIN q[n] : q'[n][i] = q[n][m]
    <3>1. q[k] \in Seq(Reqs) /\ q'[k] = Tail(q[k]) /\ \A n \in Kinds \ {k} : q'[n] = q[n]
      BY <1>1, <2>1
    <3>2. 1 \in DOMAIN q[k] /\ q[k][1] = h
      BY <1>6, <3>1
    <3>3. \A i \in DOMAIN q'[k] : i + 1 \in DOMAIN q[k] /\ q'[k][i] = q[k][i + 1]
      BY <1>6, <3>1
    <3> HIDE DEF h
    <3> QED BY <3>1, <3>2, <3>3
  <2> HIDE DEF h
  <2>3. h \in Reqs /\ ~Creating(h) /\ job[h].status # "NONE"
    <3>1. \A m \in DOMAIN q[k] : q[k][m] \in Reqs
      BY <1>1
    <3> QED BY <2>2, <3>1 DEF LifeInv, QueueOK
  <2>4. \A j \in Reqs : /\ job'[j].status = job[j].status
                        /\ (Creating(j)' => Creating(j)) /\ (Fresh(j)' => Fresh(j))
    BY <1>1, <1>4, TakeChanges DEF Creating, Fresh, Same
  <2>5. \A t \in Threads :
           /\ Opened(t)' => cur'[t] \in Reqs /\ job[cur'[t]].status # "NONE"
           /\ Outcome(t)' => Outcome(t) /\ cur'[t] = cur[t]
           /\ copy[t] # {} => cur'[t] = cur[t] /\ (pc[t] = "save" => pc'[t] = "save")
    <3>1. copy[w] = {}
      BY <1>1, <1>4 DEF Typed, CopyOK, Saving
    <3> QED BY <1>3, <1>4, <2>1, <2>3, <3>1 DEF Same, Opened, Outcome, LifeInv, OpenedOK
  <2>6. \A x \in Workers :
           /\ pc'[x] # "save"
           /\ pc'[x] \in {"search", "store", "fail"} => cur'[x] \in Reqs /\ ~Creating(cur'[x])
    BY <1>1, <1>3, <1>4, <2>1, <2>3 DEF Same, Opened, LifeInv, WorkerOK
  <2>7. \A n \in Kinds : \A m \in DOMAIN q[n] : q[n][m] \in Reqs
    BY <1>1
  <2> QED BY <1>4, <2>2, <2>4, <2>5, <2>6, <2>7, LifeKept
<1> QED BY <1>5, <1>6

(* A thread that has answered or is out of its search.                     *)
LEMMA LifeHarmless ==
  ASSUME Typed, LifeInv, NEW t \in Threads, UNCHANGED <<job, q, copy, split>>,
         \A u \in Threads \ {t} : Same(u),
         pc[t] \notin {"new", "register"},
         pc'[t] \notin {"new", "register", "save", "dispatch", "search", "store", "fail"},
         copy[t] = {}
  PROVE  LifeInv'
<1> USE JobHandlerAssumption
<1>1. /\ \A j \in Reqs : j \in Threads
      /\ \A w \in Workers : w \in Threads
      /\ \A k \in Kinds : \A m \in DOMAIN q[k] : q[k][m] \in Reqs
  BY DEF Typed, TypeOK, Threads
<1>2. \A u \in Threads : Opened(u) \/ Outcome(u) => cur[u] \in Reqs
  BY DEF Typed, CurOK, LoaderOK, Opened, Outcome, Busy
<1>3. \A j \in Reqs : (Creating(j)' => Creating(j)) /\ (Fresh(j)' => Fresh(j))
  BY <1>1 DEF Creating, Fresh, Same
<1>4. \A u \in Threads :
         /\ Opened(u)' => cur'[u] \in Reqs /\ job[cur'[u]].status # "NONE"
         /\ Outcome(u)' => Outcome(u) /\ cur'[u] = cur[u]
         /\ copy[u] # {} => cur'[u] = cur[u] /\ (pc[u] = "save" => pc'[u] = "save")
  BY <1>2 DEF Same, Opened, Outcome, LifeInv, OpenedOK
<1>5. \A w \in Workers :
         /\ pc'[w] # "save"
         /\ pc'[w] \in {"search", "store", "fail"} => cur'[w] \in Reqs /\ ~Creating(cur'[w])
  BY <1>1, <1>2 DEF Same, Opened, LifeInv, WorkerOK
<1> QED BY <1>1, <1>3, <1>4, <1>5, LifeKept

LEMMA LifeSearch ==
  ASSUME Typed, LifeInv, NEW t \in Reqs \cup Workers, SearchStep(t)
  PROVE  LifeInv'
<1> USE JobHandlerAssumption
<1>1. /\ pc \in [Threads -> PCs] /\ cur \in [Threads -> Reqs \cup {NoJob}]
      /\ t \in Threads /\ \A j \in Reqs : j \in Threads
      /\ job \in [Reqs -> JobRec] /\ \A w \in Workers : w \in Threads
      /\ \A k \in Kinds : \A m \in DOMAIN q[k] : q[k][m] \in Reqs
  BY DEF Typed, TypeOK, Threads, JobRec
<1>2. /\ UNCHANGED <<q, copy, split>> /\ Running(t) /\ copy[t] = {} /\ cur[t] \in Reqs
      /\ \A u \in Threads \ {t} : Same(u)
  BY <1>1 DEF SearchStep, Finish, StoreThrows, FailThrows, Dies, EndSearch, Release, Running,
     Typed, CurOK, LoaderOK, CopyOK, Saving, Busy, ownVars, queueVars, restVars, histVars, Same
<1>3. CASE FailThrows(t) \/ Release(t)
  <2>1. job' = job /\ pc'[t] \in {"wake", "error", "idle"}
    BY <1>1, <1>3 DEF FailThrows, Dies, EndSearch, Release
  <2>2. pc[t] \notin {"new", "register"}
    BY <1>2 DEF Running
  <2> QED BY <1>1, <1>2, <2>1, <2>2, LifeHarmless
<1>4. CASE Finish(t) \/ StoreThrows(t)
  <2>1. /\ cur' = cur /\ pc'[t] \in {"store", "fail"} /\ pc[t] \in {"search", "store"}
        /\ \E s \in Final : job' = [job EXCEPT ![cur[t]].status = s]
    BY <1>1, <1>4 DEF Finish, StoreThrows, Final
  <2>2. /\ job'[cur[t]].status \in Final
        /\ \A j \in Reqs \ {cur[t]} : job'[j].status = job[j].status
    BY <1>1, <1>2, <2>1 DEF JobRec
  <2>3. \A u \in Threads : Opened(u) \/ Outcome(u) => cur[u] \in Reqs
    BY DEF Typed, CurOK, LoaderOK, Opened, Outcome, Busy
  <2>4. /\ \A j \in Reqs : (Fresh(j)' => Fresh(j)) /\ (Creating(j)' => Creating(j))
        /\ job[cur[t]].status # "NONE"
    BY <1>1, <1>2, <2>1 DEF Fresh, Creating, Same, Opened, LifeInv, OpenedOK
  <2>5. FreshOK'
    BY <2>2, <2>4 DEF LifeInv, FreshOK
  <2>6. OpenedOK'
    BY <1>2, <2>1, <2>2, <2>3 DEF LifeInv, OpenedOK, Opened, Same, Final
  <2>7. QueueOK'
    BY <1>1, <1>2, <2>2, <2>4 DEF LifeInv, QueueOK, Final
  <2>8. WorkerOK'
    BY <1>1, <1>2, <2>1, <2>3, <2>4 DEF LifeInv, WorkerOK, Same, Opened
  <2>9. OwnerOK'
    BY <1>2, <2>1, <2>2, <2>3 DEF LifeInv, OwnerOK, Owner, Outcome, Same
  <2>10. BackOK'
    BY <1>2, <2>1 DEF LifeInv, BackOK, Owner, Same
  <2> QED BY <2>5, <2>6, <2>7, <2>8, <2>9, <2>10 DEF LifeInv
<1> QED BY <1>3, <1>4 DEF SearchStep

LEMMA LifeSave ==
  ASSUME Typed, LifeInv, NEW t \in Reqs \cup Workers, SaveStep(t)
  PROVE  LifeInv'
<1> USE JobHandlerAssumption
<1>1. /\ pc \in [Threads -> PCs] /\ cur \in [Threads -> Reqs \cup {NoJob}]
      /\ t \in Threads /\ \A j \in Reqs : j \in Threads
      /\ copy \in [Threads -> SUBSET Copies]
      /\ job \in [Reqs -> JobRec] /\ \A w \in Workers : w \in Threads
      /\ \A k \in Kinds : \A m \in DOMAIN q[k] : q[k][m] \in Reqs
  BY DEF Typed, TypeOK, Threads, JobRec
<1>2. /\ q' = q /\ pc[t] \in {"save", "store", "fail"} /\ cur[t] \in Reqs
      /\ \A u \in Threads \ {t} : Same(u) /\ copy'[u] = copy[u]
  BY <1>1 DEF SaveStep, SaveDone, Merge, CopyBack, AfterSave, Dies, EndSearch, Saving,
     Typed, CopyOK, CurOK, LoaderOK, Busy, ownVars, queueVars, Same
<1>3. \A u \in Threads : Opened(u) \/ Outcome(u) => cur[u] \in Reqs
  BY DEF Typed, CurOK, LoaderOK, Opened, Outcome, Busy
<1>4. job[cur[t]].status # "NONE"
  BY <1>1, <1>2 DEF LifeInv, OpenedOK, Opened
<1>5. CASE SaveDone(t)
  <2>1. /\ UNCHANGED <<job, q, copy, split, cur>> /\ pc'[t] \in {"dispatch", "release"}
        /\ copy[t] = {} /\ (pc[t] = "save" <=> pc'[t] = "dispatch")
    BY <1>1, <1>2, <1>5 DEF SaveDone, AfterSave, ownVars, queueVars, restVars, histVars
  <2>2. \A j \in Reqs : (Creating(j)' => Creating(j)) /\ (Fresh(j)' => Fresh(j))
    BY <1>1, <1>2, <2>1 DEF Creating, Fresh, Same
  <2>3. \A u \in Threads :
           /\ Opened(u)' => cur'[u] \in Reqs /\ job[cur'[u]].status # "NONE"
           /\ Outcome(u)' => Outcome(u) /\ cur'[u] = cur[u]
           /\ copy[u] # {} => cur'[u] = cur[u] /\ (pc[u] = "save" => pc'[u] = "save")
    BY <1>2, <1>3, <1>4, <2>1 DEF Same, Opened, Outcome, LifeInv, OpenedOK
  <2>4. \A w \in Workers :
           /\ pc'[w] # "save"
           /\ pc'[w] \in {"search", "store", "fail"} => cur'[w] \in Reqs /\ ~Creating(cur'[w])
    BY <1>1, <1>2, <1>3, <2>1 DEF Same, Opened, LifeInv, WorkerOK
  <2> QED BY <1>1, <2>1, <2>2, <2>3, <2>4, LifeKept
<1>6. CASE Merge(t)
  <2>1. /\ UNCHANGED <<job, pc, cur>>
        /\ copy'[t] = {[members |-> job[cur[t]].members, status |-> job[cur[t]].status]}
        /\ split' = IF t \in Workers \cup {cur[t]} THEN split ELSE split \cup {cur[t]}
    BY <1>1, <1>6 DEF Merge
  <2>2. FreshOK' /\ OpenedOK' /\ QueueOK' /\ WorkerOK'
    BY <1>2, <2>1 DEF LifeInv, FreshOK, OpenedOK, QueueOK, WorkerOK, Fresh, Opened, Creating
  <2>3. OwnerOK'
    BY <2>1 DEF LifeInv, OwnerOK, Owner, Outcome
  <2>4. BackOK'
    <3>1. ASSUME NEW c \in copy'[t]
          PROVE  /\ c.status # "NONE"
                 /\ cur[t] \notin split' => Owner(t)' /\ (pc[t] # "save" => c.status \in Final)
      <4>1. c.status = job[cur[t]].status
        BY <2>1, <3>1
      <4>2. cur[t] \notin split' => Owner(t) /\ Owner(t)'
        BY <2>1 DEF Owner
      <4> QED BY <1>1, <1>2, <1>4, <4>1, <4>2 DEF LifeInv, OwnerOK, Outcome
    <3>2. ASSUME NEW u \in Threads \ {t}, NEW c \in copy[u]
          PROVE  /\ c.status # "NONE"
                 /\ cur[u] \notin split' => Owner(u)' /\ (pc[u] # "save" => c.status \in Final)
      BY <2>1, <3>2 DEF LifeInv, BackOK, Owner
    <3> QED BY <1>2, <2>1, <3>1, <3>2 DEF BackOK
  <2> QED BY <2>2, <2>3, <2>4 DEF LifeInv
<1>7. CASE CopyBack(t)
  <2>1. PICK c \in copy[t], row \in BOOLEAN :
          job' = [job EXCEPT ![cur[t]] =
            [members |-> c.members, status |-> c.status, runs |-> @.runs, row |-> row]]
    BY <1>7 DEF CopyBack
  <2>2. \A j \in Reqs : job'[j].status = IF j = cur[t] THEN c.status ELSE job[j].status
    BY <1>1, <2>1 DEF JobRec
  <2>3. c.status # "NONE" /\ copy'[t] = {} /\ split' = split
    BY <1>1, <1>7 DEF CopyBack, LifeInv, BackOK
  <2>4. \/ pc[t] = "save" /\ pc'[t] = "dispatch" /\ cur'[t] = cur[t]
        \/ pc'[t] \in {"release", "error", "idle"}
    BY <1>1, <1>7 DEF CopyBack, AfterSave, Dies, EndSearch
  <2>5. \A j \in Reqs : (Creating(j)' => Creating(j)) /\ (Fresh(j)' => Fresh(j))
    BY <1>1, <1>2, <2>4 DEF Creating, Fresh, Same
  <2>6. FreshOK'
    BY <1>4, <2>2, <2>5 DEF LifeInv, FreshOK
  <2>7. OpenedOK'
    BY <1>2, <1>3, <1>4, <2>2, <2>3, <2>4 DEF LifeInv, OpenedOK, Opened, Same
  <2>8. QueueOK'
    BY <1>1, <1>2, <2>2, <2>3, <2>5 DEF LifeInv, QueueOK
  <2>9. WorkerOK'
    BY <1>1, <1>2, <1>3, <2>4, <2>5 DEF LifeInv, WorkerOK, Same, Opened
  <2>10. OwnerOK'
    <3> SUFFICES ASSUME NEW u \in Threads, Outcome(u)', Owner(u)'
                 PROVE  job'[cur'[u]].status \in Final
      BY DEF OwnerOK
    <3>1. u # t /\ Outcome(u) /\ Owner(u) /\ cur'[u] = cur[u] /\ cur[u] \in Reqs
      BY <1>2, <1>3, <2>3, <2>4 DEF Outcome, Owner, Same
    <3>2. CASE cur[u] # cur[t]
      BY <2>2, <3>1, <3>2 DEF LifeInv, OwnerOK
    <3>3. CASE cur[u] = cur[t]
      <4>1. cur[t] \notin split
        BY <3>1, <3>3 DEF Owner
      <4>2. Owner(t) /\ (pc[t] # "save" => c.status \in Final)
        BY <1>1, <4>1 DEF LifeInv, BackOK
      <4>3. pc[t] = "save" => FALSE
        <5>1. ASSUME pc[t] = "save" PROVE t \notin Workers
          BY <5>1 DEF LifeInv, WorkerOK
        <5>2. ASSUME pc[t] = "save" PROVE t = cur[t] /\ Creating(cur[t])
          BY <4>2, <5>1, <5>2 DEF Owner, Creating
        <5>3. u \in Workers => ~Creating(cur[t])
          BY <3>1, <3>3 DEF LifeInv, WorkerOK, Outcome
        <5>4. u = cur[t] => pc[t] # "save" \/ t # cur[t]
          BY <3>1
        <5> QED BY <3>1, <3>3, <5>2, <5>3, <5>4 DEF Owner
      <4> QED BY <2>2, <3>1, <3>3, <4>2, <4>3
    <3> QED BY <3>2, <3>3
  <2>11. BackOK'
    BY <1>2, <2>3 DEF LifeInv, BackOK, Owner, Same
  <2> QED BY <2>6, <2>7, <2>8, <2>9, <2>10, <2>11 DEF LifeInv
<1> QED BY <1>5, <1>6, <1>7 DEF SaveStep

LEMMA LifeAnswer ==
  ASSUME Typed, LifeInv, NEW t \in Reqs \cup Workers, AnswerStep(t)
  PROVE  LifeInv'
<1>1. pc \in [Threads -> PCs] /\ cur \in [Threads -> Reqs \cup {NoJob}] /\ t \in Threads
  BY DEF Typed, TypeOK, Threads
<1>2. /\ UNCHANGED <<job, q, copy, split>>
      /\ \A u \in Threads \ {t} : Same(u)
      /\ pc[t] \in {"notify", "notifyAgain", "post", "postAgain"}
      /\ pc'[t] \in {"post", "postAgain", "notifyAgain", "handle", "error", "idle"}
  BY <1>1 DEF AnswerStep, BeginRound, Post, RoundDone, RoundBreaks, EndRound, EndSearch, InRound,
     ownVars, queueVars, restVars, histVars, Same
<1>3. copy[t] = {}
  BY <1>1, <1>2 DEF Typed, CopyOK, Saving
<1> QED BY <1>1, <1>2, <1>3, LifeHarmless

LEMMA LifeQueue ==
  ASSUME Typed, LifeInv, NEW t \in Threads, QueueStep(t)
  PROVE  LifeInv'
<1>1. pc \in [Threads -> PCs]
  BY DEF Typed, TypeOK
<1>2. /\ UNCHANGED <<job, q, copy, split>>
      /\ \A u \in Threads \ {t} : Same(u)
      /\ pc[t] \in {"wake", "handle", "wakeStart", "start"}
      /\ pc'[t] \in {"wakeStart", "start", "notify", "done"}
  BY <1>1 DEF QueueStep, CheckQueue, StartTask, AfterQueue, ownVars, queueVars, restVars, histVars,
     Same
<1>3. copy[t] = {}
  BY <1>1, <1>2 DEF Typed, CopyOK, Saving
<1> QED BY <1>1, <1>2, <1>3, LifeHarmless

LEMMA LifeLoad ==
  ASSUME Typed, LifeInv, LoadStep
  PROVE  LifeInv'
<1>1. pc \in [Threads -> PCs] /\ Loader \in Threads
  BY DEF Typed, TypeOK, Threads
<1>2. /\ UNCHANGED <<job, q, copy, split>>
      /\ \A u \in Threads \ {Loader} : Same(u)
      /\ pc[Loader] \in {"loading", "done"} /\ pc'[Loader] \in {"loading", "done", "handle"}
  BY <1>1 DEF LoadStep, CachedDataIsReady, RealDataIsReady, ElasticSearchIsReady, LoadFails, Reload,
     threadVars, ownVars, queueVars, histVars, Same
<1>3. copy[Loader] = {}
  BY <1>1, <1>2 DEF Typed, CopyOK, Saving
<1> QED BY <1>1, <1>2, <1>3, LifeHarmless

LEMMA LifeInit == Init => LifeInv
<1> SUFFICES ASSUME Init PROVE LifeInv
  OBVIOUS
<1>1. /\ \A t \in Threads : pc[t] \in {"new", "idle", "loading"} /\ copy[t] = {}
      /\ \A j \in Reqs : job[j].status = "NONE"
      /\ \A k \in Kinds : DOMAIN q[k] = {}
      /\ \A w \in Workers : w \in Threads
  BY DEF Init, Threads
<1> QED BY <1>1 DEF LifeInv, FreshOK, OpenedOK, QueueOK, WorkerOK, OwnerOK, BackOK, Opened, Outcome

LEMMA LifeNext ==
  ASSUME ~UnsafeCollections, Typed, LifeInv, [Next]_vars
  PROVE  LifeInv'
<1>1. CASE UNCHANGED vars
  <2>1. UNCHANGED <<pc, cur, job, q, copy, split>>
    BY <1>1 DEF vars, threadVars, ownVars, queueVars, restVars, histVars
  <2> QED BY <2>1 DEF LifeInv, FreshOK, OpenedOK, QueueOK, WorkerOK, OwnerOK, BackOK, Fresh,
             Creating, Opened, Outcome, Owner
<1>2. CASE Next
  BY <1>2, LifeRequest, LifeTake, LifeSearch, LifeSave, LifeAnswer, LifeQueue, LifeLoad DEF Next
<1> QED BY <1>1, <1>2

LEMMA LifeAlways ==
  ASSUME ~UnsafeCollections
  PROVE  Spec => [](Typed /\ LifeInv)
<1>1. Typed /\ LifeInv /\ [Next]_vars => (Typed /\ LifeInv)'
  BY LifeNext, TypedNext
<1>2. Init => Typed /\ LifeInv
  BY TypedInit, LifeInit
<1> QED BY <1>1, <1>2, PTL DEF Spec

(* The end of a search gives its job an outcome.                           *)
LEMMA OutcomeIsSet ==
  ASSUME Typed, NEW t \in Reqs \cup Workers, Finish(t) \/ StoreThrows(t)
  PROVE  job'[cur[t]].status \in Final
<1>1. cur[t] \in Reqs /\ job \in [Reqs -> JobRec]
  BY JobHandlerAssumption DEF Typed, TypeOK, JobRec, CurOK, Busy, LoaderOK, Threads, Finish,
     StoreThrows
<1>2. \E s \in Final : job' = [job EXCEPT ![cur[t]].status = s]
  BY DEF Finish, StoreThrows, Final
<1> QED BY <1>1, <1>2 DEF JobRec

(* Which steps change the status of a job.                                 *)
LEMMA StatusSteps ==
  ASSUME Typed, Next, NEW j \in Reqs, job'[j].status # job[j].status
  PROVE  \/ Register(j) /\ cur[j] = j
         \/ \E t \in Reqs \cup Workers :
              /\ cur[t] = j
              /\ Finish(t) \/ StoreThrows(t) \/ CopyBack(t)
<1>1. job \in [Reqs -> JobRec]
  BY DEF Typed, TypeOK, JobRec
<1>2. ASSUME NEW r \in Reqs, Register(r) PROVE j = r /\ cur[r] = r
  BY <1>1, <1>2 DEF Register
<1>3. ASSUME NEW t \in Reqs \cup Workers, Finish(t) \/ StoreThrows(t) \/ CopyBack(t)
      PROVE  cur[t] = j
  BY <1>1, <1>3 DEF Finish, StoreThrows, CopyBack
<1>4. ASSUME NEW r \in Reqs, RequestStep(r) PROVE Register(r)
  <2>1. ~RunSync(r)
    <3>1. SUFFICES ASSUME RunSync(r) PROVE FALSE
      OBVIOUS
    <3>2. job' = [job EXCEPT ![cur[r]].runs = @ + 1]
      BY <3>1 DEF RunSync, BeginSearch
    <3> QED BY <1>1, <3>2 DEF JobRec
  <2> QED BY <1>4, <2>1 DEF RequestStep, LookUp, LookUpBreaks, LookUpFails, SaveBreaks, Enqueue,
            JoinQueued, RefuseSync
<1>5. ~TakeStep
  BY TakeChanges
<1>6. ASSUME NEW t \in Reqs \cup Workers, SaveStep(t) \/ SearchStep(t) \/ AnswerStep(t)
      PROVE  Finish(t) \/ StoreThrows(t) \/ CopyBack(t)
  BY <1>6 DEF SaveStep, SaveDone, Merge, SearchStep, FailThrows, Release, AnswerStep, BeginRound,
     Post, RoundDone, RoundBreaks
<1>7. ~LoadStep /\ \A t \in Threads : ~QueueStep(t)
  BY DEF QueueStep, CheckQueue, StartTask, LoadStep, CachedDataIsReady, RealDataIsReady,
     ElasticSearchIsReady, LoadFails, Reload
<1> QED BY <1>2, <1>3, <1>4, <1>5, <1>6, <1>7 DEF Next

(* An outcome is followed by an opening only while the creator saves.      *)
LEMMA OpeningStep ==
  ASSUME Typed, LifeInv, Next, NEW j \in Reqs \ split,
         job[j].status \in Final, job'[j].status = "PENDING"
  PROVE  pc[j] = "save" /\ cur[j] = j
<1>1. job \in [Reqs -> JobRec] /\ pc \in [Threads -> PCs]
  BY DEF Typed, TypeOK, JobRec
<1>2. ~(Register(j) /\ cur[j] = j)
  BY DEF Register, LifeInv, FreshOK, Fresh, Final
<1>3. PICK t \in Reqs \cup Workers : cur[t] = j /\ (Finish(t) \/ StoreThrows(t) \/ CopyBack(t))
  <2>1. job'[j].status # job[j].status
    BY DEF Final
  <2> QED BY <1>2, <2>1, StatusSteps
<1>4. ~Finish(t) /\ ~StoreThrows(t)
  BY <1>3, OutcomeIsSet DEF Final
<1>5. PICK c \in copy[t] : c.status = "PENDING"
  BY <1>1, <1>3, <1>4 DEF CopyBack
<1>6. Owner(t) /\ pc[t] = "save"
  BY <1>3, <1>5 DEF LifeInv, BackOK, Final, Threads
<1> QED BY <1>3, <1>6 DEF LifeInv, WorkerOK, Owner

(* With any requests, synchronous ones included: a job with an outcome     *)
(* does not open again, unless it is split or its creator is still saving. *)
THEOREM NeverOpensAgain ==
  ASSUME ~UnsafeCollections
  PROVE  Spec => NeverReopened
<1>1. Typed /\ LifeInv /\ [Next]_vars =>
        [\A j \in Reqs \ split : job[j].status \in Final /\ job'[j].status = "PENDING" =>
           pc[j] = "save" /\ cur[j] = j]_vars
  BY OpeningStep
<1> QED BY <1>1, LifeAlways, PTL DEF Spec, NeverReopened

-----------------------------------------------------------------------------
(* An open job is scheduled.                                               *)
Stuck(j) == pc[j] \in {"refused", "error"}

(* Job j stays on its way while thread t takes a step that leaves the      *)
(* queues alone, provided it does when t is what it depends on.            *)
LEMMA OnItsWay ==
  ASSUME Typed, NEW t \in Threads, \A u \in Threads \ {t} : Same(u),
         UNCHANGED <<call, q>>, NEW j \in Reqs, Scheduled(j) \/ Stuck(j),
         t = j /\ Stuck(j) => Stuck(j)',
         t = j /\ pc[j] \in {"save", "dispatch"} /\ cur[j] = j => Scheduled(j)' \/ Stuck(j)',
         cur[t] = j /\ pc[t] = "search" => Scheduled(j)'
  PROVE  Scheduled(j)' \/ Stuck(j)'
<1>1. j \in Threads
  BY DEF Threads
<1>2. CASE Stuck(j)
  BY <1>1, <1>2 DEF Stuck, Same
<1>3. CASE pc[j] \in {"save", "dispatch"} /\ cur[j] = j
  BY <1>1, <1>3 DEF Scheduled, Same
<1>4. CASE Queued(j)
  BY <1>4 DEF Queued, Scheduled
<1>5. CASE \E u \in Threads : cur[u] = j /\ pc[u] = "search"
  BY <1>5 DEF Scheduled, Same
<1> QED BY <1>2, <1>3, <1>4, <1>5 DEF Scheduled

LEMMA ScheduledNext ==
  ASSUME ~UnsafeCollections, Typed, LifeInv, OpenIsScheduled, Next
  PROVE  OpenIsScheduled'
<1> USE JobHandlerAssumption
<1> SUFFICES ASSUME NEW j \in Reqs \ split', job'[j].status = "PENDING"
             PROVE  Scheduled(j)' \/ Stuck(j)'
  BY DEF OpenIsScheduled, Stuck
<1>1. /\ pc \in [Threads -> PCs] /\ cur \in [Threads -> Reqs \cup {NoJob}]
      /\ Threads = Reqs \cup Workers \cup {Loader} /\ job \in [Reqs -> JobRec]
      /\ q \in [Kinds -> Seq(Reqs)] /\ \A r \in Reqs : call[r].kind \in Kinds
  BY CallTyped DEF Typed, TypeOK, Threads, JobRec, Call
<1>2. CASE Register(j) /\ cur[j] = j
  <2>1. pc'[j] = "save" /\ cur'[j] = j
    BY <1>1, <1>2 DEF Register
  <2> QED BY <2>1 DEF Scheduled
<1>3. CASE \E t \in Reqs \cup Workers : cur[t] = j /\ CopyBack(t)
  <2>1. PICK t \in Reqs \cup Workers : cur[t] = j /\ CopyBack(t)
    BY <1>3
  <2>2. /\ split' = split /\ t \in Threads
        /\ \E c \in copy[t] : c.status = "PENDING"
    BY <1>1, <2>1 DEF CopyBack
  <2>3. Owner(t) /\ pc[t] = "save"
    BY <2>1, <2>2 DEF LifeInv, BackOK, Final
  <2>4. t = j
    BY <2>1, <2>3 DEF LifeInv, WorkerOK, Owner
  <2>5. pc'[t] = "dispatch" /\ cur'[t] = cur[t]
    BY <1>1, <2>1, <2>2, <2>3 DEF CopyBack, AfterSave
  <2> QED BY <2>1, <2>4, <2>5 DEF Scheduled
<1> SUFFICES ASSUME ~(Register(j) /\ cur[j] = j),
                    \A t \in Reqs \cup Workers : cur[t] = j => ~CopyBack(t)
             PROVE  Scheduled(j)' \/ Stuck(j)'
  BY <1>2, <1>3
<1>4. \A t \in Reqs \cup Workers : Finish(t) \/ StoreThrows(t) => cur[t] # j
  BY OutcomeIsSet DEF Final
<1>5. job[j].status = "PENDING" /\ (Scheduled(j) \/ Stuck(j))
  <2>1. job[j].status = "PENDING"
    BY <1>4, StatusSteps
  <2>2. split \subseteq split'
    BY DEF Next, RequestStep, LookUp, LookUpBreaks, LookUpFails, Register, SaveBreaks, Enqueue,
       JoinQueued, RefuseSync, RunSync, TakeStep, Take, TakeTogether, SaveStep, SaveDone, Merge,
       CopyBack, SearchStep, Finish, StoreThrows, FailThrows, Release, AnswerStep, BeginRound,
       Post, RoundDone, RoundBreaks, QueueStep, CheckQueue, StartTask, LoadStep,
       CachedDataIsReady, RealDataIsReady, ElasticSearchIsReady, LoadFails, Reload,
       restVars, histVars
  <2> QED BY <2>1, <2>2 DEF OpenIsScheduled, Stuck
<1>6. ASSUME NEW r \in Reqs, RequestStep(r) PROVE Scheduled(j)' \/ Stuck(j)'
  <2>1. r \in Threads /\ \A t \in Threads \ {r} : Same(t)
    BY <1>1, <1>6 DEF RequestStep, LookUp, LookUpBreaks, LookUpFails, Register, SaveBreaks,
       Enqueue, JoinQueued, RefuseSync, RunSync, Same
  <2>2. CASE Enqueue(r)
    <3>1. /\ cur[r] = r /\ pc[r] = "dispatch" /\ call' = call /\ pc'[r] = "handle"
          /\ q' = [q EXCEPT ![call[r].kind] = Append(@, r)]
      BY <1>1, <2>1, <2>2 DEF Enqueue, Adding, Add
    <3>2. q[call[j].kind] \in Seq(Reqs) /\ (Queued(j) => Queued(j)')
      <4>1. \/ q'[call[j].kind] = q[call[j].kind]
            \/ q'[call[j].kind] = Append(q[call[j].kind], r)
        BY <1>1, <3>1
      <4>2. q[call[j].kind] \in Seq(Reqs)
        BY <1>1
      <4> QED BY <3>1, <4>1, <4>2 DEF Queued
    <3>3. CASE j = r
      <4>1. q'[call[j].kind] = Append(q[call[j].kind], j)
        BY <1>1, <3>1, <3>3
      <4>2. Len(q'[call[j].kind]) \in DOMAIN q'[call[j].kind]
            /\ q'[call[j].kind][Len(q'[call[j].kind])] = j
        BY <3>2, <4>1
      <4> QED BY <3>1, <4>2 DEF Queued, Scheduled
    <3>4. CASE j # r
      BY <1>1, <1>5, <2>1, <3>1, <3>2, <3>4 DEF Scheduled, Stuck, Same
    <3> QED BY <3>3, <3>4
  <2>3. CASE ~Enqueue(r)
    <3>1. UNCHANGED <<call, q>> /\ pc[r] # "search" /\ ~Stuck(r)
      BY <1>6, <2>3 DEF RequestStep, LookUp, LookUpBreaks, LookUpFails, Register, SaveBreaks,
         JoinQueued, RefuseSync, RunSync, queueVars, Stuck
    <3>2. r = j /\ pc[j] \in {"save", "dispatch"} /\ cur[j] = j => Scheduled(j)' \/ Stuck(j)'
      BY <1>1, <1>6, <2>1, <2>3 DEF RequestStep, LookUp, LookUpBreaks, LookUpFails, Register,
         SaveBreaks, JoinQueued, RefuseSync, RunSync, Scheduled, Stuck
    <3> QED BY <1>5, <2>1, <3>1, <3>2, OnItsWay
  <2> QED BY <2>2, <2>3
<1>7. ASSUME NEW w \in Workers, NEW k \in Kinds, Take(w, k) PROVE Scheduled(j)' \/ Stuck(j)'
  <2>1. w \in Threads /\ pc[w] = "idle" /\ call' = call /\ \A t \in Threads \ {w} : Same(t)
    BY <1>1, <1>7 DEF Take, Same
  <2>2. CASE q[k] = <<>>
    BY <1>5, <2>1, <2>2, <1>7, OnItsWay DEF Take, Stuck
  <2>3. CASE q[k] # <<>>
    <3>1. /\ pc'[w] = "search" /\ cur'[w] = Head(q[k]) /\ q' = [q EXCEPT ![k] = Tail(@)]
      BY <1>1, <2>1, <1>7, <2>3 DEF Take
    <3>2. Queued(j) => Queued(j)' \/ j = Head(q[k])
      <4>1. CASE call[j].kind = k
        <5>1. q[k] \in Seq(Reqs) /\ q'[k] = Tail(q[k])
          BY <1>1, <3>1
        <5>2. \A i \in DOMAIN q[k] : i # 1 => i - 1 \in DOMAIN q'[k] /\ q'[k][i - 1] = q[k][i]
          <6>1. \A i \in DOMAIN q[k] : i # 1 => i - 1 \in DOMAIN q'[k] /\ (i - 1) + 1 = i
            BY <2>3, <5>1
          <6>2. \A n \in DOMAIN q'[k] : q'[k][n] = q[k][n + 1]
            BY <2>3, <5>1
          <6> QED BY <6>1, <6>2
        <5>3. Head(q[k]) = q[k][1]
          BY <5>1
        <5> QED BY <2>1, <4>1, <5>2, <5>3 DEF Queued
      <4>2. CASE call[j].kind # k
        BY <1>1, <2>1, <3>1, <4>2 DEF Queued
      <4> QED BY <4>1, <4>2
    <3>3. j \in Threads \ {w}
      BY <1>1
    <3> QED BY <1>5, <2>1, <3>1, <3>2, <3>3 DEF Scheduled, Stuck, Same
  <2> QED BY <2>2, <2>3
<1>8. ASSUME NEW t \in Reqs \cup Workers, SaveStep(t) \/ SearchStep(t) \/ AnswerStep(t)
      PROVE  Scheduled(j)' \/ Stuck(j)'
  <2>1. /\ t \in Threads /\ UNCHANGED <<call, q>> /\ \A u \in Threads \ {t} : Same(u)
        /\ ~Stuck(t)
    <3>1. CASE SaveStep(t)
      BY <1>1, <3>1 DEF SaveStep, SaveDone, Merge, CopyBack, AfterSave, Dies, EndSearch, Saving,
         Typed, CopyOK, queueVars, Same, Stuck
    <3>2. CASE SearchStep(t)
      BY <1>1, <3>2 DEF SearchStep, Finish, StoreThrows, FailThrows, Release, Dies, EndSearch,
         queueVars, Same, Stuck
    <3>3. CASE AnswerStep(t)
      BY <1>1, <3>3 DEF AnswerStep, BeginRound, Post, RoundDone, RoundBreaks, InRound, EndRound,
         EndSearch, queueVars, Same, Stuck
    <3> QED BY <1>8, <3>1, <3>2, <3>3
  <2>2. cur[t] = j => pc[t] # "search"
    BY <1>4, <1>8 DEF SaveStep, SaveDone, Merge, CopyBack, Saving, Typed, CopyOK, SearchStep,
       FailThrows, Release, StoreThrows, Finish, AnswerStep, BeginRound, Post, RoundDone,
       RoundBreaks, InRound
  <2>3. t = j /\ pc[j] \in {"save", "dispatch"} /\ cur[j] = j => Scheduled(j)'
    <3>1. SUFFICES ASSUME t = j, pc[j] \in {"save", "dispatch"}, cur[j] = j
                   PROVE  Scheduled(j)'
      OBVIOUS
    <3>2. cur'[j] = j /\ pc'[j] \in {"save", "dispatch"}
      <4>1. CASE SaveDone(t)
        BY <1>1, <2>1, <3>1, <4>1 DEF SaveDone, AfterSave, Saving
      <4>2. CASE Merge(t)
        BY <3>1, <4>2 DEF Merge
      <4> QED BY <1>8, <3>1, <4>1, <4>2 DEF SaveStep, SearchStep, Finish, StoreThrows,
                 FailThrows, Release, AnswerStep, BeginRound, Post, RoundDone, RoundBreaks, InRound
    <3> QED BY <3>2 DEF Scheduled
  <2>4. t = j /\ Stuck(j) => Stuck(j)'
    BY <2>1
  <2> QED BY <1>5, <2>1, <2>2, <2>3, <2>4, OnItsWay
<1>9. ASSUME NEW t \in Threads, QueueStep(t) PROVE Scheduled(j)' \/ Stuck(j)'
  <2>1. /\ UNCHANGED <<call, q>> /\ \A u \in Threads \ {t} : Same(u)
        /\ pc[t] \notin {"refused", "error", "save", "dispatch", "search"}
    BY <1>1, <1>9 DEF QueueStep, CheckQueue, StartTask, queueVars, Same
  <2> QED BY <1>5, <2>1, OnItsWay DEF Stuck
<1>10. CASE LoadStep
  <2>1. /\ Loader \in Threads /\ UNCHANGED <<call, q>> /\ \A u \in Threads \ {Loader} : Same(u)
        /\ pc[Loader] # "search" /\ Loader # j
    BY <1>1, <1>10 DEF LoadStep, CachedDataIsReady, RealDataIsReady, ElasticSearchIsReady,
       LoadFails, Reload, threadVars, queueVars, Same
  <2> QED BY <1>5, <2>1, OnItsWay
<1>11. ~(\E v, w \in Workers, k \in Kinds : TakeTogether(v, w, k))
  BY DEF TakeTogether
<1> QED BY <1>6, <1>7, <1>8, <1>9, <1>10, <1>11 DEF Next, TakeStep

(* With any requests: an open job that is not split is about to be queued, *)
(* queued or searched, unless its creator was refused or has failed.       *)
THEOREM OpenStaysScheduled ==
  ASSUME ~UnsafeCollections
  PROVE  Spec => []OpenIsScheduled
<1>1. Init => OpenIsScheduled
  BY DEF Init, OpenIsScheduled
<1>2. Typed /\ LifeInv /\ OpenIsScheduled /\ [Next]_vars => OpenIsScheduled'
  <2>1. OpenIsScheduled /\ UNCHANGED vars => OpenIsScheduled'
    BY DEF vars, threadVars, queueVars, restVars, histVars, OpenIsScheduled, Scheduled, Queued
  <2> QED BY <2>1, ScheduledNext
<1> QED BY <1>1, <1>2, LifeAlways, PTL DEF Spec
-----------------------------------------------------------------------------
(* When all requests are asynchronous, a job is searched once: whatever    *)
(* requests share it, and whoever inserts it.                              *)
Asynchronous == \A c \in Calls : \A r \in Reqs : ~c[r].sync

Searched(j)  == \E t \in Threads : pc[t] = "search" /\ cur[t] = j
Untouched(j) == job[j].runs = 0 /\ ~Queued(j) /\ ~Searched(j)

(* A job that its creator has not queued yet is in no queue and search; .. *)
CreatingOK == \A j \in Reqs : Creating(j) => Untouched(j)
(* .. the jobs in a queue are of its kind, not searched and there once; .. *)
WaitingOK(k) ==
  /\ \A i \in DOMAIN q[k] :
       call[q[k][i]].kind = k /\ job[q[k][i]].runs = 0 /\ ~Searched(q[k][i])
  /\ \A i, n \in DOMAIN q[k] : q[k][i] = q[k][n] => i = n
(* .. and a search is the first and only one of its job.                   *)
SearchOK ==
  /\ \A t \in Threads : pc[t] = "search" => job[cur[t]].runs = 1
  /\ \A t, u \in Threads :
       pc[t] = "search" /\ pc[u] = "search" /\ cur[t] = cur[u] => t = u
OnceInv == CreatingOK /\ (\A k \in Kinds : WaitingOK(k)) /\ SearchOK /\ ProcessedOnce

(* Steps that touch neither a queue nor the count of searches.             *)
LEMMA OnceKept ==
  ASSUME Typed, OnceInv, UNCHANGED <<call, q>>,
         \A j \in Reqs : job'[j].runs = job[j].runs,
         \A j \in Reqs : Creating(j)' => Creating(j),
         \A t \in Threads : pc'[t] = "search" => pc[t] = "search" /\ cur'[t] = cur[t]
  PROVE  OnceInv'
<1>1. /\ \A k \in Kinds : \A i \in DOMAIN q[k] : q[k][i] \in Reqs
      /\ \A t \in Threads : pc[t] = "search" => cur[t] \in Reqs
  BY DEF Typed, TypeOK, CurOK, LoaderOK, Busy
<1>2. \A j : (Searched(j)' => Searched(j)) /\ (Queued(j)' <=> Queued(j))
  BY DEF Searched, Queued
<1>3. CreatingOK'
  BY <1>2 DEF OnceInv, CreatingOK, Untouched
<1>4. ASSUME NEW k \in Kinds PROVE WaitingOK(k)'
  BY <1>1, <1>2 DEF OnceInv, WaitingOK
<1>5. SearchOK'
  BY <1>1 DEF OnceInv, SearchOK
<1>6. ProcessedOnce'
  BY DEF OnceInv, ProcessedOnce
<1> QED BY <1>3, <1>4, <1>5, <1>6 DEF OnceInv

(* The creator of a job queues it.                                         *)
LEMMA OnceEnqueue ==
  ASSUME Typed, OnceInv, ~UnsafeCollections, NEW r \in Reqs, Enqueue(r)
  PROVE  OnceInv'
<1> USE JobHandlerAssumption
<1>0. PICK k \in Kinds : call[r].kind = k
  BY CallTyped DEF Call
<1>1. /\ pc \in [Threads -> PCs] /\ r \in Threads /\ \A j \in Reqs : j \in Threads
      /\ q \in [Kinds -> Seq(Reqs)]
      /\ \A j \in Reqs : call[j].kind \in Kinds
  BY CallTyped DEF Typed, TypeOK, Threads, Call
<1>2. /\ pc[r] = "dispatch" /\ cur[r] = r /\ pc' = [pc EXCEPT ![r] = "handle"]
      /\ UNCHANGED <<call, cur, job>>
  BY DEF Enqueue, Adding
<1>3. q' = [q EXCEPT ![k] = Append(@, r)]
  BY <1>0, <1>2 DEF Enqueue, Add
<1>4. Untouched(r)
  BY <1>2 DEF OnceInv, CreatingOK, Creating
<1>5. \A n \in Kinds \ {k} : q'[n] = q[n]
  BY <1>1, <1>3
<1>6. /\ DOMAIN q'[k] = 1..(Len(q[k]) + 1) /\ DOMAIN q[k] = 1..Len(q[k])
      /\ q'[k][Len(q[k]) + 1] = r
      /\ \A i \in DOMAIN q[k] : q'[k][i] = q[k][i]
      /\ Len(q[k]) \in Nat
  <2>1. q'[k] = Append(q[k], r)
    BY <1>1, <1>3
  <2>2. q[k] \in Seq(Reqs)
    BY <1>1
  <2> QED BY <2>1, <2>2
<1>7. \A j : Searched(j)' <=> Searched(j)
  BY <1>1, <1>2 DEF Searched
<1>8. \A j \in Reqs : Queued(j)' => Queued(j) \/ j = r
  <2>1. ASSUME NEW j \in Reqs, call[j].kind = k, Queued(j)' PROVE Queued(j) \/ j = r
    BY <1>2, <1>6, <2>1 DEF Queued
  <2>2. ASSUME NEW j \in Reqs, call[j].kind # k, Queued(j)' PROVE Queued(j)
    BY <1>1, <1>2, <1>5, <2>2 DEF Queued
  <2> QED BY <2>1, <2>2
<1>9. CreatingOK'
  <2>1. \A j \in Reqs : Creating(j)' => Creating(j) /\ j # r
    BY <1>1, <1>2 DEF Creating
  <2> QED BY <1>2, <1>7, <1>8, <2>1 DEF OnceInv, CreatingOK, Untouched
<1>10. WaitingOK(k)'
  <2>1. \A i \in DOMAIN q[k] : q[k][i] # r
    BY <1>0, <1>4 DEF Untouched, Queued
  <2>2. WaitingOK(k)
    BY <1>1 DEF OnceInv
  <2>3. ASSUME NEW i \in DOMAIN q'[k], NEW e, e = q'[k][i]
        PROVE  call[e].kind = k /\ job[e].runs = 0 /\ ~Searched(e)
    <3>1. CASE i = Len(q[k]) + 1
      BY <1>0, <1>4, <1>6, <2>3, <3>1 DEF Untouched
    <3>2. CASE i # Len(q[k]) + 1
      <4>1. i \in DOMAIN q[k]
        BY <1>6, <3>2
      <4> QED BY <1>6, <2>2, <2>3, <4>1 DEF WaitingOK
    <3> QED BY <3>1, <3>2
  <2>4. \A i, m \in DOMAIN q'[k] : q'[k][i] = q'[k][m] => i = m
    <3>1. \A i, m \in DOMAIN q[k] : q[k][i] = q[k][m] => i = m
      BY <2>2 DEF WaitingOK
    <3> QED BY <1>6, <2>1, <3>1
  <2> QED BY <1>2, <1>7, <2>3, <2>4 DEF WaitingOK
<1>11. ASSUME NEW n \in Kinds PROVE WaitingOK(n)'
  <2>1. CASE n # k
    <3>1. WaitingOK(n) /\ q'[n] = q[n]
      BY <1>5, <2>1 DEF OnceInv
    <3> QED BY <1>2, <1>7, <3>1 DEF WaitingOK
  <2> QED BY <1>10, <2>1
<1>12. SearchOK' /\ ProcessedOnce'
  BY <1>1, <1>2 DEF OnceInv, SearchOK, ProcessedOnce
<1> QED BY <1>9, <1>11, <1>12 DEF OnceInv
(* A pool thread takes the job at the head of a queue.                     *)
LEMMA OnceTake ==
  ASSUME Typed, OnceInv, NEW w \in Workers, NEW k \in Kinds, Take(w, k)
  PROVE  OnceInv'
<1> USE JobHandlerAssumption
<1>1. /\ pc \in [Threads -> PCs] /\ cur \in [Threads -> Reqs \cup {NoJob}]
      /\ w \in Threads /\ \A j \in Reqs : j \in Threads /\ j # w
      /\ q \in [Kinds -> Seq(Reqs)] /\ job \in [Reqs -> JobRec]
      /\ \A j \in Reqs : call[j].kind \in Kinds
      /\ \A t \in Threads : pc[t] = "search" => cur[t] \in Reqs
  BY CallTyped DEF Typed, TypeOK, Threads, JobRec, Call, CurOK, LoaderOK, Busy
<1>2. CASE q[k] = <<>>
  BY <1>2, OnceKept DEF Take, Creating
<1>3. CASE q[k] # <<>>
  <2> DEFINE h == Head(q[k])
  <2>1. /\ pc[w] = "idle" /\ pc' = [pc EXCEPT ![w] = "search"]
        /\ cur' = [cur EXCEPT ![w] = h]
        /\ q' = [q EXCEPT ![k] = Tail(@)] /\ job' = [job EXCEPT ![h].runs = @ + 1]
        /\ call' = call
    BY <1>3 DEF Take, BeginSearch
  <2>2. \A n \in Kinds \ {k} : q'[n] = q[n]
    BY <1>1, <2>1
  <2>3. q'[k] = Tail(q[k]) /\ q[k] \in Seq(Reqs)
    BY <1>1, <2>1
  <2>4. /\ Len(q[k]) \in Nat /\ 1 \in DOMAIN q[k] /\ h = q[k][1] /\ h \in Reqs
        /\ DOMAIN q[k] = 1..Len(q[k]) /\ DOMAIN q'[k] = 1..(Len(q[k]) - 1)
        /\ \A i \in DOMAIN q'[k] : i + 1 \in DOMAIN q[k] /\ q'[k][i] = q[k][i + 1]
    BY <1>3, <2>3
  <2> HIDE DEF h
  <2>5. /\ call[h].kind = k /\ job[h].runs = 0 /\ ~Searched(h)
        /\ \A i, m \in DOMAIN q[k] : q[k][i] = q[k][m] => i = m
    BY <2>4 DEF OnceInv, WaitingOK
  <2>6. \A j \in Reqs : job'[j].runs = IF j = h THEN 1 ELSE job[j].runs
    BY <1>1, <2>1, <2>4, <2>5 DEF JobRec
  <2>7. pc'[w] = "search" /\ cur'[w] = h /\ \A t \in Threads \ {w} : Same(t)
    BY <1>1, <2>1 DEF Same
  <2>8. \A j : Searched(j)' => Searched(j) \/ j = h
    BY <2>7 DEF Searched, Same
  <2>9. Queued(h)
    BY <2>4, <2>5 DEF Queued
  <2>10. ASSUME NEW n \in Kinds, NEW i \in DOMAIN q'[n]
         PROVE  \E m \in DOMAIN q[n] : q'[n][i] = q[n][m] /\ q[n][m] # h
    <3>1. CASE n = k
      <4>1. i + 1 # 1 /\ i + 1 \in DOMAIN q[k] /\ q'[k][i] = q[k][i + 1]
        BY <2>4, <2>10, <3>1
      <4> QED BY <2>4, <2>5, <3>1, <4>1
    <3>2. CASE n # k
      <4>1. q'[n] = q[n]
        BY <2>2, <3>2
      <4>2. call[q[n][i]].kind = n
        BY <2>10, <4>1 DEF OnceInv, WaitingOK
      <4> QED BY <2>5, <2>10, <3>2, <4>1, <4>2
    <3> QED BY <3>1, <3>2
  <2>11. CreatingOK'
    <3>1. \A j \in Reqs : Creating(j)' => Creating(j) /\ j # h
      BY <1>1, <2>7, <2>9 DEF OnceInv, CreatingOK, Untouched, Creating, Same
    <3>2. \A j \in Reqs : Queued(j)' => Queued(j)
      BY <1>1, <2>1, <2>10 DEF Queued
    <3> QED BY <2>6, <2>8, <3>1, <3>2 DEF OnceInv, CreatingOK, Untouched
  <2>12. ASSUME NEW n \in Kinds PROVE WaitingOK(n)'
    <3>1. ASSUME NEW i \in DOMAIN q'[n], NEW e, e = q'[n][i]
          PROVE  call'[e].kind = n /\ job'[e].runs = 0 /\ ~Searched(e)'
      <4>1. PICK m \in DOMAIN q[n] : e = q[n][m] /\ e # h
        BY <2>10, <3>1
      <4>2. e \in Reqs
        BY <1>1, <4>1
      <4> QED BY <2>1, <2>6, <2>8, <4>1, <4>2 DEF OnceInv, WaitingOK
    <3>2. ASSUME NEW i \in DOMAIN q'[n], NEW m \in DOMAIN q'[n], q'[n][i] = q'[n][m]
          PROVE  i = m
      <4>1. CASE n = k
        <5>1. i + 1 \in DOMAIN q[k] /\ m + 1 \in DOMAIN q[k] /\ q[k][i + 1] = q[k][m + 1]
          BY <2>4, <3>2, <4>1
        <5>2. i + 1 = m + 1
          BY <2>5, <5>1
        <5>3. i \in Int /\ m \in Int
          BY <2>4, <3>2, <4>1
        <5> QED BY <5>2, <5>3
      <4>2. CASE n # k
        BY <2>2, <3>2, <4>2 DEF OnceInv, WaitingOK
      <4> QED BY <4>1, <4>2
    <3> QED BY <3>1, <3>2 DEF WaitingOK, Searched
  <2>13. SearchOK'
    <3>1. \A t \in Threads : pc'[t] = "search" <=> pc[t] = "search" \/ t = w
      BY <2>7 DEF Same
    <3>2. \A t \in Threads : pc[t] = "search" => cur[t] \in Reqs /\ cur[t] # h
      BY <1>1, <2>5 DEF Searched
    <3> QED BY <1>1, <2>1, <2>4, <2>6, <2>7, <3>1, <3>2 DEF OnceInv, SearchOK, Same
  <2>14. ProcessedOnce'
    BY <2>6 DEF OnceInv, ProcessedOnce
  <2> QED BY <2>11, <2>12, <2>13, <2>14 DEF OnceInv
<1> QED BY <1>2, <1>3

LEMMA OnceInit == Init => OnceInv
<1> SUFFICES ASSUME Init PROVE OnceInv
  OBVIOUS
<1>1. /\ \A t \in Threads : pc[t] # "search"
      /\ \A j \in Reqs : job[j].runs = 0
      /\ \A k \in Kinds : DOMAIN q[k] = {}
  BY DEF Init, Threads
<1>2. \A j \in Reqs : call[j].kind \in Kinds
  BY JobHandlerAssumption DEF Init, Call
<1> QED BY <1>1, <1>2 DEF OnceInv, CreatingOK, WaitingOK, SearchOK, ProcessedOnce, Untouched,
        Queued, Searched

LEMMA OnceNext ==
  ASSUME ~UnsafeCollections, Asynchronous, Typed, OnceInv, [Next]_vars
  PROVE  OnceInv'
<1> USE JobHandlerAssumption
<1>1. /\ pc \in [Threads -> PCs] /\ cur \in [Threads -> Reqs \cup {NoJob}]
      /\ Threads = Reqs \cup Workers \cup {Loader} /\ job \in [Reqs -> JobRec]
      /\ \A r \in Reqs : ~call[r].sync
  BY DEF Typed, TypeOK, Threads, JobRec, Asynchronous
<1> DEFINE Others(t) == \A u \in Threads \ {t} : Same(u)
           Runs      == \A j \in Reqs : job'[j].runs = job[j].runs
<1>2. ASSUME NEW t \in Threads, Others(t), Runs, UNCHANGED <<call, q>>,
             pc'[t] # "search" \/ Same(t), t \in Reqs => (Creating(t)' => Creating(t))
      PROVE  OnceInv'
  <2>1. \A j \in Reqs : Creating(j)' => Creating(j)
    BY <1>1, <1>2 DEF Creating, Same
  <2>2. \A u \in Threads : pc'[u] = "search" => pc[u] = "search" /\ cur'[u] = cur[u]
    BY <1>2 DEF Same
  <2> QED BY <1>2, <2>1, <2>2, OnceKept
<1>3. ASSUME NEW r \in Reqs, RequestStep(r) PROVE OnceInv'
  <2>1. CASE Enqueue(r)
    BY <2>1, OnceEnqueue
  <2>2. CASE ~Enqueue(r)
    <3>1. ~RunSync(r)
      BY <1>1 DEF RunSync
    <3>2. r \in Threads /\ Others(r) /\ UNCHANGED <<call, q>> /\ pc'[r] # "search"
          /\ (Creating(r)' => Creating(r))
      BY <1>1, <1>3, <2>2, <3>1 DEF RequestStep, LookUp, LookUpBreaks, LookUpFails, Register,
         SaveBreaks, JoinQueued, RefuseSync, queueVars, Same, Creating
    <3>3. Runs
      <4>1. CASE Register(r)
        BY <1>1, <4>1 DEF Register
      <4>2. CASE ~Register(r)
        BY <1>3, <2>2, <3>1, <4>2 DEF RequestStep, LookUp, LookUpBreaks, LookUpFails, SaveBreaks,
           JoinQueued, RefuseSync
      <4> QED BY <4>1, <4>2
    <3> HIDE DEF Others, Runs
    <3> QED BY <1>2, <3>2, <3>3
  <2> QED BY <2>1, <2>2
<1>4. CASE TakeStep
  BY <1>4, OnceTake DEF TakeStep, TakeTogether
<1>5. ASSUME NEW t \in Reqs \cup Workers, SaveStep(t) \/ SearchStep(t) \/ AnswerStep(t)
      PROVE  OnceInv'
  <2>1. /\ t \in Threads /\ UNCHANGED <<call, q>> /\ Others(t)
        /\ pc'[t] # "search" /\ (Creating(t)' => Creating(t))
    <3>1. CASE SaveStep(t)
      BY <1>1, <3>1 DEF SaveStep, SaveDone, Merge, CopyBack, AfterSave, Dies, EndSearch, Saving,
         Typed, CopyOK, queueVars, Same, Creating
    <3>2. CASE SearchStep(t)
      BY <1>1, <3>2 DEF SearchStep, Finish, StoreThrows, FailThrows, Release, Dies, EndSearch,
         queueVars, Same, Creating
    <3>3. CASE AnswerStep(t)
      BY <1>1, <3>3 DEF AnswerStep, BeginRound, Post, RoundDone, RoundBreaks, InRound, EndRound,
         EndSearch, queueVars, Same, Creating
    <3> QED BY <1>5, <3>1, <3>2, <3>3
  <2>2. Runs
    <3>1. ASSUME NEW i, NEW s, job' = [job EXCEPT ![i].status = s] PROVE Runs
      BY <1>1, <3>1 DEF JobRec
    <3>2. CASE Finish(t) \/ StoreThrows(t)
      BY <3>1, <3>2 DEF Finish, StoreThrows
    <3>3. CASE CopyBack(t)
      BY <1>1, <3>3 DEF CopyBack
    <3>4. CASE ~(Finish(t) \/ StoreThrows(t) \/ CopyBack(t))
      BY <1>5, <3>4 DEF SaveStep, SaveDone, Merge, SearchStep, FailThrows, Release, AnswerStep,
         BeginRound, Post, RoundDone, RoundBreaks
    <3> QED BY <3>2, <3>3, <3>4
  <2> HIDE DEF Others, Runs
  <2> QED BY <1>2, <2>1, <2>2
<1>6. ASSUME NEW t \in Threads, QueueStep(t) PROVE OnceInv'
  <2>1. UNCHANGED <<call, q>> /\ Others(t) /\ pc'[t] # "search" /\ (Creating(t)' => Creating(t))
        /\ Runs
    BY <1>1, <1>6 DEF QueueStep, CheckQueue, StartTask, AfterQueue, queueVars, Same, Creating
  <2> HIDE DEF Others, Runs
  <2> QED BY <1>2, <2>1
<1>7. CASE LoadStep
  <2>1. /\ Loader \in Threads /\ Loader \notin Reqs /\ UNCHANGED <<call, q>> /\ Others(Loader)
        /\ pc'[Loader] # "search" \/ Same(Loader)
        /\ Runs
    BY <1>1, <1>7 DEF LoadStep, CachedDataIsReady, RealDataIsReady, ElasticSearchIsReady,
       LoadFails, Reload, threadVars, queueVars, Same
  <2> HIDE DEF Others, Runs
  <2> QED BY <1>2, <2>1
<1>8. CASE UNCHANGED vars
  BY <1>8, OnceKept DEF vars, threadVars, queueVars, Creating
<1> QED BY <1>3, <1>4, <1>5, <1>6, <1>7, <1>8 DEF Next

(* No job is searched twice when all requests are asynchronous, and the    *)
(* collections behave: however requests, saves and answers interleave.     *)
THEOREM AsyncProcessedOnce ==
  ASSUME ~UnsafeCollections, Asynchronous
  PROVE  Spec => []ProcessedOnce
<1>1. Typed /\ OnceInv /\ [Next]_vars => (Typed /\ OnceInv)'
  BY OnceNext, TypedNext
<1>2. OnceInv => ProcessedOnce
  BY DEF OnceInv
<1> QED BY TypedInit, OnceInit, <1>1, <1>2, PTL DEF Spec
=============================================================================

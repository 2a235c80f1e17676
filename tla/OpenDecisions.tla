---------------------------- MODULE OpenDecisions ----------------------------
(***************************************************************************)
(* Decisions of users on the manual similarities of one entity             *)
(* (OpenSimilaritiesHandlerImpl.decisionOverObjectResult).  Every search   *)
(* that offered the entity left a main row with a child row per similar    *)
(* entity.  A request works on its own copies of the rows (the JPA session *)
(* of the web request); each save is a transaction that fails when a row   *)
(* it writes has another version than the copy.                            *)
(***************************************************************************)
EXTENDS FiniteSets, Integers

CONSTANTS
  Mains,      \* main rows of the entity, one per search that found something
  Related,    \* entities similar to it
  Remote,     \* those of another node or triple store
  Requests

ASSUME OpenDecisionsAssumption == Remote \subseteq Related

Decisions == {"ACCEPTED", "INVERTED", "DISCARDED"}

VARIABLES
  child,      \* state of the child rows, per main row and related entity
  main,       \* state of the main rows
  acts,       \* actions that have been built, one record per merge or link
  sent,       \* those that Kafka got
  pc, wants,  \* per request: where it is, and what it decides on which entity
  todo, cur,  \* per request: the main rows left, and the one at hand
  copy,       \* per request: its copies of the child and main rows
  stale       \* per request: rows that others have written since it read them

rowVars == <<child, main>>
vars    == <<rowVars, acts, sent, pc, wants, todo, cur, copy, stale>>

ChildRow(m, e) == <<"child", m, e>>
MainRow(m)     == <<"main", m>>
Children       == {"NONE", "OPEN", "CLOSED", "DISCARDED"}

(* Mutant: the row that has just been decided closes the main row.         *)
StateOfDecided(states) == IF \E e \in Related : states[e] \in {"CLOSED", "DISCARDED"}
                          THEN "CLOSED" ELSE "OPEN"
(* Mutant: the main row takes the state of one of its children.            *)
StateOfOneChild(states) == CHOOSE s \in {states[e] : e \in Related} : TRUE
(* setStateFromChild                                                       *)
StateFromChild(states) == IF \E e \in Related : states[e] = "OPEN" THEN "OPEN" ELSE "CLOSED"

-----------------------------------------------------------------------------
Nothing == [m \in Mains |-> [e \in Related |-> "NONE"]]
Absent  == [m \in Mains |-> "NONE"]

Init ==
  /\ child = Nothing /\ main = Absent
  /\ acts = {} /\ sent = {}
  /\ pc = [r \in Requests |-> "new"]
  /\ wants \in [Requests -> [related : Related, decision : Decisions]]
  /\ todo = [r \in Requests |-> {}] /\ cur = [r \in Requests |-> {}]
  /\ copy = [r \in Requests |-> [child |-> Nothing, main |-> Absent]]
  /\ stale = [r \in Requests |-> {}]

(* A search saves a main row with the manual similarities it has found,    *)
(* whatever was decided on them before.                                    *)
Offer(m) ==
  /\ main[m] = "NONE"
  /\ \E found \in SUBSET Related \ {{}} :
       child' = [child EXCEPT ![m] = [e \in Related |-> IF e \in found THEN "OPEN" ELSE "NONE"]]
  /\ main' = [main EXCEPT ![m] = "OPEN"]
  /\ UNCHANGED <<acts, sent, pc, wants, todo, cur, copy, stale>>

(* The request reads the main rows of the entity with their children.      *)
Begin(r) ==
  /\ pc[r] = "new"
  /\ \E m \in Mains : main[m] # "NONE"
  /\ pc'   = [pc EXCEPT ![r] = "next"]
  /\ todo' = [todo EXCEPT ![r] = {m \in Mains : main[m] # "NONE"}]
  /\ copy' = [copy EXCEPT ![r] = [child |-> child, main |-> main]]
  /\ UNCHANGED <<rowVars, acts, sent, wants, cur, stale>>

-----------------------------------------------------------------------------
(* Mutant: the rows carry no version.                                      *)
AnyVersion(r, rows) == TRUE
(* A transaction writes rows that nobody has written since they were read. *)
SameVersion(r, rows) == stale[r] \cap rows = {}

(* The other requests that hold copies of the rows will find them changed. *)
Written(r, rows) ==
  stale' = [q \in Requests |-> IF q = r \/ pc[q] = "new" THEN stale[q]
                           ELSE stale[q] \cup rows]

(* Mutant: only a discarded similarity cannot be decided again.            *)
IsOpenForAll(s) == s \notin {"NONE", "DISCARDED"}
(* A similarity can be decided as long as it is not CLOSED.                *)
Decidable(s) == s \notin {"NONE", "CLOSED"}

(* The main row does not offer the entity, or the similarity is closed.    *)
PassBy(r, m) ==
  /\ pc[r] = "next" /\ m \in todo[r]
  /\ ~Decidable(copy[r].child[m][wants[r].related])
  /\ pc'   = [pc EXCEPT ![r] = "finish"]
  /\ todo' = [todo EXCEPT ![r] = @ \ {m}] /\ cur' = [cur EXCEPT ![r] = {m}]
  /\ UNCHANGED <<rowVars, acts, sent, wants, copy, stale>>

(* The decision is saved in the child row, at once.                        *)
Decide(r, m) ==
  LET e == wants[r].related
      s == IF wants[r].decision = "DISCARDED" THEN "DISCARDED" ELSE "CLOSED"
      rows == IF copy[r].child[m][e] = s THEN {} ELSE {ChildRow(m, e)} IN
  /\ pc[r] = "next" /\ m \in todo[r]
  /\ Decidable(copy[r].child[m][e]) /\ SameVersion(r, rows)
  /\ child' = IF rows = {} THEN child ELSE [child EXCEPT ![m][e] = s]
  /\ copy' = [copy EXCEPT ![r].child[m][e] = s]
  /\ Written(r, rows)
  /\ pc'   = [pc EXCEPT ![r] = IF s = "DISCARDED" THEN "finish" ELSE "merge"]
  /\ todo' = [todo EXCEPT ![r] = @ \ {m}] /\ cur' = [cur EXCEPT ![r] = {m}]
  /\ UNCHANGED <<main, acts, sent, wants>>

(* What an accepted similarity makes of the main entity and the related    *)
(* one: whose data the UPDATE carries and which one the DELETE removes.    *)
(* When the main entity stays, toUpdate stays the row that was read, and   *)
(* the merged object is dropped.                                           *)
Merge(r, m) ==
  [by |-> r, main |-> m, related |-> wants[r].related,
   data |-> IF wants[r].related \in Remote \/ wants[r].decision = "ACCEPTED"
            THEN {"main"} ELSE {"main", "related"},
   gone |-> IF wants[r].related \in Remote THEN {}
            ELSE IF wants[r].decision = "ACCEPTED" THEN {"related"} ELSE {"main"}]

(* The main entity is replaced by the object that a merge has made.        *)
Replaces(r) == wants[r].decision = "INVERTED" /\ wants[r].related \notin Remote

(* The UPDATE is saved, and with it the main row: its state, and, unless   *)
(* the survivor is a new object, its reference to the action.              *)
SaveUpdate(r, m) ==
  LET s == StateFromChild(copy[r].child[m])
      rows == IF s = copy[r].main[m] /\ Replaces(r) THEN {} ELSE {MainRow(m)} IN
  /\ pc[r] = "merge" /\ cur[r] = {m} /\ SameVersion(r, rows)
  /\ acts' = acts \cup {Merge(r, m)}
  /\ main' = IF rows = {} THEN main ELSE [main EXCEPT ![m] = s]
  /\ copy' = [copy EXCEPT ![r].main[m] = s]
  /\ Written(r, rows)
  /\ pc'   = [pc EXCEPT ![r] = "delete"]
  /\ UNCHANGED <<child, sent, wants, todo, cur>>

(* The DELETE or the LINK is saved with the row it refers to.              *)
SaveOther(r, m) ==
  LET rows == IF Replaces(r) THEN {MainRow(m)} ELSE {ChildRow(m, wants[r].related)} IN
  /\ pc[r] = "delete" /\ cur[r] = {m} /\ SameVersion(r, rows)
  /\ Written(r, rows)
  /\ pc'   = [pc EXCEPT ![r] = "next"] /\ cur' = [cur EXCEPT ![r] = {}]
  /\ UNCHANGED <<rowVars, acts, sent, wants, todo, copy>>

(* A main row without a merge is saved with the state of its children.     *)
SaveMain(r, m) ==
  LET s == StateFromChild(copy[r].child[m])
      rows == IF s = copy[r].main[m] THEN {} ELSE {MainRow(m)} IN
  /\ pc[r] = "finish" /\ cur[r] = {m} /\ SameVersion(r, rows)
  /\ main' = IF rows = {} THEN main ELSE [main EXCEPT ![m] = s]
  /\ copy' = [copy EXCEPT ![r].main[m] = s]
  /\ Written(r, rows)
  /\ pc'   = [pc EXCEPT ![r] = "next"] /\ cur' = [cur EXCEPT ![r] = {}]
  /\ UNCHANGED <<child, acts, sent, wants, todo>>

(* Mutant: toPropague gets the links only.                                 *)
OwnLinks(r) == {a \in acts : a.by = r /\ a.gone = {}}
OwnActs(r)  == {a \in acts : a.by = r}

(* After the last row the actions of the request go to Kafka.              *)
Propagate(r) ==
  /\ pc[r] = "next" /\ todo[r] = {}
  /\ sent' = sent \cup OwnActs(r)
  /\ pc'   = [pc EXCEPT ![r] = "done"]
  /\ UNCHANGED <<rowVars, acts, wants, todo, cur, copy, stale>>

(* A row has another version, the database fails, or the process stops:    *)
(* what has been saved stays, and nothing is sent.                         *)
Abort(r) ==
  /\ pc[r] \in {"next", "merge", "delete", "finish"}
  /\ pc' = [pc EXCEPT ![r] = "aborted"]
  /\ UNCHANGED <<rowVars, acts, sent, wants, todo, cur, copy, stale>>

Step(r) ==
  \/ Begin(r) \/ Propagate(r) \/ Abort(r)
  \/ \E m \in Mains : PassBy(r, m) \/ Decide(r, m) \/ SaveUpdate(r, m)
                      \/ SaveOther(r, m) \/ SaveMain(r, m)

Next == (\E m \in Mains : Offer(m)) \/ (\E r \in Requests : Step(r))

Spec == Init /\ [][Next]_vars

-----------------------------------------------------------------------------
(* Properties                                                              *)

Rows    == {ChildRow(m, e) : m \in Mains, e \in Related} \cup {MainRow(m) : m \in Mains}
Parties == {"main", "related"}
Merges  == [by : Requests, main : Mains, related : Related,
            data : SUBSET Parties, gone : SUBSET Parties]
ChildStates == [Mains -> [Related -> Children]]
MainStates  == [Mains -> {"NONE", "OPEN", "CLOSED"}]

(* Every variable keeps its type.                                          *)
TypeOK ==
  /\ child \in ChildStates /\ main \in MainStates
  /\ acts \subseteq Merges /\ sent \subseteq acts
  /\ pc \in [Requests -> {"new", "next", "merge", "delete", "finish", "done", "aborted"}]
  /\ wants \in [Requests -> [related : Related, decision : Decisions]]
  /\ todo \in [Requests -> SUBSET Mains] /\ cur \in [Requests -> SUBSET Mains]
  /\ copy \in [Requests -> [child : ChildStates, main : MainStates]]
  /\ stale \in [Requests -> SUBSET Rows]

(* However many users accept a similarity at the same time, it is merged   *)
(* once, and what was merged is closed.                                    *)
MergedOnce ==
  /\ \A a, b \in acts : a.main = b.main /\ a.related = b.related => a = b
  /\ \A a \in acts : child[a.main][a.related] = "CLOSED"

(* A similarity that is closed stays closed.                               *)
ClosedIsFinal ==
  [][\A m \in Mains, e \in Related :
       child[m][e] = "CLOSED" => child'[m][e] = "CLOSED"]_vars

(* A main row that is no longer offered to the users has no similarity     *)
(* left that they could decide, whichever requests overlapped or failed.   *)
NothingHidden ==
  \A m \in Mains : main[m] = "CLOSED" => \A e \in Related : child[m][e] # "OPEN"

(* As long as no request fails, the closed similarities are, once all is   *)
(* quiet, those whose actions Kafka has got.                               *)
ClosedIsSent ==
  (\A r \in Requests : pc[r] \in {"new", "done"}) =>
    \A m \in Mains, e \in Related :
      child[m][e] = "CLOSED" <=> \E a \in sent : a.main = m /\ a.related = e

(* The related entity is deleted after its data has been kept.             *)
RelatedKept == \A a \in sent : a.gone \subseteq a.data

-----------------------------------------------------------------------------
(* The decisions as users see them: the merge of an action, whether a      *)
(* request is at work, and the search of which it has yet to save a merge. *)
MergesOf(as) == {[by |-> a.by, main |-> a.main, related |-> a.related] : a \in as}
PhaseOf(at)  == CASE at = "new" -> "new"
                  [] at \in {"next", "merge", "delete", "finish"} -> "deciding"
                  [] at = "done" -> "sent"
                  [] at = "aborted" -> "failed"
Phases == [r \in Requests |-> PhaseOf(pc[r])]
Owes   == [r \in Requests |-> IF pc[r] = "merge" THEN cur[r] ELSE {}]

Service == INSTANCE DecisionService WITH
  merged <- MergesOf(acts), sent <- MergesOf(sent),
  phase <- Phases, left <- todo, owes <- Owes

(* Requests that work on copies of the rows and overlap decide as if they  *)
(* came one after the other: their outcome is one of DecisionService.      *)
ImplementsService == Service!Spec
=============================================================================

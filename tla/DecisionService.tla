-------------------------- MODULE DecisionService ---------------------------
(***************************************************************************)
(* What users are promised of their decisions on the manual similarities   *)
(* of an entity: each decision takes effect at one moment, on the state    *)
(* the similarity then has, as if the requests came one after the other.   *)
(* A similarity that is closed stays so, is owed one merge by the request  *)
(* that closed it, and Kafka gets the merges of a request together.  There *)
(* are no copies of rows here, no versions and no sessions.                *)
(***************************************************************************)
EXTENDS FiniteSets, Integers

CONSTANTS
  Mains,      \* searches that offer similarities
  Related,    \* the similar entities
  Requests

VARIABLES
  child,      \* state of each similarity
  main,       \* whether the similarities of a search are shown to the users
  merged,     \* merges that have been made
  sent,       \* those that Kafka got
  phase,      \* per request
  wants,      \* per request: what it decides on which entity
  left,       \* per request: the searches whose similarity it has still to decide
  owes        \* per request: the search of which it has a merge to make

vars == <<child, main, merged, sent, phase, wants, left, owes>>

Init ==
  /\ child = [m \in Mains |-> [e \in Related |-> "NONE"]]
  /\ main = [m \in Mains |-> "NONE"]
  /\ merged = {} /\ sent = {}
  /\ phase = [r \in Requests |-> "new"]
  /\ left = [r \in Requests |-> {}] /\ owes = [r \in Requests |-> {}]

(* A search offers similarities.                                           *)
Offer(m) ==
  /\ main[m] = "NONE"
  /\ \E found \in SUBSET Related \ {{}} :
       child' = [child EXCEPT ![m] = [e \in Related |-> IF e \in found THEN "OPEN" ELSE "NONE"]]
  /\ main' = [main EXCEPT ![m] = "OPEN"]
  /\ UNCHANGED <<merged, sent, phase, wants, left, owes>>

Begin(r) ==
  /\ phase[r] = "new"
  /\ phase' = [phase EXCEPT ![r] = "deciding"]
  /\ left' = [left EXCEPT ![r] = {m \in Mains : main[m] # "NONE"}]
  /\ UNCHANGED <<child, main, merged, sent, wants, owes>>

-----------------------------------------------------------------------------
(* The moment of a decision.  The next one waits for what this one owes.   *)
Deciding(r, m) ==
  /\ phase[r] = "deciding" /\ owes[r] = {} /\ m \in left[r]
  /\ left' = [left EXCEPT ![r] = @ \ {m}]
  /\ UNCHANGED <<main, merged, sent, phase, wants>>

Undecided(r, m) == child[m][wants[r].related] \in {"OPEN", "DISCARDED"}

Close(r, m) ==
  /\ Deciding(r, m) /\ wants[r].decision # "DISCARDED" /\ Undecided(r, m)
  /\ child' = [child EXCEPT ![m][wants[r].related] = "CLOSED"]
  /\ owes' = [owes EXCEPT ![r] = {m}]

Discard(r, m) ==
  /\ Deciding(r, m) /\ wants[r].decision = "DISCARDED" /\ Undecided(r, m)
  /\ child' = [child EXCEPT ![m][wants[r].related] = "DISCARDED"]
  /\ UNCHANGED owes

(* The similarity is not offered, or somebody has closed it.               *)
Skip(r, m) ==
  /\ Deciding(r, m) /\ ~Undecided(r, m)
  /\ UNCHANGED <<child, owes>>

-----------------------------------------------------------------------------
(* The similarities of a search are hidden only when none is open.         *)
Shown(m) ==
  \/ UNCHANGED main
  \/ main' = [main EXCEPT ![m] = "OPEN"]
  \/ main' = [main EXCEPT ![m] = "CLOSED"] /\ \A e \in Related : child[m][e] # "OPEN"

(* The merge of a closed similarity is made by the request that closed it, *)
(* and no other request has made it.                                       *)
Build(r, m) ==
  LET merge == [by |-> r, main |-> m, related |-> wants[r].related] IN
  /\ phase[r] = "deciding" /\ m \in owes[r]
  /\ child[m][wants[r].related] = "CLOSED"
  /\ \A a \in merged : ~(a.main = m /\ a.related = wants[r].related)
  /\ merged' = merged \cup {merge}
  /\ owes' = [owes EXCEPT ![r] = {}]
  /\ Shown(m)
  /\ UNCHANGED <<child, sent, phase, wants, left>>

Show(m) ==
  /\ main[m] # "NONE" /\ Shown(m)
  /\ UNCHANGED <<child, merged, sent, phase, wants, left, owes>>

(* A request that has made all its merges sends them.                      *)
Send(r) ==
  /\ phase[r] = "deciding" /\ left[r] = {} /\ owes[r] = {}
  /\ sent' = sent \cup {a \in merged : a.by = r}
  /\ phase' = [phase EXCEPT ![r] = "sent"]
  /\ UNCHANGED <<child, main, merged, wants, left, owes>>

(* It may fail instead at any time: what it has closed stays closed.       *)
Fail(r) ==
  /\ phase[r] = "deciding"
  /\ phase' = [phase EXCEPT ![r] = "failed"]
  /\ owes' = [owes EXCEPT ![r] = {}]
  /\ UNCHANGED <<child, main, merged, sent, wants, left>>

Next ==
  \/ \E m \in Mains : Offer(m) \/ Show(m)
  \/ \E r \in Requests : Begin(r) \/ Send(r) \/ Fail(r)
  \/ \E r \in Requests, m \in Mains :
       Close(r, m) \/ Discard(r, m) \/ Skip(r, m) \/ Build(r, m)

Spec == Init /\ [][Next]_vars
=============================================================================

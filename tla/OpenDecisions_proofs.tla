------------------------ MODULE OpenDecisions_proofs ------------------------
(***************************************************************************)
(* Theorems about OpenDecisions for every set of rows, entities and        *)
(* requests.                                                               *)
(***************************************************************************)
EXTENDS OpenDecisions, TLAPS

(* A main row that does not exist has no children.                         *)
NoneHasNone == \A m \in Mains : main[m] = "NONE" => \A e \in Related : child[m][e] = "NONE"

(* What a request has read: the rows it holds exist, with the same         *)
(* children; what it takes for closed or decided is so; and a child that   *)
(* nobody has written since is as it was read.                             *)
CopiesLag ==
  \A r \in Requests, m \in Mains :
    /\ m \in todo[r] \cup cur[r] => copy[r].main[m] # "NONE"
    /\ copy[r].main[m] # "NONE" =>
         /\ main[m] # "NONE"
         /\ \A e \in Related : copy[r].child[m][e] = "NONE" => child[m][e] = "NONE"
    /\ \A e \in Related :
         /\ copy[r].child[m][e] = "CLOSED" => child[m][e] = "CLOSED"
         /\ copy[r].child[m][e] = "DISCARDED" => child[m][e] \in {"CLOSED", "DISCARDED"}
         /\ copy[r].child[m][e] # "NONE" /\ ChildRow(m, e) \notin stale[r] =>
              child[m][e] = copy[r].child[m][e]
         /\ pc[r] = "new" => copy[r].child[m][e] = "NONE"

(* The request r has accepted e in the row m and not yet saved its UPDATE. *)
Merging(r, m, e) == pc[r] = "merge" /\ cur[r] = {m} /\ wants[r].related = e

MergesAreNew ==
  \A m \in Mains, e \in Related :
    /\ \A r \in Requests : Merging(r, m, e) =>
         /\ child[m][e] = "CLOSED"
         /\ \A a \in acts : ~(a.main = m /\ a.related = e)
    /\ \A r, q \in Requests : Merging(r, m, e) /\ Merging(q, m, e) => r = q

(* The actions of a request are sent when it is done; what is closed has   *)
(* its action, or is in the hands of a request, alive or not.              *)
InHand(m, e) ==
  \E r \in Requests : pc[r] \in {"merge", "aborted"} /\ cur[r] = {m} /\ wants[r].related = e

SentWhenDone == \A a \in acts : pc[a.by] # "new" /\ (a \in sent <=> pc[a.by] = "done")

ClosedHasAct ==
  \A m \in Mains, e \in Related : child[m][e] = "CLOSED" =>
    InHand(m, e) \/ \E a \in acts : a.main = m /\ a.related = e

Inv == /\ TypeOK /\ NoneHasNone /\ CopiesLag /\ NothingHidden
       /\ MergedOnce /\ MergesAreNew /\ SentWhenDone /\ ClosedHasAct

LEMMA ActsTyped ==
  ASSUME TypeOK, NEW a \in acts
  PROVE  a.by \in Requests /\ a.main \in Mains /\ a.related \in Related
BY DEF TypeOK, Merges

LEMMA InvInit == Init => Inv
<1> SUFFICES ASSUME Init PROVE Inv
  OBVIOUS
<1>1. Nothing \in ChildStates /\ Absent \in MainStates
  BY DEF Nothing, Absent, ChildStates, MainStates, Children
<1>2. TypeOK
  BY <1>1 DEF Init, TypeOK
<1>3. NoneHasNone /\ NothingHidden
  BY DEF Init, Nothing, Absent, NoneHasNone, NothingHidden
<1>4. CopiesLag
  BY DEF Init, Nothing, Absent, CopiesLag
<1>5. MergedOnce /\ MergesAreNew /\ SentWhenDone /\ ClosedHasAct
  BY DEF Init, Nothing, MergedOnce, MergesAreNew, Merging, SentWhenDone, ClosedHasAct
<1> QED BY <1>2, <1>3, <1>4, <1>5 DEF Inv

LEMMA InvOffer ==
  ASSUME Inv, NEW m \in Mains, Offer(m)
  PROVE  Inv'
<1> USE DEF Inv
<1>1. PICK found \in SUBSET Related \ {{}} :
        child' = [child EXCEPT ![m] = [e \in Related |-> IF e \in found THEN "OPEN" ELSE "NONE"]]
  BY DEF Offer
<1>2. main[m] = "NONE" /\ main' = [main EXCEPT ![m] = "OPEN"]
      /\ UNCHANGED <<acts, sent, pc, wants, todo, cur, copy, stale>>
  BY DEF Offer
<1>3. \A e \in Related : child[m][e] = "NONE"
  BY <1>2 DEF NoneHasNone
<1>4. /\ \A x \in Mains \ {m} : main'[x] = main[x] /\ \A e \in Related : child'[x][e] = child[x][e]
      /\ main'[m] = "OPEN"
      /\ \A e \in Related : child'[m][e] \in {"OPEN", "NONE"}
  BY <1>1, <1>2 DEF TypeOK, ChildStates, MainStates
<1>5. TypeOK'
  BY <1>1, <1>2 DEF TypeOK, ChildStates, MainStates, Children
<1>6. NoneHasNone' /\ NothingHidden'
  BY <1>4 DEF NoneHasNone, NothingHidden
<1>7. \A r \in Requests : /\ copy[r].main[m] = "NONE"
                          /\ \A e \in Related : copy[r].child[m][e] \in {"NONE", "OPEN"}
  BY <1>2, <1>3 DEF CopiesLag, TypeOK, ChildStates, Children
<1>8. \A r \in Requests, e \in Related : copy[r].child[m][e] = "NONE" \/ ChildRow(m, e) \in stale[r]
  BY <1>3 DEF CopiesLag
<1>9. CopiesLag'
  BY <1>2, <1>4, <1>7, <1>8 DEF CopiesLag
<1>10. MergedOnce'
  BY <1>2, <1>3, <1>4 DEF MergedOnce, TypeOK, Merges
<1>11. MergesAreNew'
  BY <1>2, <1>3, <1>4 DEF MergesAreNew, Merging
<1>12. SentWhenDone' /\ ClosedHasAct'
  <2>1. \A x \in Mains, e \in Related : child'[x][e] = "CLOSED" => child[x][e] = "CLOSED"
    BY <1>4
  <2> QED BY <1>2, <2>1 DEF SentWhenDone, ClosedHasAct, InHand
<1> QED BY <1>5, <1>6, <1>9, <1>10, <1>11, <1>12

LEMMA InvBegin ==
  ASSUME Inv, NEW r \in Requests, Begin(r)
  PROVE  Inv'
<1> USE DEF Inv
<1>1. /\ pc[r] = "new" /\ pc' = [pc EXCEPT ![r] = "next"]
      /\ todo' = [todo EXCEPT ![r] = {m \in Mains : main[m] # "NONE"}]
      /\ copy' = [copy EXCEPT ![r] = [child |-> child, main |-> main]]
      /\ UNCHANGED <<child, main, acts, sent, wants, cur, stale>>
  BY DEF Begin, rowVars
<1>2. /\ \A q \in Requests \ {r} : pc'[q] = pc[q] /\ todo'[q] = todo[q] /\ copy'[q] = copy[q]
      /\ pc'[r] = "next" /\ todo'[r] = {m \in Mains : main[m] # "NONE"}
      /\ copy'[r] = [child |-> child, main |-> main]
  BY <1>1 DEF TypeOK
<1>3. TypeOK'
  BY <1>1 DEF TypeOK
<1>4. NoneHasNone' /\ NothingHidden' /\ MergedOnce'
  BY <1>1 DEF NoneHasNone, NothingHidden, MergedOnce
<1>5. CopiesLag'
  <2>1. ASSUME NEW m \in Mains
        PROVE  /\ m \in todo'[r] \cup cur[r] => main[m] # "NONE"
               /\ \A e \in Related : child[m][e] \in Children
    BY <1>2 DEF CopiesLag, TypeOK, ChildStates
  <2> QED BY <1>1, <1>2, <2>1 DEF CopiesLag
<1>6. \A q \in Requests, m \in Mains, e \in Related : Merging(q, m, e)' <=> Merging(q, m, e)
  BY <1>1, <1>2 DEF Merging
<1>7. MergesAreNew'
  BY <1>1, <1>6 DEF MergesAreNew
<1>8. SentWhenDone'
  BY <1>1, <1>2, ActsTyped DEF SentWhenDone
<1>9. ClosedHasAct'
  <2>1. \A m \in Mains, e \in Related : InHand(m, e) => InHand(m, e)'
    BY <1>1, <1>2 DEF InHand
  <2> QED BY <1>1, <2>1 DEF ClosedHasAct
<1> QED BY <1>3, <1>4, <1>5, <1>7, <1>8, <1>9

(* Passing by, aborting: only the request itself moves.                    *)
LEMMA InvMove ==
  ASSUME Inv, NEW r \in Requests, NEW s \in {"next", "finish", "aborted"},
         pc[r] \in {"next", "merge", "delete", "finish"}, s # "aborted" => pc[r] = "next",
         pc' = [pc EXCEPT ![r] = s],
         todo' \in [Requests -> SUBSET Mains], cur' \in [Requests -> SUBSET Mains],
         \A q \in Requests : todo'[q] \cup cur'[q] \subseteq todo[q] \cup cur[q],
         \A q \in Requests \ {r} : cur'[q] = cur[q],
         s = "aborted" => cur' = cur,
         UNCHANGED <<child, main, acts, sent, wants, copy, stale>>
  PROVE  Inv'
<1> USE DEF Inv
<1>1. pc'[r] = s /\ \A q \in Requests \ {r} : pc'[q] = pc[q]
  BY DEF TypeOK
<1>2. TypeOK'
  BY DEF TypeOK
<1>3. NoneHasNone' /\ NothingHidden' /\ MergedOnce'
  BY DEF NoneHasNone, NothingHidden, MergedOnce
<1>4. CopiesLag'
  BY DEF CopiesLag
<1>5. \A q \in Requests, m \in Mains, e \in Related : Merging(q, m, e)' => Merging(q, m, e)
  BY <1>1 DEF Merging
<1>6. MergesAreNew'
  BY <1>5 DEF MergesAreNew
<1>7. SentWhenDone'
  BY <1>1, ActsTyped DEF SentWhenDone
<1>8. ClosedHasAct'
  <2>1. \A m \in Mains, e \in Related : InHand(m, e) => InHand(m, e)'
    BY <1>1 DEF InHand
  <2> QED BY <2>1 DEF ClosedHasAct
<1> QED BY <1>2, <1>3, <1>4, <1>6, <1>7, <1>8

LEMMA InvDecide ==
  ASSUME Inv, NEW r \in Requests, NEW m \in Mains, Decide(r, m)
  PROVE  Inv' /\ \A x \in Mains, e \in Related : child[x][e] = "CLOSED" => child'[x][e] = "CLOSED"
<1> USE DEF Inv
<1> DEFINE d == wants[r].related
           s == IF wants[r].decision = "DISCARDED" THEN "DISCARDED" ELSE "CLOSED"
           rows == IF copy[r].child[m][d] = s THEN {} ELSE {ChildRow(m, d)}
<1>1. /\ pc[r] = "next" /\ m \in todo[r]
      /\ copy[r].child[m][d] \notin {"NONE", "CLOSED"} /\ stale[r] \cap rows = {}
      /\ child' = IF rows = {} THEN child ELSE [child EXCEPT ![m][d] = s]
      /\ copy' = [copy EXCEPT ![r].child[m][d] = s]
      /\ Written(r, rows)
      /\ pc' = [pc EXCEPT ![r] = IF s = "DISCARDED" THEN "finish" ELSE "merge"]
      /\ todo' = [todo EXCEPT ![r] = @ \ {m}] /\ cur' = [cur EXCEPT ![r] = {m}]
      /\ UNCHANGED <<main, acts, sent, wants>>
  BY DEF Decide, Decidable, SameVersion
<1>2. d \in Related /\ s \in {"CLOSED", "DISCARDED"}
  BY DEF TypeOK
<1> HIDE DEF d, s
<1>3. /\ pc'[r] = (IF s = "DISCARDED" THEN "finish" ELSE "merge")
      /\ todo'[r] = todo[r] \ {m} /\ cur'[r] = {m}
      /\ \A q \in Requests \ {r} : /\ pc'[q] = pc[q] /\ todo'[q] = todo[q]
                                    /\ cur'[q] = cur[q] /\ copy'[q] = copy[q]
  BY <1>1 DEF TypeOK
<1>4. /\ copy'[r].main = copy[r].main /\ copy'[r].child[m][d] = s
      /\ \A x \in Mains, e \in Related : (x # m \/ e # d) =>
           copy'[r].child[x][e] = copy[r].child[x][e]
      /\ copy' \in [Requests -> [child : ChildStates, main : MainStates]]
      /\ copy[r].child[m][d] = s => copy'[r].child = copy[r].child
  <2> DEFINE g == [copy[r].child EXCEPT ![m][d] = s]
  <2>1. copy[r].child \in ChildStates /\ copy[r].main \in MainStates
    BY DEF TypeOK
  <2>2. /\ g \in ChildStates /\ g[m][d] = s
        /\ \A x \in Mains, e \in Related : (x # m \/ e # d) => g[x][e] = copy[r].child[x][e]
        /\ copy[r].child[m][d] = s => g = copy[r].child
    <3>1. s \in Children
      BY <1>2 DEF Children
    <3> QED BY <1>2, <2>1, <3>1 DEF ChildStates
  <2>3. copy' = [copy EXCEPT ![r] = [copy[r] EXCEPT !.child = g]]
    BY <1>1
  <2> HIDE DEF g
  <2>4. copy'[r] = [child |-> g, main |-> copy[r].main]
    BY <2>3 DEF TypeOK
  <2> QED BY <2>1, <2>2, <2>3, <2>4 DEF TypeOK
<1>5. stale' = [q \in Requests |-> IF q = r \/ pc[q] = "new" THEN stale[q] ELSE stale[q] \cup rows]
  BY <1>1 DEF Written
<1>6. rows \subseteq {ChildRow(m, d)} /\ rows \subseteq Rows
  BY <1>2 DEF Rows
<1>7. copy[r].child[m][d] = s => s = "DISCARDED" /\ rows = {}
  BY <1>1, <1>2
<1>8. rows # {} => rows = {ChildRow(m, d)} /\ child[m][d] = copy[r].child[m][d]
  BY <1>1, <1>2 DEF CopiesLag
<1>9. /\ \A x \in Mains, e \in Related : (x # m \/ e # d) => child'[x][e] = child[x][e]
      /\ child' \in ChildStates
      /\ rows # {} => child'[m][d] = s
      /\ rows = {} => child' = child
  <2>1. child \in ChildStates /\ s \in Children
    BY <1>2 DEF TypeOK, Children
  <2>2. CASE rows = {}
    BY <1>1, <2>1, <2>2
  <2>3. CASE rows # {}
    <3>1. child' = [child EXCEPT ![m][d] = s]
      BY <1>1, <2>3
    <3> QED BY <1>2, <2>1, <2>3, <3>1 DEF ChildStates
  <2> QED BY <2>2, <2>3
<1>10. rows = {} => /\ copy[r].child[m][d] = s /\ s = "DISCARDED"
                    /\ child[m][d] \in {"CLOSED", "DISCARDED"} /\ copy'[r].child = copy[r].child
  <2>1. rows = {} => copy[r].child[m][d] = s
    OBVIOUS
  <2>2. rows = {} => s = "DISCARDED" /\ child[m][d] \in {"CLOSED", "DISCARDED"}
    BY <2>1, <1>1, <1>2 DEF CopiesLag
  <2>3. copy[r].child[m][d] = s => copy'[r].child = copy[r].child
    BY <1>4
  <2> QED BY <2>1, <2>2, <2>3
<1> HIDE DEF rows
<1>11. rows # {} => child[m][d] \notin {"NONE", "CLOSED"}
  BY <1>1, <1>8
<1>12. \A x \in Mains, e \in Related : child[x][e] = "CLOSED" => child'[x][e] = "CLOSED"
  BY <1>9, <1>11
<1>13. TypeOK'
  BY <1>1, <1>4, <1>5, <1>6, <1>9 DEF TypeOK
<1>14. NoneHasNone' /\ NothingHidden'
  BY <1>1, <1>2, <1>9, <1>11 DEF NoneHasNone, NothingHidden
<1>15. MergedOnce'
  BY <1>1, <1>12 DEF MergedOnce, TypeOK, Merges
<1>16. ASSUME NEW q \in Requests, NEW x \in Mains
       PROVE  /\ x \in todo'[q] \cup cur'[q] => copy'[q].main[x] # "NONE"
              /\ copy'[q].main[x] # "NONE" =>
                   /\ main'[x] # "NONE"
                   /\ \A e \in Related : copy'[q].child[x][e] = "NONE" => child'[x][e] = "NONE"
  <2>1. todo'[q] \cup cur'[q] \subseteq todo[q] \cup cur[q] \cup (IF q = r THEN {m} ELSE {})
    BY <1>3
  <2>2. x \in todo'[q] \cup cur'[q] => copy'[q].main[x] # "NONE"
    BY <1>1, <1>3, <1>4, <2>1 DEF CopiesLag
  <2>3. ASSUME copy'[q].main[x] # "NONE", NEW e \in Related, copy'[q].child[x][e] = "NONE"
        PROVE  child'[x][e] = "NONE"
    <3>1. copy[q].main[x] # "NONE" /\ copy[q].child[x][e] = "NONE"
      BY <1>2, <1>3, <1>4, <2>3
    <3>2. child[x][e] = "NONE"
      BY <3>1 DEF CopiesLag
    <3> QED BY <3>2, <1>9, <1>10, <1>11
  <2> QED BY <1>1, <1>3, <1>4, <2>2, <2>3 DEF CopiesLag
<1>17. ASSUME NEW q \in Requests, NEW x \in Mains, NEW e \in Related
       PROVE  /\ copy'[q].child[x][e] = "CLOSED" => child'[x][e] = "CLOSED"
              /\ copy'[q].child[x][e] = "DISCARDED" => child'[x][e] \in {"CLOSED", "DISCARDED"}
              /\ copy'[q].child[x][e] # "NONE" /\ ChildRow(x, e) \notin stale'[q] =>
                   child'[x][e] = copy'[q].child[x][e]
              /\ pc'[q] = "new" => copy'[q].child[x][e] = "NONE"
  <2>1. CASE q = r
    <3>1. pc'[r] # "new" /\ stale'[r] = stale[r]
      BY <1>2, <1>3, <1>5
    <3>2. CASE rows = {}
      <4>1. child' = child /\ copy'[r].child = copy[r].child
        BY <3>2, <1>9, <1>10
      <4> QED BY <2>1, <3>1, <4>1 DEF CopiesLag
    <3>3. CASE rows # {} /\ x = m /\ e = d
      BY <2>1, <3>1, <3>3, <1>2, <1>4, <1>9
    <3>4. CASE rows # {} /\ (x # m \/ e # d)
      <4>1. child'[x][e] = child[x][e] /\ copy'[r].child[x][e] = copy[r].child[x][e]
        BY <3>4, <1>4, <1>9
      <4> QED BY <2>1, <3>1, <4>1 DEF CopiesLag
    <3> QED BY <3>2, <3>3, <3>4
  <2>2. CASE q # r
    <3>1. copy'[q] = copy[q] /\ pc'[q] = pc[q] /\ stale[q] \subseteq stale'[q]
      BY <2>2, <1>3, <1>5
    <3>2. CASE x # m \/ e # d
      <4>1. child'[x][e] = child[x][e]
        BY <3>2, <1>9
      <4> QED BY <3>1, <4>1 DEF CopiesLag
    <3>3. CASE x = m /\ e = d /\ rows # {}
      <4>1. copy[q].child[m][d] # "CLOSED"
        BY <3>3, <1>2, <1>11 DEF CopiesLag
      <4>2. pc[q] = "new" => copy[q].child[m][d] = "NONE"
        BY <1>2 DEF CopiesLag
      <4>3. pc[q] # "new" => ChildRow(m, d) \in stale'[q]
        BY <2>2, <3>3, <1>5, <1>8
      <4>4. child'[m][d] \in {"CLOSED", "DISCARDED"}
        BY <3>3, <1>2, <1>9
      <4> QED BY <3>1, <3>3, <4>1, <4>2, <4>3, <4>4
    <3>4. CASE x = m /\ e = d /\ rows = {}
      <4>1. child' = child
        BY <3>4, <1>9
      <4> QED BY <3>1, <4>1 DEF CopiesLag
    <3> QED BY <3>2, <3>3, <3>4
  <2> QED BY <2>1, <2>2
<1>18. CopiesLag'
  BY <1>16, <1>17 DEF CopiesLag
<1>19. MergesAreNew'
  <2>1. \A q \in Requests, x \in Mains, e \in Related :
          Merging(q, x, e)' => Merging(q, x, e) \/ (q = r /\ x = m /\ e = d /\ s = "CLOSED" /\ rows # {})
    BY <1>1, <1>2, <1>3, <1>10 DEF Merging, d
  <2>2. rows # {} => \A a \in acts : ~(a.main = m /\ a.related = d)
    BY <1>11 DEF MergedOnce
  <2>3. rows # {} => \A q \in Requests : ~Merging(q, m, d)
    BY <1>2, <1>11 DEF MergesAreNew
  <2> QED BY <1>1, <1>9, <1>12, <2>1, <2>2, <2>3 DEF MergesAreNew
<1>20. SentWhenDone'
  BY <1>1, <1>2, <1>3, ActsTyped DEF SentWhenDone
<1>21. ClosedHasAct'
  <2>1. \A x \in Mains, e \in Related : InHand(x, e) => InHand(x, e)'
    BY <1>1, <1>3 DEF InHand
  <2>2. \A e \in Related : e = d /\ s = "CLOSED" => InHand(m, e)'
    BY <1>1, <1>3 DEF InHand, d
  <2>3. \A x \in Mains, e \in Related :
          child'[x][e] = "CLOSED" => child[x][e] = "CLOSED" \/ (x = m /\ e = d /\ s = "CLOSED")
    BY <1>9
  <2> QED BY <1>1, <2>1, <2>2, <2>3 DEF ClosedHasAct
<1> QED BY <1>12, <1>13, <1>14, <1>15, <1>18, <1>19, <1>20, <1>21

LEMMA InvPassBy ==
  ASSUME Inv, NEW r \in Requests, NEW m \in Mains, PassBy(r, m)
  PROVE  Inv'
<1>1. /\ pc[r] = "next" /\ m \in todo[r] /\ pc' = [pc EXCEPT ![r] = "finish"]
      /\ todo' = [todo EXCEPT ![r] = @ \ {m}] /\ cur' = [cur EXCEPT ![r] = {m}]
      /\ UNCHANGED <<child, main, acts, sent, wants, copy, stale>>
  BY DEF PassBy, rowVars
<1>2. todo \in [Requests -> SUBSET Mains] /\ cur \in [Requests -> SUBSET Mains]
  BY DEF Inv, TypeOK
<1>3. /\ todo' \in [Requests -> SUBSET Mains] /\ cur' \in [Requests -> SUBSET Mains]
      /\ \A q \in Requests : todo'[q] \cup cur'[q] \subseteq todo[q] \cup cur[q]
      /\ \A q \in Requests \ {r} : cur'[q] = cur[q]
  BY <1>1, <1>2
<1> QED BY <1>1, <1>3, InvMove

LEMMA InvAbort ==
  ASSUME Inv, NEW r \in Requests, Abort(r)
  PROVE  Inv'
<1>1. /\ pc[r] \in {"next", "merge", "delete", "finish"} /\ pc' = [pc EXCEPT ![r] = "aborted"]
      /\ UNCHANGED <<child, main, acts, sent, wants, todo, cur, copy, stale>>
  BY DEF Abort, rowVars
<1>2. todo' \in [Requests -> SUBSET Mains] /\ cur' \in [Requests -> SUBSET Mains]
  BY <1>1 DEF Inv, TypeOK
<1> QED BY <1>1, <1>2, InvMove

LEMMA InvPropagate ==
  ASSUME Inv, NEW r \in Requests, Propagate(r)
  PROVE  Inv'
<1> USE DEF Inv
<1>1. /\ pc[r] = "next" /\ sent' = sent \cup OwnActs(r) /\ pc' = [pc EXCEPT ![r] = "done"]
      /\ UNCHANGED <<child, main, acts, wants, todo, cur, copy, stale>>
  BY DEF Propagate, rowVars
<1>2. pc'[r] = "done" /\ \A q \in Requests \ {r} : pc'[q] = pc[q]
  BY <1>1 DEF TypeOK
<1>3. TypeOK'
  BY <1>1 DEF TypeOK, OwnActs
<1>4. NoneHasNone' /\ NothingHidden' /\ MergedOnce'
  BY <1>1 DEF NoneHasNone, NothingHidden, MergedOnce
<1>5. CopiesLag'
  BY <1>1, <1>2 DEF CopiesLag
<1>6. MergesAreNew'
  <2>1. \A q \in Requests, m \in Mains, e \in Related : Merging(q, m, e)' => Merging(q, m, e)
    BY <1>1, <1>2 DEF Merging
  <2> QED BY <1>1, <2>1 DEF MergesAreNew
<1>7. SentWhenDone'
  BY <1>1, <1>2, ActsTyped DEF SentWhenDone, OwnActs
<1>8. ClosedHasAct'
  <2>1. \A m \in Mains, e \in Related : InHand(m, e) => InHand(m, e)'
    BY <1>1, <1>2 DEF InHand
  <2> QED BY <1>1, <2>1 DEF ClosedHasAct
<1> QED BY <1>3, <1>4, <1>5, <1>6, <1>7, <1>8

(* What a request takes for the state of its children holds in the rows.   *)
LEMMA StateIsTrue ==
  ASSUME Inv, NEW r \in Requests, NEW m \in Mains, m \in cur[r],
         StateFromChild(copy[r].child[m]) = "CLOSED"
  PROVE  \A e \in Related : child[m][e] # "OPEN"
<1>1. copy[r].main[m] # "NONE"
  BY DEF Inv, CopiesLag
<1>2. \A e \in Related : copy[r].child[m][e] \in {"NONE", "CLOSED", "DISCARDED"}
  BY DEF StateFromChild, Inv, TypeOK, ChildStates, Children
<1> QED BY <1>1, <1>2 DEF Inv, CopiesLag

(* The saves of SaveUpdate, SaveOther and SaveMain: the main row can take  *)
(* the state s, and only the UPDATE adds an action.                        *)
LEMMA InvSave ==
  ASSUME Inv, NEW r \in Requests, NEW m \in Mains, NEW s \in {"OPEN", "CLOSED"},
         NEW to \in {"delete", "next"}, NEW new \in SUBSET {Merge(r, m)},
         pc[r] \in {"merge", "delete", "finish"}, cur[r] = {m},
         new = IF pc[r] = "merge" THEN {Merge(r, m)} ELSE {},
         s = "CLOSED" => \A e \in Related : child[m][e] # "OPEN",
         main' \in {main, [main EXCEPT ![m] = s]},
         copy' \in {copy, [copy EXCEPT ![r].main[m] = s]},
         pc' = [pc EXCEPT ![r] = to], acts' = acts \cup new,
         cur' \in [Requests -> SUBSET Mains], cur'[r] \subseteq cur[r],
         \A q \in Requests \ {r} : cur'[q] = cur[q],
         stale' \in [Requests -> SUBSET Rows], \A q \in Requests : stale[q] \subseteq stale'[q],
         UNCHANGED <<child, sent, wants, todo>>
  PROVE  Inv'
<1> USE DEF Inv
<1>1. pc'[r] = to /\ \A q \in Requests \ {r} : pc'[q] = pc[q]
  BY DEF TypeOK
<1>2. main[m] # "NONE" /\ copy[r].main[m] # "NONE"
  BY DEF CopiesLag
<1>3. main' \in MainStates /\ \A x \in Mains : main'[x] = main[x] \/ (x = m /\ main'[x] = s)
  <2>1. CASE main' = main
    BY <2>1 DEF TypeOK
  <2>2. CASE main' = [main EXCEPT ![m] = s]
    BY <2>2 DEF TypeOK, MainStates
  <2> QED BY <2>1, <2>2
<1>4. /\ copy' \in [Requests -> [child : ChildStates, main : MainStates]]
      /\ \A q \in Requests : /\ copy'[q].child = copy[q].child
                              /\ \A x \in Mains : \/ copy'[q].main[x] = copy[q].main[x]
                                                  \/ q = r /\ x = m /\ copy'[q].main[x] = s
  <2>1. CASE copy' = copy
    BY <2>1 DEF TypeOK
  <2>2. CASE copy' = [copy EXCEPT ![r].main[m] = s]
    <3>1. copy[r] \in [child : ChildStates, main : MainStates]
      BY DEF TypeOK
    <3>2. /\ [copy[r].main EXCEPT ![m] = s] \in MainStates
          /\ \A x \in Mains : x # m => [copy[r].main EXCEPT ![m] = s][x] = copy[r].main[x]
          /\ [copy[r].main EXCEPT ![m] = s][m] = s
      BY <3>1 DEF MainStates
    <3>3. copy'[r] = [child |-> copy[r].child, main |-> [copy[r].main EXCEPT ![m] = s]]
      BY <2>2, <3>1 DEF TypeOK
    <3>4. \A q \in Requests \ {r} : copy'[q] = copy[q]
      BY <2>2 DEF TypeOK
    <3>5. copy'[r] \in [child : ChildStates, main : MainStates]
      BY <3>1, <3>2, <3>3
    <3>6. \A q \in Requests : copy'[q] \in [child : ChildStates, main : MainStates]
      BY <3>4, <3>5 DEF TypeOK
    <3>7. copy' \in [Requests -> [child : ChildStates, main : MainStates]]
      BY <2>2, <3>6 DEF TypeOK
    <3>8. /\ copy'[r].child = copy[r].child
          /\ \A x \in Mains : \/ copy'[r].main[x] = copy[r].main[x]
                              \/ x = m /\ copy'[r].main[x] = s
      BY <3>2, <3>3
    <3> QED BY <3>4, <3>7, <3>8
  <2> QED BY <2>1, <2>2
<1>5. Merge(r, m) \in Merges /\ Merge(r, m).by = r /\ Merge(r, m).main = m
      /\ Merge(r, m).related = wants[r].related
  BY DEF TypeOK, Merge, Merges, Parties
<1>6. TypeOK'
  <2>1. acts' \subseteq Merges /\ sent \subseteq acts'
    BY <1>5 DEF TypeOK
  <2> QED BY <1>3, <1>4, <2>1 DEF TypeOK
<1>7. NoneHasNone' /\ NothingHidden'
  BY <1>2, <1>3 DEF NoneHasNone, NothingHidden
<1>8. CopiesLag'
  <2>1. ASSUME NEW q \in Requests, NEW x \in Mains
        PROVE  /\ x \in todo'[q] \cup cur'[q] => x \in todo[q] \cup cur[q]
               /\ copy'[q].main[x] # "NONE" <=> copy[q].main[x] # "NONE"
               /\ main'[x] # "NONE" <=> main[x] # "NONE"
               /\ pc'[q] = "new" => pc[q] = "new"
    BY <1>1, <1>2, <1>3, <1>4
  <2> QED BY <1>4, <2>1 DEF CopiesLag
<1>9. pc[r] = "merge" => Merging(r, m, wants[r].related) /\ wants[r].related \in Related
  BY DEF Merging, TypeOK
<1>10. MergedOnce'
  <2>1. \A a \in acts' : a \in acts \/ (a = Merge(r, m) /\ pc[r] = "merge")
    OBVIOUS
  <2>2. pc[r] = "merge" => /\ child[m][wants[r].related] = "CLOSED"
                           /\ \A a \in acts : ~(a.main = m /\ a.related = wants[r].related)
    BY <1>9 DEF MergesAreNew
  <2> QED BY <1>5, <2>1, <2>2 DEF MergedOnce
<1>11. MergesAreNew'
  <2>1. ASSUME NEW q \in Requests, NEW x \in Mains, NEW e \in Related, Merging(q, x, e)'
        PROVE  q # r /\ Merging(q, x, e)
    BY <1>1, <2>1 DEF Merging
  <2>2. ASSUME NEW q \in Requests, NEW x \in Mains, NEW e \in Related, Merging(q, x, e)',
               NEW a \in acts', a.main = x, a.related = e
        PROVE  FALSE
    <3>1. a \notin acts
      BY <2>1, <2>2 DEF MergesAreNew
    <3>2. a = Merge(r, m) /\ pc[r] = "merge"
      BY <2>2, <3>1
    <3> QED BY <1>5, <1>9, <2>1, <2>2, <3>2 DEF MergesAreNew
  <2> QED BY <2>1, <2>2 DEF MergesAreNew
<1>12. SentWhenDone'
  <2>1. \A a \in acts : pc'[a.by] # "new" /\ (a \in sent <=> pc'[a.by] = "done")
    BY <1>1, ActsTyped DEF SentWhenDone
  <2>2. Merge(r, m) \in sent => FALSE
    BY <1>5 DEF SentWhenDone, TypeOK
  <2> QED BY <1>1, <1>5, <2>1, <2>2 DEF SentWhenDone
<1>13. ClosedHasAct'
  <2>1. ASSUME NEW x \in Mains, NEW e \in Related, InHand(x, e), ~InHand(x, e)'
        PROVE  Merge(r, m) \in acts' /\ x = m /\ e = wants[r].related
    <3>1. pc[r] = "merge" /\ cur[r] = {x} /\ wants[r].related = e
      BY <1>1, <2>1 DEF InHand
    <3> QED BY <3>1
  <2> QED BY <1>5, <2>1 DEF ClosedHasAct
<1> QED BY <1>6, <1>7, <1>8, <1>10, <1>11, <1>12, <1>13

(* The copies of the others can only get older.                            *)
LEMMA WrittenGrows ==
  ASSUME TypeOK, NEW r \in Requests, NEW rows \in SUBSET Rows, Written(r, rows)
  PROVE  /\ stale' \in [Requests -> SUBSET Rows]
         /\ \A q \in Requests : stale[q] \subseteq stale'[q]
BY DEF TypeOK, Written

LEMMA InvSaveUpdate ==
  ASSUME Inv, NEW r \in Requests, NEW m \in Mains, SaveUpdate(r, m)
  PROVE  Inv'
<1> DEFINE s == StateFromChild(copy[r].child[m])
<1>1. PICK rows \in SUBSET {MainRow(m)} :
      /\ pc[r] = "merge" /\ cur[r] = {m} /\ acts' = acts \cup {Merge(r, m)}
      /\ main' = IF rows = {} THEN main ELSE [main EXCEPT ![m] = s]
      /\ copy' = [copy EXCEPT ![r].main[m] = s]
      /\ Written(r, rows) /\ pc' = [pc EXCEPT ![r] = "delete"]
      /\ UNCHANGED <<child, sent, wants, todo, cur>>
  BY DEF SaveUpdate
<1>2. s \in {"OPEN", "CLOSED"} /\ (s = "CLOSED" => \A e \in Related : child[m][e] # "OPEN")
  BY <1>1, StateIsTrue DEF StateFromChild
<1>3. /\ stale' \in [Requests -> SUBSET Rows]
      /\ \A q \in Requests : stale[q] \subseteq stale'[q]
  BY <1>1, WrittenGrows DEF Inv, Rows
<1>4. cur' \in [Requests -> SUBSET Mains] /\ cur'[r] \subseteq cur[r]
      /\ \A q \in Requests \ {r} : cur'[q] = cur[q]
  BY <1>1 DEF Inv, TypeOK
<1> HIDE DEF s
<1> QED BY <1>1, <1>2, <1>3, <1>4, InvSave

LEMMA InvSaveMain ==
  ASSUME Inv, NEW r \in Requests, NEW m \in Mains, SaveMain(r, m)
  PROVE  Inv'
<1> DEFINE s == StateFromChild(copy[r].child[m])
<1>1. PICK rows \in SUBSET {MainRow(m)} :
      /\ pc[r] = "finish" /\ cur[r] = {m}
      /\ main' = IF rows = {} THEN main ELSE [main EXCEPT ![m] = s]
      /\ copy' = [copy EXCEPT ![r].main[m] = s]
      /\ Written(r, rows) /\ pc' = [pc EXCEPT ![r] = "next"] /\ cur' = [cur EXCEPT ![r] = {}]
      /\ UNCHANGED <<child, acts, sent, wants, todo>>
  BY DEF SaveMain
<1>2. s \in {"OPEN", "CLOSED"} /\ (s = "CLOSED" => \A e \in Related : child[m][e] # "OPEN")
  BY <1>1, StateIsTrue DEF StateFromChild
<1>3. /\ stale' \in [Requests -> SUBSET Rows]
      /\ \A q \in Requests : stale[q] \subseteq stale'[q]
  BY <1>1, WrittenGrows DEF Inv, Rows
<1>4. cur' \in [Requests -> SUBSET Mains] /\ cur'[r] \subseteq cur[r]
      /\ \A q \in Requests \ {r} : cur'[q] = cur[q]
  BY <1>1 DEF Inv, TypeOK
<1>5. acts' = acts \cup {}
  BY <1>1
<1> HIDE DEF s
<1> QED BY <1>1, <1>2, <1>3, <1>4, <1>5, InvSave

LEMMA InvSaveOther ==
  ASSUME Inv, NEW r \in Requests, NEW m \in Mains, SaveOther(r, m)
  PROVE  Inv'
<1>1. PICK rows \in SUBSET Rows :
      /\ pc[r] = "delete" /\ cur[r] = {m} /\ Written(r, rows)
      /\ pc' = [pc EXCEPT ![r] = "next"] /\ cur' = [cur EXCEPT ![r] = {}]
      /\ UNCHANGED <<child, main, acts, sent, wants, todo, copy>>
  BY DEF SaveOther, rowVars, Rows, Inv, TypeOK
<1>2. /\ stale' \in [Requests -> SUBSET Rows]
      /\ \A q \in Requests : stale[q] \subseteq stale'[q]
  BY <1>1, WrittenGrows DEF Inv
<1>3. cur' \in [Requests -> SUBSET Mains] /\ cur'[r] \subseteq cur[r]
      /\ \A q \in Requests \ {r} : cur'[q] = cur[q]
  BY <1>1 DEF Inv, TypeOK
<1>4. acts' = acts \cup {}
  BY <1>1
<1> QED BY <1>1, <1>2, <1>3, <1>4, InvSave

-----------------------------------------------------------------------------
LEMMA InvNext == Inv /\ [Next]_vars => Inv'
<1> SUFFICES ASSUME Inv, [Next]_vars PROVE Inv'
  OBVIOUS
<1>1. ASSUME NEW m \in Mains, Offer(m) PROVE Inv'
  BY <1>1, InvOffer
<1>2. ASSUME NEW r \in Requests, Begin(r) \/ Propagate(r) \/ Abort(r) PROVE Inv'
  BY <1>2, InvBegin, InvPropagate, InvAbort
<1>3. ASSUME NEW r \in Requests, NEW m \in Mains, PassBy(r, m) \/ Decide(r, m) PROVE Inv'
  BY <1>3, InvPassBy, InvDecide
<1>4. ASSUME NEW r \in Requests, NEW m \in Mains,
             SaveUpdate(r, m) \/ SaveOther(r, m) \/ SaveMain(r, m)
      PROVE  Inv'
  BY <1>4, InvSaveUpdate, InvSaveOther, InvSaveMain
<1>5. CASE UNCHANGED vars
  <2> USE <1>5 DEF vars, rowVars, Inv
  <2>1. TypeOK' /\ NoneHasNone' /\ NothingHidden'
    BY DEF TypeOK, NoneHasNone, NothingHidden
  <2>2. CopiesLag' /\ MergedOnce'
    BY DEF CopiesLag, MergedOnce
  <2>3. MergesAreNew' /\ SentWhenDone' /\ ClosedHasAct'
    BY DEF MergesAreNew, Merging, SentWhenDone, ClosedHasAct, InHand
  <2> QED BY <2>1, <2>2, <2>3
<1> QED BY <1>1, <1>2, <1>3, <1>4, <1>5 DEF Next, Step

THEOREM InvHolds == Spec => []Inv
BY InvInit, InvNext, PTL DEF Spec

(* The variables have their types, for every set of rows and requests.     *)
THEOREM DecisionsTyped == Spec => []TypeOK
<1>1. Inv => TypeOK
  BY DEF Inv
<1> QED BY <1>1, InvHolds, PTL

(* Concurrent acceptances of a similarity merge it once: only one request  *)
(* writes the child row with the version it has read.                      *)
THEOREM AcceptedOnce == Spec => []MergedOnce
<1>1. Inv => MergedOnce
  BY DEF Inv
<1> QED BY <1>1, InvHolds, PTL

(* Requests that overlap never close a main row over an open similarity:   *)
(* what a copy takes for decided is decided.                               *)
THEOREM OpenIsOffered == Spec => []NothingHidden
<1>1. Inv => NothingHidden
  BY DEF Inv
<1> QED BY <1>1, InvHolds, PTL

(* Without failures Kafka gets the actions of what has been closed, and of *)
(* nothing else.                                                           *)
THEOREM ClosedReachesKafka == Spec => []ClosedIsSent
<1>1. ASSUME Inv, \A r \in Requests : pc[r] \in {"new", "done"},
             NEW m \in Mains, NEW e \in Related
      PROVE  child[m][e] = "CLOSED" <=> \E a \in sent : a.main = m /\ a.related = e
  <2>1. ~InHand(m, e)
    BY <1>1 DEF InHand
  <2>2. sent = acts
    BY <1>1, ActsTyped DEF Inv, SentWhenDone, TypeOK
  <2> QED BY <1>1, <2>1, <2>2 DEF Inv, ClosedHasAct, MergedOnce
<1>2. Inv => ClosedIsSent
  BY <1>1 DEF ClosedIsSent
<1> QED BY <1>2, InvHolds, PTL

(* No step of a search or of a request reopens a closed similarity.        *)
THEOREM ClosedStays == Spec => ClosedIsFinal
<1> DEFINE Stays == \A m \in Mains, e \in Related :
                      child[m][e] = "CLOSED" => child'[m][e] = "CLOSED"
<1>1. ASSUME Inv, [Next]_vars PROVE [Stays]_vars
  <2>1. ASSUME NEW m \in Mains, Offer(m) PROVE Stays
    BY <1>1, <2>1 DEF Offer, Inv, TypeOK, ChildStates, NoneHasNone
  <2>2. ASSUME NEW r \in Requests, NEW m \in Mains, Decide(r, m) PROVE Stays
    BY <1>1, <2>2, InvDecide
  <2>3. ASSUME NEW r \in Requests, NEW m \in Mains,
               \/ Begin(r) \/ Propagate(r) \/ Abort(r) \/ PassBy(r, m)
               \/ SaveUpdate(r, m) \/ SaveOther(r, m) \/ SaveMain(r, m)
        PROVE  child' = child
    BY <2>3 DEF Begin, Propagate, Abort, PassBy, SaveUpdate, SaveOther, SaveMain, rowVars
  <2>4. ASSUME NEW r \in Requests, Begin(r) \/ Propagate(r) \/ Abort(r)
        PROVE  child' = child
    BY <2>4 DEF Begin, Propagate, Abort, rowVars
  <2> QED BY <1>1, <2>1, <2>2, <2>3, <2>4 DEF Next, Step
<1> HIDE DEF Stays
<1>2. []Inv /\ [][Next]_vars => [][Stays]_vars
  BY <1>1, PTL
<1>3. Spec => [][Stays]_vars
  BY <1>2, InvHolds, PTL DEF Spec
<1> QED BY <1>3 DEF Stays, ClosedIsFinal

-----------------------------------------------------------------------------
(* The refinement of DecisionService: what the steps of a request are to   *)
(* its users.                                                              *)
OnlyMoves(r) == \A q \in Requests \ {r} : pc'[q] = pc[q] /\ cur'[q] = cur[q]

LEMMA PhaseStep ==
  ASSUME NEW r \in Requests, OnlyMoves(r)
  PROVE  /\ Phases' = [Phases EXCEPT ![r] = PhaseOf(pc'[r])]
         /\ PhaseOf(pc'[r]) = PhaseOf(pc[r]) => Phases' = Phases
BY DEF OnlyMoves, Phases

LEMMA OwesStep ==
  ASSUME NEW r \in Requests, OnlyMoves(r)
  PROVE  /\ pc'[r] = "merge" => Owes' = [Owes EXCEPT ![r] = cur'[r]]
         /\ pc'[r] # "merge" => Owes' = [Owes EXCEPT ![r] = {}]
         /\ pc'[r] # "merge" /\ pc[r] # "merge" => Owes' = Owes
BY DEF OnlyMoves, Owes

(* What a request is doing, seen from outside.                             *)
LEMMA AtWork ==
  ASSUME NEW r \in Requests
  PROVE  /\ pc[r] \in {"next", "merge", "delete", "finish"} => Phases[r] = "deciding"
         /\ pc[r] = "new" => Phases[r] = "new"
         /\ pc[r] # "merge" => Owes[r] = {}
         /\ pc[r] = "merge" => Owes[r] = cur[r]
BY DEF Phases, PhaseOf, Owes

LEMMA MergesKept ==
  /\ acts' = acts => MergesOf(acts)' = MergesOf(acts)
  /\ sent' = sent => MergesOf(sent)' = MergesOf(sent)
BY DEF MergesOf

LEMMA OfferMaps ==
  ASSUME NEW m \in Mains, Offer(m)
  PROVE  Service!Offer(m)
<1>1. Phases' = Phases /\ Owes' = Owes
  BY DEF Offer, Phases, Owes
<1> QED BY <1>1, MergesKept DEF Offer, Service!Offer

LEMMA BeginMaps ==
  ASSUME Inv, NEW r \in Requests, Begin(r)
  PROVE  Service!Begin(r)
<1>1. /\ pc[r] = "new" /\ pc' = [pc EXCEPT ![r] = "next"] /\ cur' = cur
      /\ UNCHANGED <<child, main, acts, sent, wants>>
      /\ todo' = [todo EXCEPT ![r] = {m \in Mains : main[m] # "NONE"}]
  BY DEF Begin, rowVars
<1>2. Phases' = [Phases EXCEPT ![r] = "deciding"] /\ Owes' = Owes
  <2>1. pc'[r] = "next" /\ OnlyMoves(r)
    BY <1>1 DEF OnlyMoves, Inv, TypeOK
  <2> QED BY <1>1, <2>1, PhaseStep, OwesStep DEF PhaseOf
<1> QED BY <1>1, <1>2, AtWork, MergesKept DEF Service!Begin

LEMMA PassByMaps ==
  ASSUME Inv, NEW r \in Requests, NEW m \in Mains, PassBy(r, m)
  PROVE  Service!Skip(r, m)
<1>1. /\ pc[r] = "next" /\ m \in todo[r] /\ ~Decidable(copy[r].child[m][wants[r].related])
      /\ pc' = [pc EXCEPT ![r] = "finish"] /\ todo' = [todo EXCEPT ![r] = @ \ {m}]
      /\ cur' = [cur EXCEPT ![r] = {m}]
      /\ UNCHANGED <<child, main, acts, sent, wants>>
  BY DEF PassBy, rowVars
<1>2. Phases' = Phases /\ Owes' = Owes
  <2>1. pc'[r] = "finish" /\ OnlyMoves(r)
    BY <1>1 DEF OnlyMoves, Inv, TypeOK
  <2> QED BY <1>1, <2>1, PhaseStep, OwesStep DEF PhaseOf
<1>3. child[m][wants[r].related] \in {"NONE", "CLOSED"}
  <2>1. wants[r].related \in Related /\ m \in todo[r] \cup cur[r]
    BY <1>1 DEF Inv, TypeOK
  <2> QED BY <1>1, <2>1 DEF Inv, CopiesLag, Decidable
<1> QED BY <1>1, <1>2, <1>3, AtWork, MergesKept
        DEF Service!Skip, Service!Deciding, Service!Undecided

(* A decision takes effect when its child row is saved.  One that discards *)
(* what the copy says is discarded saves nothing, and may find it closed.  *)
LEMMA DecideMaps ==
  ASSUME Inv, NEW r \in Requests, NEW m \in Mains, Decide(r, m)
  PROVE  Service!Close(r, m) \/ Service!Discard(r, m) \/ Service!Skip(r, m)
<1> DEFINE d == wants[r].related
           s == IF wants[r].decision = "DISCARDED" THEN "DISCARDED" ELSE "CLOSED"
           rows == IF copy[r].child[m][d] = s THEN {} ELSE {ChildRow(m, d)}
<1>1. /\ pc[r] = "next" /\ m \in todo[r]
      /\ copy[r].child[m][d] \notin {"NONE", "CLOSED"} /\ stale[r] \cap rows = {}
      /\ child' = IF rows = {} THEN child ELSE [child EXCEPT ![m][d] = s]
      /\ pc' = [pc EXCEPT ![r] = IF s = "DISCARDED" THEN "finish" ELSE "merge"]
      /\ todo' = [todo EXCEPT ![r] = @ \ {m}] /\ cur' = [cur EXCEPT ![r] = {m}]
      /\ UNCHANGED <<main, acts, sent, wants>>
  BY DEF Decide, Decidable, SameVersion
<1>2. d \in Related /\ copy[r].child[m][d] \in Children /\ child[m][d] \in Children
  BY DEF Inv, TypeOK, ChildStates
<1>3. /\ pc'[r] = (IF s = "DISCARDED" THEN "finish" ELSE "merge") /\ cur'[r] = {m}
      /\ OnlyMoves(r) /\ Phases' = Phases
  <2>1. /\ pc'[r] = (IF s = "DISCARDED" THEN "finish" ELSE "merge") /\ cur'[r] = {m}
        /\ OnlyMoves(r)
    BY <1>1 DEF OnlyMoves, Inv, TypeOK
  <2> QED BY <1>1, <2>1, PhaseStep DEF PhaseOf
<1>4. Service!Deciding(r, m)
  BY <1>1, <1>3, AtWork, MergesKept DEF Service!Deciding
<1>5. CASE s = "CLOSED"
  <2>1. rows = {ChildRow(m, d)} /\ child[m][d] \in {"OPEN", "DISCARDED"}
    BY <1>1, <1>2, <1>5 DEF Inv, CopiesLag, Children
  <2>2. Owes' = [Owes EXCEPT ![r] = {m}]
    BY <1>1, <1>3, <1>5, OwesStep
  <2>3. child' = [child EXCEPT ![m][d] = "CLOSED"] /\ wants[r].decision # "DISCARDED"
    BY <1>1, <1>5, <2>1
  <2> QED BY <1>4, <2>1, <2>2, <2>3 DEF Service!Close, Service!Undecided
<1>6. CASE s = "DISCARDED"
  <2>1. Owes' = Owes /\ wants[r].decision = "DISCARDED"
    BY <1>1, <1>3, <1>6, OwesStep
  <2>2. CASE rows # {}
    <3>1. child[m][d] \in {"OPEN", "DISCARDED"}
      BY <1>1, <1>2, <1>6, <2>2 DEF Inv, CopiesLag, Children
    <3>2. child' = [child EXCEPT ![m][d] = "DISCARDED"]
      BY <1>1, <1>6, <2>2
    <3> QED BY <1>4, <2>1, <3>1, <3>2 DEF Service!Discard, Service!Undecided
  <2>3. CASE rows = {}
    <3>1. child' = child /\ child[m][d] \in {"CLOSED", "DISCARDED"}
      BY <1>1, <1>2, <1>6, <2>3 DEF Inv, CopiesLag
    <3>2. CASE child[m][d] = "CLOSED"
      BY <1>4, <2>1, <3>1, <3>2 DEF Service!Skip, Service!Undecided
    <3>3. CASE child[m][d] = "DISCARDED"
      <4>1. child' = [child EXCEPT ![m][d] = "DISCARDED"]
        BY <1>2, <3>1, <3>3 DEF Inv, TypeOK, ChildStates
      <4> QED BY <1>4, <2>1, <3>3, <4>1 DEF Service!Discard, Service!Undecided
    <3> QED BY <3>1, <3>2, <3>3
  <2> QED BY <2>2, <2>3
<1> QED BY <1>5, <1>6

(* A main row takes the state of the copies of its children, and hides no  *)
(* open similarity.                                                        *)
LEMMA SaveShows ==
  ASSUME Inv, NEW r \in Requests, NEW m \in Mains, m \in cur[r],
         main' \in {main, [main EXCEPT ![m] = StateFromChild(copy[r].child[m])]}
  PROVE  main[m] # "NONE" /\ Service!Shown(m)
<1>1. main[m] # "NONE"
  BY DEF Inv, CopiesLag
<1>2. StateFromChild(copy[r].child[m]) \in {"OPEN", "CLOSED"}
  BY DEF StateFromChild
<1> QED BY <1>1, <1>2, StateIsTrue DEF Service!Shown

LEMMA SaveUpdateMaps ==
  ASSUME Inv, NEW r \in Requests, NEW m \in Mains, SaveUpdate(r, m)
  PROVE  Service!Build(r, m)
<1> DEFINE d == wants[r].related
           s == StateFromChild(copy[r].child[m])
<1>1. /\ pc[r] = "merge" /\ cur[r] = {m} /\ acts' = acts \cup {Merge(r, m)}
      /\ main' \in {main, [main EXCEPT ![m] = s]}
      /\ pc' = [pc EXCEPT ![r] = "delete"]
      /\ UNCHANGED <<child, sent, wants, todo, cur>>
  BY DEF SaveUpdate
<1>2. Phases' = Phases /\ Owes' = [Owes EXCEPT ![r] = {}]
  <2>1. pc'[r] = "delete" /\ OnlyMoves(r)
    BY <1>1 DEF OnlyMoves, Inv, TypeOK
  <2> QED BY <1>1, <2>1, PhaseStep, OwesStep DEF PhaseOf
<1>3. Service!Shown(m)
  BY <1>1, SaveShows
<1>4. d \in Related /\ Merging(r, m, d)
  BY <1>1 DEF Inv, TypeOK, Merging
<1>5. child[m][d] = "CLOSED" /\ \A a \in acts : ~(a.main = m /\ a.related = d)
  BY <1>4 DEF Inv, MergesAreNew
<1>6. \A a \in MergesOf(acts) : ~(a.main = m /\ a.related = d)
  BY <1>5 DEF MergesOf
<1>7. MergesOf(acts)' = MergesOf(acts) \cup {[by |-> r, main |-> m, related |-> d]}
  <2>1. Merge(r, m).by = r /\ Merge(r, m).main = m /\ Merge(r, m).related = d
    BY DEF Merge
  <2> QED BY <1>1, <2>1 DEF MergesOf
<1> QED BY <1>1, <1>2, <1>3, <1>5, <1>6, <1>7, AtWork, MergesKept DEF Service!Build

LEMMA SaveMainMaps ==
  ASSUME Inv, NEW r \in Requests, NEW m \in Mains, SaveMain(r, m)
  PROVE  Service!Show(m)
<1>1. /\ pc[r] = "finish" /\ cur[r] = {m}
      /\ main' \in {main, [main EXCEPT ![m] = StateFromChild(copy[r].child[m])]}
      /\ pc' = [pc EXCEPT ![r] = "next"] /\ cur' = [cur EXCEPT ![r] = {}]
      /\ UNCHANGED <<child, acts, sent, wants, todo>>
  BY DEF SaveMain
<1>2. Phases' = Phases /\ Owes' = Owes
  <2>1. pc'[r] = "next" /\ OnlyMoves(r)
    BY <1>1 DEF OnlyMoves, Inv, TypeOK
  <2> QED BY <1>1, <2>1, PhaseStep, OwesStep DEF PhaseOf
<1> QED BY <1>1, <1>2, SaveShows, MergesKept DEF Service!Show

(* The second action of a merge changes nothing the users see.             *)
LEMMA SaveOtherMaps ==
  ASSUME Inv, NEW r \in Requests, NEW m \in Mains, SaveOther(r, m)
  PROVE  UNCHANGED Service!vars
<1>1. /\ pc[r] = "delete" /\ pc' = [pc EXCEPT ![r] = "next"] /\ cur' = [cur EXCEPT ![r] = {}]
      /\ UNCHANGED <<child, main, acts, sent, wants, todo>>
  BY DEF SaveOther, rowVars
<1>2. Phases' = Phases /\ Owes' = Owes
  <2>1. pc'[r] = "next" /\ OnlyMoves(r)
    BY <1>1 DEF OnlyMoves, Inv, TypeOK
  <2> QED BY <1>1, <2>1, PhaseStep, OwesStep DEF PhaseOf
<1> QED BY <1>1, <1>2, MergesKept DEF Service!vars

LEMMA PropagateMaps ==
  ASSUME Inv, NEW r \in Requests, Propagate(r)
  PROVE  Service!Send(r)
<1>1. /\ pc[r] = "next" /\ todo[r] = {} /\ sent' = sent \cup OwnActs(r)
      /\ pc' = [pc EXCEPT ![r] = "done"]
      /\ UNCHANGED <<child, main, acts, wants, todo, cur>>
  BY DEF Propagate, rowVars
<1>2. Phases' = [Phases EXCEPT ![r] = "sent"] /\ Owes' = Owes
  <2>1. pc'[r] = "done" /\ OnlyMoves(r)
    BY <1>1 DEF OnlyMoves, Inv, TypeOK
  <2> QED BY <1>1, <2>1, PhaseStep, OwesStep DEF PhaseOf
<1>3. MergesOf(sent)' = MergesOf(sent) \cup {a \in MergesOf(acts) : a.by = r}
  BY <1>1 DEF MergesOf, OwnActs
<1> QED BY <1>1, <1>2, <1>3, AtWork, MergesKept DEF Service!Send

LEMMA AbortMaps ==
  ASSUME Inv, NEW r \in Requests, Abort(r)
  PROVE  Service!Fail(r)
<1>1. /\ pc[r] \in {"next", "merge", "delete", "finish"} /\ pc' = [pc EXCEPT ![r] = "aborted"]
      /\ UNCHANGED <<child, main, acts, sent, wants, todo, cur>>
  BY DEF Abort, rowVars
<1>2. Phases' = [Phases EXCEPT ![r] = "failed"] /\ Owes' = [Owes EXCEPT ![r] = {}]
  <2>1. pc'[r] = "aborted" /\ OnlyMoves(r)
    BY <1>1 DEF OnlyMoves, Inv, TypeOK
  <2> QED BY <1>1, <2>1, PhaseStep, OwesStep DEF PhaseOf
<1> QED BY <1>1, <1>2, AtWork, MergesKept DEF Service!Fail

LEMMA DecisionsInitMap == Init => Service!Init
<1> SUFFICES ASSUME Init PROVE Service!Init
  OBVIOUS
<1>1. /\ MergesOf(acts) = {} /\ MergesOf(sent) = {}
      /\ Phases = [r \in Requests |-> "new"] /\ Owes = [r \in Requests |-> {}]
  BY DEF Init, MergesOf, Phases, PhaseOf, Owes
<1> QED BY <1>1 DEF Init, Nothing, Absent, Service!Init

LEMMA DecisionsStepMaps ==
  ASSUME Inv, [Next]_vars
  PROVE  Service!Next \/ UNCHANGED Service!vars
<1>1. ASSUME NEW m \in Mains, Offer(m) PROVE Service!Next
  BY <1>1, OfferMaps DEF Service!Next
<1>2. ASSUME NEW r \in Requests, Begin(r) \/ Propagate(r) \/ Abort(r) PROVE Service!Next
  BY <1>2, BeginMaps, PropagateMaps, AbortMaps DEF Service!Next
<1>3. ASSUME NEW r \in Requests, NEW m \in Mains, PassBy(r, m) \/ Decide(r, m)
      PROVE  Service!Next
  BY <1>3, PassByMaps, DecideMaps DEF Service!Next
<1>4. ASSUME NEW r \in Requests, NEW m \in Mains, SaveUpdate(r, m) \/ SaveMain(r, m)
      PROVE  Service!Next
  BY <1>4, SaveUpdateMaps, SaveMainMaps DEF Service!Next
<1>5. ASSUME NEW r \in Requests, NEW m \in Mains, SaveOther(r, m)
      PROVE  UNCHANGED Service!vars
  BY <1>5, SaveOtherMaps
<1>6. CASE UNCHANGED vars
  <2>1. Phases' = Phases /\ Owes' = Owes
    BY <1>6 DEF vars, Phases, Owes
  <2> QED BY <1>6, <2>1, MergesKept DEF vars, rowVars, Service!vars
<1> QED BY <1>1, <1>2, <1>3, <1>4, <1>5, <1>6 DEF Next, Step

(* Users who decide at the same time on copies of the rows get what they   *)
(* would have got one after the other: each decision takes effect at one   *)
(* moment and on the state the similarity has then.                        *)
THEOREM DecisionsAreAtomic == Spec => ImplementsService
<1>1. Inv /\ [Next]_vars => [Service!Next]_Service!vars
  BY DecisionsStepMaps
<1> QED BY <1>1, DecisionsInitMap, InvHolds, PTL DEF Spec, ImplementsService, Service!Spec
=============================================================================

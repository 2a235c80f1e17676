------------------------- MODULE ClassSearch_proofs -------------------------
(***************************************************************************)
(* Theorems about ClassSearch for every set of entities, links and matches.*)
(***************************************************************************)
EXTENDS ClassSearch, FiniteSetTheorems, TLAPS

AllResults == pending \cup building \cup saved

(* What holds of one result, in whatever phase it is.                      *)
Sound(r) ==
  /\ r.left \subseteq r.auto /\ r.head \notin r.auto
  /\ r.keep \notin r.del
  /\ r.del \cup {r.keep} = Treated(r)
  /\ r.merged = Treated(r)

ResultsSound == \A r \in AllResults : Sound(r)

LEMMA NewIsResult ==
  ASSUME NEW h \in Local, NEW auto \in SUBSET (Entities \ {h})
  PROVE  NewResult(h, auto) \in Result /\ Sound(NewResult(h, auto))
<1>1. NewResult(h, auto) \in Result
  BY DEF NewResult, Result, Store
<1>2. Sound(NewResult(h, auto))
  BY DEF NewResult, Sound, Treated
<1> QED BY <1>1, <1>2

(* Merging keeps a result sound.                                           *)
LEMMA MergeIsSound ==
  ASSUME NEW r \in Result, Sound(r), NEW o \in r.left
  PROVE  LET n == IF SameStore(o) THEN Merged(r, o) ELSE [r EXCEPT !.left = @ \ {o}]
         IN  /\ n \in Result /\ Sound(n)
             /\ n.head = r.head /\ n.auto = r.auto /\ n.left \subseteq r.left
<1>1. CASE ~SameStore(o)
  <2> DEFINE n == [r EXCEPT !.left = @ \ {o}]
  <2>1. n \in Result /\ n.head = r.head /\ n.auto = r.auto /\ n.left = r.left \ {o}
        /\ n.keep = r.keep /\ n.del = r.del /\ n.merged = r.merged
    BY DEF Result
  <2>2. Treated(n) = Treated(r)
    BY <1>1, <2>1 DEF Treated, SameStore, Sound
  <2> HIDE DEF n
  <2>3. Sound(n)
    BY <2>1, <2>2 DEF Sound
  <2> QED BY <1>1, <2>1, <2>3 DEF n
<1>2. CASE SameStore(o)
  <2> DEFINE n == Merged(r, o)
  <2>0. o \in Store
    BY <1>2 DEF SameStore
  <2>1. /\ n \in Result /\ n.head = r.head /\ n.auto = r.auto /\ n.left = r.left \ {o}
        /\ n.merged = r.merged \cup {o}
        /\ \/ n.keep = r.keep /\ n.del = r.del \cup {o}
           \/ n.keep = o /\ n.del = r.del \cup {r.keep}
    BY <2>0 DEF Merged, Result
  <2>2. o \notin Treated(r)
    BY DEF Treated, Sound
  <2>3. Treated(n) = Treated(r) \cup {o}
    BY <2>0, <2>1 DEF Treated, Sound
  <2> HIDE DEF n
  <2>4. Sound(n)
    BY <2>1, <2>2, <2>3 DEF Sound
  <2> QED BY <1>2, <2>1, <2>4 DEF n
<1> QED BY <1>1, <1>2

(* Saving changes nothing of a result but the moved links.                 *)
LEMMA SaveIsSound ==
  ASSUME NEW r \in Result, Sound(r), NEW m \in SUBSET MovedLinks
  PROVE  LET n == [r EXCEPT !.moved = m]
         IN  /\ n \in Result /\ Sound(n) /\ n.head = r.head /\ n.auto = r.auto
             /\ n.keep = r.keep /\ n.del = r.del
<1> DEFINE n == [r EXCEPT !.moved = m]
<1>1. n \in Result /\ n.head = r.head /\ n.auto = r.auto /\ n.left = r.left
      /\ n.keep = r.keep /\ n.del = r.del /\ n.merged = r.merged
  BY DEF Result
<1>2. Sound(n)
  BY <1>1 DEF Sound, Treated
<1> QED BY <1>1, <1>2

-----------------------------------------------------------------------------
(* A head has one result, in one phase, and its matches are remembered.    *)
OneResultPerHead ==
  /\ \A r \in AllResults : r.head \notin heads /\ \A e \in r.auto : IdOf[e] \in found
  /\ \A r1, r2 \in AllResults : r1.head = r2.head => r1 = r2
  /\ pending \cap building = {} /\ pending \cap saved = {} /\ building \cap saved = {}

(* When the matches are exact, no two results are about one thing.         *)
OneResultPerThing ==
  exact => /\ \A r \in AllResults :
                r.auto = {e \in Entities \ {r.head} : thing[e] = thing[r.head]}
           /\ \A r1, r2 \in AllResults :
                r1.head # r2.head => thing[r1.head] # thing[r2.head]

Inv == TypeOK /\ ResultsSound /\ OneResultPerHead /\ OneResultPerThing

LEMMA InvInit == Init => Inv
<1> SUFFICES ASSUME Init PROVE Inv
  OBVIOUS
<1> USE ClassSearchAssumption
<1>1. AllResults = {}
  BY DEF Init, AllResults
<1>2. thing \in [Entities -> Things]
  <2>1. CASE exact BY <2>1 DEF Init
  <2>2. CASE ~exact
    <3>1. (CHOOSE x \in Things : TRUE) \in Things OBVIOUS
    <3> QED BY <2>2, <3>1 DEF Init
  <2> QED BY <2>1, <2>2
<1>3. TypeOK
  BY <1>2 DEF Init, TypeOK, Entities
<1> QED BY <1>1, <1>3 DEF Inv, ResultsSound, OneResultPerHead, OneResultPerThing, Init

LEMMA InvSearchHead ==
  ASSUME Inv, NEW h \in Local, SearchHead(h)
  PROVE  Inv'
<1> USE DEF Inv
<1>1. PICK auto \in Matches(h), manual \in BOOLEAN :
        /\ pending' = IF auto = {} /\ ~manual THEN pending
                      ELSE pending \cup {NewResult(h, auto)}
        /\ found' = found \cup {IdOf[e] : e \in auto}
  BY DEF SearchHead
<1>2. auto \in SUBSET (Entities \ {h})
  BY ClassSearchAssumption DEF Matches
<1>3. UNCHANGED <<exact, thing, inverse, linked, cached, building, saved, status, sent>>
      /\ heads' = heads \ {h} /\ h \in heads /\ IdOf[h] \notin found
  BY DEF SearchHead, linkVars, FoundBefore
<1> DEFINE n == NewResult(h, auto)
<1>4. n \in Result /\ Sound(n)
  BY <1>2, NewIsResult
<1>5. n.head = h /\ n.auto = auto
  BY DEF NewResult
<1> HIDE DEF n
<1>6. pending' \subseteq pending \cup {n} /\ pending \subseteq pending'
  BY <1>1 DEF n
<1>7. AllResults' \subseteq AllResults \cup {n}
  BY <1>3, <1>6 DEF AllResults
<1>8. \A r \in AllResults : r.head # h
  BY <1>3 DEF OneResultPerHead
<1>9. TypeOK'
  BY <1>1, <1>2, <1>3, <1>4, <1>6 DEF TypeOK
<1>10. ResultsSound'
  BY <1>4, <1>7 DEF ResultsSound, Sound, Treated
<1>11. OneResultPerHead'
  <2>1. n \notin AllResults
    BY <1>5, <1>8
  <2>2. \A r \in AllResults' : r.head \notin heads' /\ \A e \in r.auto : IdOf[e] \in found'
    BY <1>1, <1>3, <1>5, <1>7 DEF OneResultPerHead
  <2>3. \A r1, r2 \in AllResults' : r1.head = r2.head => r1 = r2
    BY <1>5, <1>7, <1>8 DEF OneResultPerHead
  <2>4. /\ pending' \cap building' = {} /\ pending' \cap saved' = {}
        /\ building' \cap saved' = {}
    BY <1>3, <1>6, <2>1 DEF OneResultPerHead, AllResults
  <2> QED BY <2>2, <2>3, <2>4 DEF OneResultPerHead
<1>12. OneResultPerThing'
  <2> SUFFICES ASSUME exact PROVE OneResultPerThing'
    BY <1>3 DEF OneResultPerThing
  <2>1. auto = {e \in Entities \ {h} : thing[e] = thing[h]}
    BY <1>1 DEF Matches
  <2>2. \A r \in AllResults : thing[r.head] # thing[h]
    <3> SUFFICES ASSUME NEW r \in AllResults, thing[r.head] = thing[h] PROVE FALSE
      OBVIOUS
    <3>1. h \in r.auto
      BY <1>8 DEF OneResultPerThing, Entities, Store
    <3>2. IdOf[h] \in found
      BY <3>1 DEF OneResultPerHead
    <3> QED BY <3>2, <1>3
  <2> QED BY <1>3, <1>5, <1>7, <2>1, <2>2 DEF OneResultPerThing
<1> QED BY <1>9, <1>10, <1>11, <1>12

(* The steps that leave the results alone.                                 *)
LEMMA InvOther ==
  ASSUME Inv,
         UNCHANGED <<linkVars, found, pending, building, saved>>,
         cached' \subseteq cached, heads' \subseteq heads,
         status' \in {"PENDING", "COMPLETED", "FAIL"}, sent' \subseteq saved
  PROVE  Inv'
<1>1. AllResults' = AllResults
  BY DEF AllResults
<1>2. TypeOK'
  BY DEF Inv, TypeOK, linkVars
<1>3. ResultsSound' /\ OneResultPerHead' /\ OneResultPerThing'
  BY <1>1 DEF Inv, ResultsSound, OneResultPerHead, OneResultPerThing, Sound, Treated, linkVars
<1> QED BY <1>2, <1>3 DEF Inv

(* A result r that is replaced by n, in the same or the next phase, with   *)
(* its head and its matches, or dropped.                                   *)
LEMMA InvReplace ==
  ASSUME Inv, NEW r \in AllResults, NEW n \in Result, Sound(n),
         n.head = r.head, n.auto = r.auto,
         UNCHANGED <<exact, thing, inverse, heads, found>>,
         AllResults' \subseteq (AllResults \ {r}) \cup {n},
         pending' \cap building' = {}, pending' \cap saved' = {}, building' \cap saved' = {}
  PROVE  ResultsSound' /\ OneResultPerHead' /\ OneResultPerThing'
<1> USE DEF Inv
<1>1. ResultsSound'
  BY DEF ResultsSound, Sound, Treated
<1>2. \A x \in AllResults \ {r} : x.head # n.head
  BY DEF OneResultPerHead
<1>3. OneResultPerHead'
  <2>1. \A x \in AllResults' : x.head \notin heads' /\ \A e \in x.auto : IdOf[e] \in found'
    BY DEF OneResultPerHead
  <2>2. \A r1, r2 \in AllResults' : r1.head = r2.head => r1 = r2
    BY <1>2 DEF OneResultPerHead
  <2> QED BY <2>1, <2>2 DEF OneResultPerHead
<1>4. OneResultPerThing'
  BY <1>2 DEF OneResultPerThing
<1> QED BY <1>1, <1>3, <1>4

LEMMA InvTakeResult ==
  ASSUME Inv, NEW r \in pending, TakeResult(r)
  PROVE  Inv'
<1> USE DEF Inv
<1>1. /\ building = {} /\ pending' = pending \ {r} /\ building' = {r}
      /\ UNCHANGED <<exact, thing, inverse, linked, cached, heads, found, saved, status, sent>>
  BY DEF TakeResult, linkVars, searchVars
<1>2. r \in AllResults /\ r \in Result /\ Sound(r)
  BY DEF AllResults, TypeOK, ResultsSound
<1>3. AllResults' \subseteq (AllResults \ {r}) \cup {r}
  BY <1>1 DEF AllResults
<1>4. pending' \cap building' = {} /\ pending' \cap saved' = {} /\ building' \cap saved' = {}
  BY <1>1 DEF OneResultPerHead
<1>5. TypeOK'
  BY <1>1, <1>2 DEF TypeOK
<1> QED BY <1>1, <1>2, <1>3, <1>4, <1>5, InvReplace

LEMMA InvTreatAutomatic ==
  ASSUME Inv, NEW r \in building, NEW o \in r.left, TreatAutomatic(r, o)
  PROVE  Inv'
<1> USE DEF Inv
<1> DEFINE n == IF SameStore(o) THEN Merged(r, o) ELSE [r EXCEPT !.left = @ \ {o}]
<1>1. building' = {n} /\ building = {r}
      /\ UNCHANGED <<exact, thing, inverse, linked, cached, heads, found, pending, saved, status, sent>>
  BY DEF TreatAutomatic, linkVars, searchVars, TypeOK
<1>2. r \in AllResults /\ r \in Result /\ Sound(r)
  BY DEF AllResults, TypeOK, ResultsSound
<1>3. n \in Result /\ Sound(n) /\ n.head = r.head /\ n.auto = r.auto
  BY <1>2, MergeIsSound
<1> HIDE DEF n
<1>4. r \notin pending /\ r \notin saved
  BY DEF OneResultPerHead
<1>5. AllResults' \subseteq (AllResults \ {r}) \cup {n}
  BY <1>1, <1>4 DEF AllResults
<1>6. n \notin pending /\ n \notin saved
  BY <1>2, <1>3, <1>4 DEF OneResultPerHead, AllResults
<1>7. pending' \cap building' = {} /\ pending' \cap saved' = {} /\ building' \cap saved' = {}
  BY <1>1, <1>6 DEF OneResultPerHead
<1>8. TypeOK'
  BY <1>1, <1>3 DEF TypeOK
<1>9. ResultsSound' /\ OneResultPerHead' /\ OneResultPerThing'
  BY <1>1, <1>2, <1>3, <1>5, <1>7, InvReplace
<1> QED BY <1>8, <1>9

LEMMA ReplacedIsTyped ==
  ASSUME NEW atts \in [Keys -> SUBSET Store], NEW l, NEW gone, NEW keep \in Store
  PROVE  Replaced(l, atts, gone, keep) \in [Keys -> SUBSET Store]
BY DEF Replaced, MovedBy

LEMMA MovedIsTyped ==
  ASSUME TypeOK, NEW r \in Result, NEW s
  PROVE  Moved(r, s) \in SUBSET MovedLinks
<1>1. r.keep \in Store /\ \A l \in Linkers : linked[l] \in [Keys -> SUBSET Store]
  BY DEF TypeOK, Result
<1>2. \A l \in Linkers : \A g : Replaced(l, linked[l], g, r.keep) \in [Keys -> SUBSET Store]
  BY <1>1, ReplacedIsTyped
<1> QED BY <1>2 DEF Moved, MovedLinks, Dependents

LEMMA InvSaveResult ==
  ASSUME Inv, NEW r \in building, SaveResult(r)
  PROVE  Inv'
<1> USE DEF Inv
<1>1. building' = {} /\ building = {r}
      /\ UNCHANGED <<exact, thing, inverse, cached, heads, found, pending, status, sent>>
  BY DEF SaveResult, searchVars, TypeOK
<1>2. r \in AllResults /\ r \in Result /\ Sound(r) /\ r \notin pending /\ r \notin saved
  BY DEF AllResults, TypeOK, ResultsSound, OneResultPerHead
<1>3. linked' \in [Linkers -> [Keys -> SUBSET Store]]
  <2>1. r.keep \in Store /\ \A l \in Linkers : linked[l] \in [Keys -> SUBSET Store]
    BY <1>2 DEF TypeOK, Result
  <2>2. \A l \in Linkers : \A g : Replaced(l, linked[l], g, r.keep) \in [Keys -> SUBSET Store]
    BY <2>1, ReplacedIsTyped
  <2> QED BY <2>2 DEF SaveResult
<1>4. PICK m \in SUBSET MovedLinks :
        saved' \subseteq saved \cup {[r EXCEPT !.moved = m]} /\ saved \subseteq saved'
  <2>1. CASE saved' = saved
    BY <2>1
  <2>2. CASE \E s \in SetToSeqs(r.del) : saved' = saved \cup {[r EXCEPT !.moved = Moved(r, s)]}
    BY <2>2, <1>2, MovedIsTyped
  <2> QED BY <2>1, <2>2 DEF SaveResult
<1> DEFINE n == [r EXCEPT !.moved = m]
<1>5. n \in Result /\ Sound(n) /\ n.head = r.head /\ n.auto = r.auto
  BY <1>2, SaveIsSound
<1> HIDE DEF n
<1>6. AllResults' \subseteq (AllResults \ {r}) \cup {n}
  BY <1>1, <1>2, <1>4 DEF AllResults, n
<1>7. n \notin pending
  BY <1>2, <1>5 DEF OneResultPerHead, AllResults
<1>8. pending' \cap building' = {} /\ pending' \cap saved' = {} /\ building' \cap saved' = {}
  BY <1>1, <1>4, <1>7 DEF OneResultPerHead, n
<1>9. TypeOK'
  BY <1>1, <1>3, <1>4, <1>5 DEF TypeOK, n
<1>10. ResultsSound' /\ OneResultPerHead' /\ OneResultPerThing'
  BY <1>1, <1>2, <1>5, <1>6, <1>8, InvReplace
<1> QED BY <1>9, <1>10

LEMMA InvNext ==
  ASSUME Inv, [Next]_vars
  PROVE  Inv'
<1>0. status \in {"PENDING", "COMPLETED", "FAIL"} /\ sent \subseteq saved
  BY DEF Inv, TypeOK
<1>1. ASSUME NEW e \in Entities, Forget(e) PROVE Inv'
  BY <1>0, <1>1, InvOther DEF Forget, searchVars
<1>2. ASSUME NEW h \in Local, SkipHead(h) PROVE Inv'
  BY <1>0, <1>2, InvOther DEF SkipHead
<1>3. ASSUME NEW h \in Local, SearchHead(h) PROVE Inv'
  BY <1>3, InvSearchHead
<1>4. ASSUME NEW r \in pending, TakeResult(r) PROVE Inv'
  BY <1>4, InvTakeResult
<1>5. ASSUME NEW r \in building, SaveResult(r) PROVE Inv'
  BY <1>5, InvSaveResult
<1>6. ASSUME NEW r \in building, NEW o \in r.left, TreatAutomatic(r, o) PROVE Inv'
  BY <1>6, InvTreatAutomatic
<1>7. CASE SearchFails
  BY <1>0, <1>7, InvOther DEF SearchFails, searchVars
<1>8. CASE SearchEnds
  BY <1>0, <1>8, InvOther DEF SearchEnds, searchVars
<1>9. ASSUME NEW r \in saved, Send(r) PROVE Inv'
  BY <1>0, <1>9, InvOther DEF Send, searchVars
<1>10. CASE UNCHANGED vars
  BY <1>0, <1>10, InvOther DEF vars, searchVars
<1> QED BY <1>1, <1>2, <1>3, <1>4, <1>5, <1>6, <1>7, <1>8, <1>9, <1>10 DEF Next

THEOREM InvHolds == Spec => []Inv
<1>1. Init => Inv BY InvInit
<1>2. Inv /\ [Next]_vars => Inv' BY InvNext
<1> QED BY <1>1, <1>2, PTL DEF Spec

(* Every variable keeps its type, and one result is built at a time.       *)
THEOREM SearchTyped == Spec => []TypeOK
<1>1. Inv => TypeOK BY DEF Inv
<1> QED BY <1>1, InvHolds, PTL

(* Whatever the order of the merges and the changes of survivor, a result  *)
(* of findSimilaritiesByClass deletes all of the group but the survivor,   *)
(* and the survivor carries the data of all.                               *)
THEOREM SurvivorHasAll == Spec => []NothingLost
<1>1. Inv => NothingLost BY DEF Inv, ResultsSound, AllResults, Sound, NothingLost
<1> QED BY <1>1, InvHolds, PTL

(* With exact matches the skipping of the heads already found makes the    *)
(* results disjoint: what one keeps, none deletes.                         *)
THEOREM GroupsAreDisjoint == Spec => []OneSurvivor
<1>1. Inv => OneSurvivor
  <2> SUFFICES ASSUME Inv, exact, NEW r1 \in saved, NEW r2 \in saved
               PROVE  /\ r1.keep \notin r2.del
                      /\ r1.head # r2.head => r1.del \cap r2.del = {}
    BY DEF OneSurvivor
  <2> USE DEF Inv
  <2>1. r1 \in AllResults /\ r2 \in AllResults /\ Sound(r1) /\ Sound(r2)
    BY DEF AllResults, ResultsSound
  <2>2. CASE r1.head = r2.head
    BY <2>1, <2>2 DEF OneResultPerHead, Sound
  <2>3. CASE r1.head # r2.head
    <3>1. thing[r1.head] # thing[r2.head]
      BY <2>1, <2>3 DEF OneResultPerThing
    <3>2. \A e \in Treated(r1) : thing[e] = thing[r1.head]
      BY <2>1 DEF OneResultPerThing, Treated
    <3>3. \A e \in Treated(r2) : thing[e] = thing[r2.head]
      BY <2>1 DEF OneResultPerThing, Treated
    <3>4. Treated(r1) \cap Treated(r2) = {}
      BY <3>1, <3>2, <3>3
    <3> QED BY <2>1, <3>4 DEF Sound
  <2> QED BY <2>2, <2>3
<1> QED BY <1>1, InvHolds, PTL

-----------------------------------------------------------------------------
(* Where the links go.  The inverse map names a single attribute for one   *)
(* entity only, because it holds one link.                                 *)
MapOK ==
  \A l \in Linkers, k \in Keys \ Lists : \A d, e \in Store :
    inverse[l][d] = k /\ inverse[l][e] = k => d = e

LinksInv == Inv /\ MapOK /\ CachedLinksMoved

LEMMA MapInit == Init => MapOK
<1> USE ClassSearchAssumption
<1> SUFFICES ASSUME Init, NEW l \in Linkers, NEW k \in Keys \ Lists, NEW d \in Store,
                    NEW e \in Store, inverse[l][d] = k, inverse[l][e] = k
             PROVE  d = e
  BY DEF MapOK
<1>1. ASSUME NEW x \in Store, inverse[l][x] = k
      PROVE  x \in linked[l][k]
  <2> DEFINE at == {j \in Keys : x \in linked[l][j]}
  <2>1. inverse[l][x] \in IF at = {} THEN {NoKey} ELSE at
    BY DEF Init
  <2>2. k # NoKey
    OBVIOUS
  <2>3. k \in at
    BY <1>1, <2>1, <2>2
  <2> QED BY <2>3
<1>2. linked \in Links /\ d \in linked[l][k] /\ e \in linked[l][k]
  BY <1>1 DEF Init
<1> QED BY <1>2

(* What a result keeps and deletes stands for the same thing as its head.  *)
LEMMA OneThing ==
  ASSUME Inv, exact, NEW r \in AllResults
  PROVE  \A e \in r.del \cup {r.keep} : e \in Store /\ thing[e] = thing[r.head]
<1>1. Sound(r) /\ r \in Result
  BY DEF Inv, ResultsSound, AllResults, TypeOK
<1>2. r.del \cup {r.keep} \subseteq Store
  BY <1>1 DEF Result
<1>3. \A e \in Treated(r) : thing[e] = thing[r.head]
  BY DEF Inv, OneResultPerThing, Treated
<1> QED BY <1>1, <1>2, <1>3 DEF Sound

(* A link that has followed a result goes on doing so when another result  *)
(* moves links of the same object.                                         *)
LEMMA OthersKeep ==
  ASSUME Inv, MapOK, exact, NEW r \in AllResults, NEW x \in AllResults, x.head # r.head,
         NEW d \in x.del, NEW l \in Dependencies(d), NEW atts, Follows(atts, l, d, x),
         NEW g \in SUBSET r.del
  PROVE  Follows(Replaced(l, atts, g, r.keep), l, d, x)
<1>1. /\ \A e \in r.del \cup {r.keep} : e \in Store /\ thing[e] = thing[r.head]
      /\ \A e \in x.del \cup {x.keep} : e \in Store /\ thing[e] = thing[x.head]
      /\ thing[x.head] # thing[r.head]
  BY OneThing DEF Inv, OneResultPerThing
<1> DEFINE k == inverse[l][d]
           out == MovedBy(l, g, k)
           new == Replaced(l, atts, g, r.keep)
<1>2. l \in Linkers /\ k \in Keys
  BY <1>1 DEF Dependencies, Inv, TypeOK
<1>3. CASE out = {}
  BY <1>2, <1>3 DEF Replaced, Follows
<1>4. CASE out # {}
  <2>1. k \in Lists
    BY <1>1, <1>2, <1>4 DEF MapOK, MovedBy
  <2>2. new[k] = {r.keep} \cup (atts[k] \ out)
    BY <1>2, <1>4, <2>1 DEF Replaced
  <2>3. d # r.keep /\ x.keep \notin out
    BY <1>1 DEF MovedBy
  <2> QED BY <2>2, <2>3 DEF Follows
<1> QED BY <1>3, <1>4

(* A link follows the result that moves it.                                *)
LEMMA OwnFollows ==
  ASSUME Inv, NEW r \in AllResults, NEW d \in r.del, NEW l \in Dependencies(d), NEW atts,
         NEW g \in SUBSET r.del, d \in g
  PROVE  Follows(Replaced(l, atts, g, r.keep), l, d, r)
<1>1. Sound(r) /\ r \in Result
  BY DEF Inv, ResultsSound, AllResults, TypeOK
<1>2. inverse[l][d] \in Keys
  BY <1>1 DEF Dependencies, Inv, TypeOK, Result
<1>3. d \in MovedBy(l, g, inverse[l][d])
  BY DEF MovedBy
<1>4. d # r.keep
  BY <1>1 DEF Sound
<1> QED BY <1>2, <1>3, <1>4 DEF Follows, Replaced

(* What the saved results are after a save.                                *)
LEMMA SavedNext ==
  ASSUME Inv, NEW r \in building, SaveResult(r), NEW x \in saved', x \notin saved
  PROVE  \E s \in SetToSeqs(r.del) : x.keep = r.keep /\ x.del = r.del /\ x.moved = Moved(r, s)
<1>1. r \in Result
  BY DEF Inv, TypeOK
<1> QED BY <1>1 DEF SaveResult, Result

LEMMA SavedOthers ==
  ASSUME Inv, NEW r \in building, NEW x \in saved
  PROVE  r \in AllResults /\ x \in AllResults /\ x.head # r.head
BY DEF Inv, OneResultPerHead, AllResults

LEMMA LinksSaveResult ==
  ASSUME LinksInv, NEW r \in building, SaveResult(r)
  PROVE  CachedLinksMoved'
<1>1. UNCHANGED <<exact, inverse>>
  BY DEF SaveResult
<1> SUFFICES ASSUME exact, NEW x \in saved', NEW d \in x.del, NEW l \in Dependencies(d)
             PROVE  Follows(linked'[l], l, d, x)
  BY <1>1 DEF CachedLinksMoved, Follows, Dependencies
<1>2. /\ linked'[l] = Replaced(l, linked[l], Gone(r, l), r.keep)
      /\ Gone(r, l) \in SUBSET r.del
  BY DEF SaveResult, Dependencies, Gone
<1>3. CASE x \in saved
  <2>1. Follows(linked[l], l, d, x)
    BY <1>3 DEF LinksInv, CachedLinksMoved
  <2> QED BY <1>2, <1>3, <2>1, SavedOthers, OthersKeep DEF LinksInv
<1>4. CASE x \notin saved
  <2>1. x.keep = r.keep /\ x.del = r.del
    BY <1>4, SavedNext DEF LinksInv
  <2>2. d \in Gone(r, l) /\ r \in AllResults
    BY <2>1 DEF Gone, AllResults
  <2>3. Follows(linked'[l], l, d, r)
    BY <1>2, <2>1, <2>2, OwnFollows DEF LinksInv
  <2> QED BY <2>1, <2>3 DEF Follows
<1> QED BY <1>3, <1>4

LEMMA LinksNext ==
  ASSUME LinksInv, [Next]_vars
  PROVE  LinksInv'
<1>0. Inv'
  BY InvNext DEF LinksInv
<1> DEFINE Rest == MapOK /\ CachedLinksMoved
<1>1. ASSUME UNCHANGED <<exact, inverse, linked, saved>> PROVE Rest'
  BY <1>1 DEF LinksInv, MapOK, CachedLinksMoved, Follows, Dependencies
<1>2. ASSUME NEW r \in building, SaveResult(r) PROVE Rest'
  <2>1. MapOK'
    BY <1>2 DEF LinksInv, MapOK, SaveResult
  <2> QED BY <1>2, <2>1, LinksSaveResult
<1>3. (\E r \in building : SaveResult(r)) \/ UNCHANGED <<exact, inverse, linked, saved>>
  BY DEF Next, vars, linkVars, Forget, SkipHead, SearchHead, TakeResult, TreatAutomatic,
     SearchFails, SearchEnds, Send
<1> HIDE DEF Rest
<1>4. Rest'
  BY <1>1, <1>2, <1>3
<1> QED BY <1>0, <1>4 DEF LinksInv, Rest

LEMMA LinksInit == Init => LinksInv
  BY InvInit, MapInit DEF Init, LinksInv, CachedLinksMoved

(* With exact matches every link of a cached object to a deleted entity of *)
(* the class that the inverse map knows leads to the survivor, and no      *)
(* later result disturbs it.                                               *)
THEOREM CacheFollows == Spec => []CachedLinksMoved
<1>1. LinksInv => CachedLinksMoved
  BY DEF LinksInv
<1> QED BY <1>1, LinksInit, LinksNext, PTL DEF Spec

-----------------------------------------------------------------------------
(* What the UPDATEs have of the objects that link to deleted entities.     *)

(* The only deleted entity that l links to is the first one in any order.  *)
LEMMA OnlyIsFirst ==
  ASSUME NEW S, IsFiniteSet(S), NEW s \in SetToSeqs(S), NEW d \in S
  PROVE  FirstOf(s, {d}) = {d}
<1> DEFINE n == Cardinality(S)
<1>1. n \in Nat
  BY FS_CardinalityType
<1>2. s \in [1 .. n -> S] /\ \A i, j \in 1 .. n : i # j => s[i] # s[j]
  BY DEF SetToSeqs
<1>3. IsFiniteSet(1 .. n) /\ Cardinality(1 .. n) = n
  BY <1>1, FS_Interval
<1> HIDE DEF n
<1>4. s \in Injection(1 .. n, S)
  BY <1>2 DEF Injection, IsInjective
<1>5. s \in Surjection(1 .. n, S)
  BY <1>3, <1>4, FS_Injection DEF n
<1>6. PICK k \in 1 .. n : s[k] = d
  BY <1>5 DEF Surjection
<1>7. \A i \in 1 .. n : s[i] \in {d} <=> i = k
  BY <1>2, <1>6
<1>8. \A j \in 1 .. k - 1 : j \in 1 .. n /\ j # k
  BY <1>1, <1>6
<1>9. {i \in DOMAIN s : s[i] \in {d} /\ \A j \in 1 .. i - 1 : s[j] \notin {d}} = {k}
  BY <1>2, <1>6, <1>7, <1>8
<1> QED BY <1>6, <1>9 DEF FirstOf

(* What a result sends of an object in which it moves one link: that link  *)
(* has moved, and those that earlier results have moved as well.           *)
LEMMA SentBySave ==
  ASSUME LinksInv, exact, NEW r \in building, NEW s \in SetToSeqs(r.del),
         NEW l \in Linkers, NEW d \in r.del, OnlyLink(r, l, d)
  PROVE  \E m \in Moved(r, s) :
           /\ m.of = l /\ Follows(m.links, l, d, r)
           /\ \A x \in saved : \A e \in x.del :
                l \in Dependencies(e) => Follows(m.links, l, e, x)
<1>1. r \in AllResults /\ r \in Result /\ Inv
  BY DEF AllResults, LinksInv, Inv, TypeOK
<1>2. IsFiniteSet(r.del)
  BY <1>1, ClassSearchAssumption, FS_Subset DEF Result
<1>3. l # r.keep /\ Gone(r, l) = {d} /\ l \in Dependencies(d)
  BY DEF OnlyLink, Gone
<1>4. FirstOf(s, Gone(r, l)) = {d}
  BY <1>2, <1>3, OnlyIsFirst
<1> DEFINE m == [of |-> l, links |-> Replaced(l, linked[l], {d}, r.keep)]
<1>5. m \in Moved(r, s)
  BY <1>3, <1>4 DEF Moved, Dependents
<1>6. Follows(m.links, l, d, r)
  BY <1>1, <1>3, OwnFollows
<1>7. ASSUME NEW x \in saved, NEW e \in x.del, l \in Dependencies(e)
      PROVE  Follows(m.links, l, e, x)
  <2>1. Follows(linked[l], l, e, x)
    BY <1>7 DEF LinksInv, CachedLinksMoved
  <2> QED BY <1>1, <1>7, <2>1, SavedOthers, OthersKeep DEF LinksInv
<1> QED BY <1>5, <1>6, <1>7

LEMMA SentSaveResult ==
  ASSUME LinksInv, SentLinksMoved, NEW r \in building, SaveResult(r)
  PROVE  SentLinksMoved'
<1>1. UNCHANGED <<exact, inverse>>
  BY DEF SaveResult
<1> DEFINE Own(x, l, d) == \E m \in x.moved : m.of = l /\ Follows(m.links, l, d, x)
           Both(x, y, l, d, e) ==
             \E m \in x.moved \cup y.moved :
               m.of = l /\ Follows(m.links, l, d, x) /\ Follows(m.links, l, e, y)
<1> SUFFICES ASSUME exact, NEW x \in saved', NEW y \in saved', NEW l \in Linkers,
                    NEW d \in x.del, NEW e \in y.del, OnlyLink(x, l, d), OnlyLink(y, l, e)
             PROVE  Own(x, l, d) /\ Both(x, y, l, d, e)
  BY <1>1 DEF SentLinksMoved, OnlyLink, Gone, Dependencies, Follows
<1>2. l \in Dependencies(d) /\ l \in Dependencies(e)
  BY DEF OnlyLink, Gone
<1>3. ASSUME NEW z \in saved', z \notin saved, NEW f \in z.del, OnlyLink(z, l, f)
      PROVE  \E m \in z.moved :
               /\ m.of = l /\ Follows(m.links, l, f, z)
               /\ \A o \in saved : \A g \in o.del :
                    l \in Dependencies(g) => Follows(m.links, l, g, o)
  <2>1. PICK s \in SetToSeqs(r.del) : z.keep = r.keep /\ z.del = r.del /\ z.moved = Moved(r, s)
    BY <1>3, SavedNext DEF LinksInv
  <2>2. f \in r.del /\ OnlyLink(r, l, f)
    BY <1>3, <2>1 DEF OnlyLink, Gone
  <2>3. \E m \in Moved(r, s) :
           /\ m.of = l /\ Follows(m.links, l, f, r)
           /\ \A o \in saved : \A g \in o.del :
                l \in Dependencies(g) => Follows(m.links, l, g, o)
    BY <2>2, SentBySave
  <2> QED BY <2>1, <2>3 DEF Follows
<1>4. CASE x \in saved /\ y \in saved
  BY <1>4 DEF SentLinksMoved
<1>5. CASE x \notin saved /\ y \in saved
  BY <1>2, <1>3, <1>5
<1>6. CASE x \in saved /\ y \notin saved
  <2>1. Own(x, l, d)
    BY <1>6 DEF SentLinksMoved
  <2> QED BY <1>2, <1>3, <1>6, <2>1
<1>7. CASE x \notin saved /\ y \notin saved
  <2>1. x.keep = y.keep /\ x.del = y.del
    BY <1>7, SavedNext DEF LinksInv
  <2>2. d = e
    BY <2>1 DEF OnlyLink, Gone
  <2> QED BY <1>3, <1>7, <2>1, <2>2 DEF Follows
<1> QED BY <1>4, <1>5, <1>6, <1>7

(* With exact matches an object in which two results move a link each is   *)
(* in both UPDATEs, and in one of them with both links moved.              *)
THEOREM UpdateFollows == Spec => []SentLinksMoved
<1> DEFINE SentInv == LinksInv /\ SentLinksMoved
<1>1. Init => SentInv
  BY LinksInit DEF Init, SentLinksMoved
<1>2. ASSUME SentInv, [Next]_vars PROVE SentInv'
  <2>1. (\E r \in building : SaveResult(r)) \/ UNCHANGED <<exact, inverse, saved>>
    BY <1>2 DEF Next, vars, linkVars, Forget, SkipHead, SearchHead, TakeResult, TreatAutomatic,
       SearchFails, SearchEnds, Send
  <2>2. ASSUME UNCHANGED <<exact, inverse, saved>> PROVE SentLinksMoved'
    BY <1>2, <2>2 DEF SentLinksMoved, OnlyLink, Gone, Dependencies, Follows
  <2>3. SentLinksMoved'
    BY <1>2, <2>1, <2>2, SentSaveResult
  <2>4. LinksInv /\ [Next]_vars
    BY <1>2
  <2>5. LinksInv'
    BY <2>4, LinksNext
  <2> QED BY <2>3, <2>5
<1>3. SentInv => SentLinksMoved
  OBVIOUS
<1> QED BY <1>1, <1>2, <1>3, PTL DEF Spec
=============================================================================

----------------------------- MODULE ClassSearch -----------------------------
(***************************************************************************)
(* One search by class (findSimilaritiesByClass) from the collection of    *)
(* the similarities to the actions sent to Kafka: which entities of a      *)
(* group of duplicates are merged, which one survives, which are deleted   *)
(* and where the links to them are moved.                                  *)
(*                                                                         *)
(* The attributes of an entity are abstracted to the entities whose data   *)
(* it carries, and the comparators to the set of automatic similarities    *)
(* they return for a head.                                                 *)
(***************************************************************************)
EXTENDS FiniteSets, Integers, SequencesExt

CONSTANTS
  Local,      \* entities of the class in the triple store of the job
  Parents,    \* entities of its parent classes in that store
  Remote,     \* entities of other nodes or triple stores
  IdOf,       \* the identifier of each entity, unique in a store
  Linkers,    \* objects of the store that link to entities of the store
  Keys,       \* their attributes, ..
  Lists,      \* .. and the ones that hold a list of links
  NoKey,      \* no attribute
  Links,      \* the links they may have when the search starts
  Things,     \* what entities stand for: duplicates stand for the same thing
  Inexact,    \* the sets of matches considered when they are not exact
  MaxForgotten \* bound on the entities that leave the cache meanwhile

Store    == Local \cup Parents
Entities == Store \cup Remote

ASSUME ClassSearchAssumption ==
  /\ Store \cap Remote = {} /\ Local \cap Parents = {}
  /\ IsFiniteSet(Store) /\ IsFiniteSet(Linkers)
  /\ \A e1, e2 \in Store : IdOf[e1] = IdOf[e2] => e1 = e2
  /\ Lists \subseteq Keys /\ NoKey \notin Keys
  /\ Links \subseteq [Linkers -> [Keys -> SUBSET Store]]
  /\ \A f \in Links, l \in Linkers, k \in Keys \ Lists :
       \A e1, e2 \in f[l][k] : e1 = e2
  /\ Inexact \subseteq SUBSET Entities
  /\ Things # {} /\ MaxForgotten \in Nat

VARIABLES
  exact,      \* whether the matches found are exactly the entities that
              \* stand for the same thing; it never changes
  thing,      \* what each entity stands for
  inverse,    \* the inverse map: the attribute by which a linker links to
              \* an entity, one of them when there are several
  linked,     \* the links of the cached object of the linker, per attribute
  cached,     \* entities in the cache
  heads,      \* entities of the class not yet looked at
  found,      \* foundsSimilarities: identifiers
  pending, building, saved,   \* the SimilarityResult not yet treated, the
              \* ObjectResult in progress, and objectResultsAux
  status,     \* statusResult
  sent        \* results whose actions were sent to Kafka

searchVars == <<heads, found>>
linkVars   == <<exact, thing, inverse, linked>>
vars == <<linkVars, cached, searchVars, pending, building, saved, status, sent>>

(* The result of a head: its automatic similarities, those left to treat,  *)
(* the survivor (toUpdate), the entities whose data it carries, the ones   *)
(* to delete, and the objects whose links are moved, as the UPDATE has them.*)
NewResult(h, auto) ==
  [head |-> h, auto |-> auto, left |-> auto, keep |-> h, merged |-> {h},
   del |-> {}, moved |-> {}]

-----------------------------------------------------------------------------
Init ==
  /\ exact \in BOOLEAN
  /\ \/ exact /\ thing \in [Entities -> Things]
     \/ ~exact /\ thing = [e \in Entities |-> CHOOSE x \in Things : TRUE]
  /\ linked \in Links
  /\ inverse \in [Linkers -> [Store -> Keys \cup {NoKey}]]
  /\ \A l \in Linkers, e \in Store :
       LET at == {k \in Keys : e \in linked[l][k]} IN
       inverse[l][e] \in IF at = {} THEN {NoKey} ELSE at
  /\ cached = Entities
  /\ heads = Local /\ found = {}
  /\ pending = {} /\ building = {} /\ saved = {}
  /\ status = "PENDING" /\ sent = {}

Running == status = "PENDING"

(* A notice removes an entity from the cache while the search runs.        *)
Forget(e) ==
  /\ Running /\ e \in cached /\ Cardinality(Entities \ cached) < MaxForgotten
  /\ cached' = cached \ {e}
  /\ UNCHANGED <<linkVars, searchVars, pending, building, saved, status, sent>>

-----------------------------------------------------------------------------
(* findEntitiesLinksByNodeAndTripleStoreAndClass: the loop over the heads. *)

(* Mutant: an entity found similar to an earlier head is a head as well.   *)
NeverFound(h) == FALSE
FoundBefore(h) == IdOf[h] \in found

(* A head found similar to an earlier one is left out, as is one with the  *)
(* identifier of such an entity of another store, and one that has left    *)
(* the cache before its turn.                                              *)
SkipHead(h) ==
  /\ Running /\ h \in heads
  /\ FoundBefore(h) \/ h \notin cached
  /\ heads' = heads \ {h}
  /\ UNCHANGED <<linkVars, cached, found, pending, building, saved, status, sent>>

(* What Elasticsearch and the comparators make of a head, in its class and *)
(* the parents of its class.                                               *)
Matches(h) ==
  IF exact THEN {{e \in Entities \ {h} : thing[e] = thing[h]}}
  ELSE {m \ {h} : m \in Inexact}

(* A head with automatic or manual similarities gives a result; the        *)
(* manual ones only wait for a decision.                                   *)
SearchHead(h) ==
  /\ Running /\ h \in heads /\ ~FoundBefore(h)
  /\ heads' = heads \ {h}
  /\ \E auto \in Matches(h), manual \in BOOLEAN :
       /\ pending' = IF auto = {} /\ ~manual THEN pending
                     ELSE pending \cup {NewResult(h, auto)}
       /\ found' = found \cup {IdOf[e] : e \in auto}
  /\ UNCHANGED <<linkVars, cached, building, saved, status, sent>>

-----------------------------------------------------------------------------
(* findSimilaritiesByClass: the loop over the results.                     *)

(* The ObjectResult of the head is made from the cached object.            *)
TakeResult(r) ==
  /\ Running /\ heads = {} /\ building = {} /\ r \in pending
  /\ r.head \in cached
  /\ pending' = pending \ {r} /\ building' = {r}
  /\ UNCHANGED <<linkVars, cached, searchVars, saved, status, sent>>

(* Elasticsearch does not answer, or the map of the class changes under    *)
(* the loop; later, an object that has left the cache ends the search.     *)
SearchFails ==
  /\ Running
  /\ \/ heads # {}
     \/ building = {} /\ \E r \in pending : r.head \notin cached
     \/ \E r \in building : ~(r.left \subseteq cached)
  /\ status' = "FAIL"
  /\ UNCHANGED <<linkVars, cached, searchVars, pending, building, saved, sent>>

(* getLinksToTripleObject: a match is looked up with the class of the job, *)
(* so the links to an entity of a parent class are not found.              *)
Dependencies(e) == {l \in Linkers : e \in Local /\ inverse[l][e] # NoKey}
LinksTo(e) == Cardinality(Dependencies(e))

(* Mutant: the entity merged is deleted whichever of the two survives.     *)
MergedOtherDies(r, o) ==
  [r EXCEPT !.left = @ \ {o}, !.merged = @ \cup {o}, !.del = @ \cup {o},
            !.keep = IF LinksTo(r.keep) >= LinksTo(o) THEN @ ELSE o]
(* TripleObject.merge in mode FREE: the one with more links survives, with *)
(* the data of both; the other one is deleted.                             *)
Merged(r, o) ==
  LET stays == LinksTo(r.keep) >= LinksTo(o) IN
  [r EXCEPT !.left = @ \ {o}, !.merged = @ \cup {o},
            !.del  = @ \cup {IF stays THEN o ELSE r.keep},
            !.keep = IF stays THEN @ ELSE o]

(* Mutant: the store of the other entity is not compared.                  *)
AnyStore(o) == TRUE
SameStore(o) == o \in Store

(* An automatic similarity in the store of the head is merged, one of      *)
(* another store is linked.                                                *)
TreatAutomatic(r, o) ==
  /\ Running /\ r \in building /\ o \in r.left /\ o \in cached
  /\ building' = {IF SameStore(o) THEN Merged(r, o) ELSE [r EXCEPT !.left = @ \ {o}]}
  /\ UNCHANGED <<linkVars, cached, searchVars, pending, saved, status, sent>>

(* The attributes of object l, which links to the entities gone, when      *)
(* replaceAttValue has moved each of these links: in the one attribute     *)
(* that the inverse map knows, which is overwritten unless it is a list.   *)
MovedBy(l, gone, k) == {e \in gone : inverse[l][e] = k}
(* Mutant: the survivor is added beside the deleted entity.                *)
LinkAdded(l, atts, gone, keep) ==
  [k \in Keys |-> IF MovedBy(l, gone, k) = {} THEN atts[k] ELSE atts[k] \cup {keep}]
Replaced(l, atts, gone, keep) ==
  [k \in Keys |->
     IF MovedBy(l, gone, k) = {} THEN atts[k]
     ELSE {keep} \cup IF k \in Lists THEN atts[k] \ MovedBy(l, gone, k) ELSE {}]

Gone(r, l)    == {e \in r.del : l \in Dependencies(e)}
Dependents(r) == {l \in Linkers : Gone(r, l) # {}}

(* The UPDATE takes an object once, as it was when the first of the        *)
(* deleted entities had been replaced in it; the cached object goes on.    *)
(* It holds the survivor already.                                          *)
FirstOf(s, g) == {s[i] : i \in {k \in DOMAIN s : /\ s[k] \in g
                                                /\ \A j \in 1 .. k - 1 : s[j] \notin g}}
(* Mutant: the object is taken before its links are replaced.              *)
MovedTooLate(r, s) == {[of |-> l, links |-> linked[l]] : l \in Dependents(r) \ {r.keep}}
Moved(r, s) ==
  {[of |-> l, links |-> Replaced(l, linked[l], FirstOf(s, Gone(r, l)), r.keep)] :
     l \in Dependents(r) \ {r.keep}}

(* The actions are built in any order of the deletions; the result is      *)
(* saved, or the exception of the save is swallowed and the result lost.   *)
SaveResult(r) ==
  /\ Running /\ r \in building /\ r.left = {}
  /\ linked' = [l \in Linkers |-> Replaced(l, linked[l], Gone(r, l), r.keep)]
  /\ \/ \E s \in SetToSeqs(r.del) : saved' = saved \cup {[r EXCEPT !.moved = Moved(r, s)]}
     \/ UNCHANGED saved
  /\ building' = {}
  /\ UNCHANGED <<exact, thing, inverse, cached, searchVars, pending, status, sent>>

SearchEnds ==
  /\ Running /\ heads = {} /\ pending = {} /\ building = {}
  /\ status' = "COMPLETED"
  /\ UNCHANGED <<linkVars, cached, searchVars, pending, building, saved, sent>>

(* propagueKafkaActions, also after a search that failed.                  *)
Send(r) ==
  /\ ~Running /\ r \in saved \ sent
  /\ sent' = sent \cup {r}
  /\ UNCHANGED <<linkVars, cached, searchVars, pending, building, saved, status>>

Next ==
  \/ \E e \in Entities : Forget(e)
  \/ \E h \in Local : SkipHead(h) \/ SearchHead(h)
  \/ \E r \in pending : TakeResult(r)
  \/ \E r \in building : SaveResult(r) \/ \E o \in r.left : TreatAutomatic(r, o)
  \/ SearchFails \/ SearchEnds
  \/ \E r \in saved : Send(r)

Spec == Init /\ [][Next]_vars

-----------------------------------------------------------------------------
(* Properties                                                              *)

MovedLinks == [of : Linkers, links : [Keys -> SUBSET Store]]
Result ==
  [head : Local, auto : SUBSET Entities, left : SUBSET Entities, keep : Store,
   merged : SUBSET Store, del : SUBSET Store, moved : SUBSET MovedLinks]

(* Every variable keeps its type; one result is built at a time.           *)
TypeOK ==
  /\ exact \in BOOLEAN /\ thing \in [Entities -> Things]
  /\ inverse \in [Linkers -> [Store -> Keys \cup {NoKey}]]
  /\ linked \in [Linkers -> [Keys -> SUBSET Store]]
  /\ cached \subseteq Entities /\ heads \subseteq Local
  /\ found \subseteq {IdOf[e] : e \in Entities}
  /\ pending \subseteq Result /\ building \subseteq Result /\ saved \subseteq Result
  /\ \A r1, r2 \in building : r1 = r2
  /\ status \in {"PENDING", "COMPLETED", "FAIL"} /\ sent \subseteq saved

(* The entities of the store that a result has merged so far.              *)
Treated(r) == {r.head} \cup ((r.auto \ r.left) \cap Store)

(* Of the entities of a group all but one are deleted, and the one that    *)
(* survives carries the data of all of them, in whatever order they were   *)
(* merged and however often the survivor changed on the way.               *)
NothingLost ==
  \A r \in building \cup saved :
    /\ r.keep \notin r.del
    /\ r.del \cup {r.keep} = Treated(r)
    /\ r.merged = Treated(r)

(* When the matches of a head are its duplicates and no others, what one   *)
(* result keeps no result deletes, and nothing is deleted twice.           *)
OneSurvivor ==
  exact => \A r1, r2 \in saved :
             /\ r1.keep \notin r2.del
             /\ r1.head # r2.head => r1.del \cap r2.del = {}

(* The link of object l to the deleted entity d that the inverse map knows *)
(* leads to what result r has kept.                                        *)
Follows(links, l, d, r) ==
  d \notin links[inverse[l][d]] /\ r.keep \in links[inverse[l][d]]

(* Every link of a cached object to an entity deleted by a result follows, *)
(* whatever later results move in the same object: each link that the      *)
(* inverse map knows, which is one attribute per object and entity of the  *)
(* class.  Another attribute, and an entity of a parent class, are lost.   *)
CachedLinksMoved ==
  exact => \A r \in saved : \A d \in r.del : \A l \in Dependencies(d) :
             Follows(linked[l], l, d, r)

(* When two results move a link each of one object, the object is in both  *)
(* UPDATEs, and in one of them both of its links have moved: sent last, it *)
(* does not bring back a link to a deleted entity.                         *)
OnlyLink(r, l, d) == l # r.keep /\ Gone(r, l) = {d}
SentLinksMoved ==
  exact => \A r1, r2 \in saved : \A l \in Linkers : \A d1 \in r1.del, d2 \in r2.del :
             OnlyLink(r1, l, d1) /\ OnlyLink(r2, l, d2) =>
               /\ \E m \in r1.moved : m.of = l /\ Follows(m.links, l, d1, r1)
               /\ \E m \in r1.moved \cup r2.moved :
                    m.of = l /\ Follows(m.links, l, d1, r1) /\ Follows(m.links, l, d2, r2)
=============================================================================

----------------------------- MODULE MCDataSync -----------------------------
(* Instances of DataSync for TLC: two entities, each of a class of its own *)
(* or both of the same.                                                    *)
EXTENDS DataSync, TLC

CONSTANTS e1, e2, c1, c2

TwoClasses == (e1 :> c1) @@ (e2 :> c2)
OneClass   == (e1 :> c1) @@ (e2 :> c1)

(* The two versions can be exchanged; so can the entities, with their      *)
(* classes.                                                                *)
SwapEntities == (e1 :> e2) @@ (e2 :> e1) @@ (c1 :> c2) @@ (c2 :> c1)
Symmetry == Permutations(Versions) \cup {SwapEntities @@ p : p \in Permutations(Versions)}
=============================================================================

-------------------------- MODULE MCOpenDecisions ---------------------------
(* Model values for OpenDecisions: x is in the store of the entity, y in   *)
(* another one; two searches may have offered them.                        *)
EXTENDS OpenDecisions, TLC

CONSTANTS m1, m2, x, y, r1, r2

MCMains    == {m1, m2}
MCRelated  == {x, y}
MCRemote   == {y}
MCRequests == {r1, r2}
Symmetry   == Permutations(MCMains) \cup Permutations(MCRequests)
=============================================================================

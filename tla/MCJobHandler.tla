---------------------------- MODULE MCJobHandler ----------------------------
(* Small instances of JobHandler: what the two requests of each run ask.   *)
EXTENDS JobHandler, TLC

CONSTANTS r1, r2

MCReqs    == {r1, r2}
MCTargets == {"thesis"}

Shape(k, sync, hook, kafka) ==
  [kind |-> k, target |-> "thesis", sync |-> sync, hook |-> hook, kafka |-> kafka]
Pairs(S) == {(r1 :> c[1]) @@ (r2 :> c[2]) : c \in S}

Class     == Shape("class", FALSE, "url", TRUE)
ClassSync == Shape("class", TRUE, "bad", FALSE)
Quiet     == Shape("class", FALSE, "none", TRUE)
QuietSync == Shape("class", TRUE, "none", FALSE)
Instance  == Shape("instance", FALSE, "url", FALSE)
InstSync  == Shape("instance", TRUE, "none", TRUE)
Lod       == Shape("lod", FALSE, "url", FALSE)
LodBad    == Shape("lod", FALSE, "bad", TRUE)

(* Asynchronous requests that share a job, or do not.                      *)
AsyncCalls == Pairs({<<Class, Class>>, <<Lod, LodBad>>, <<Class, Lod>>})

(* Synchronous ones as well, and web hooks that are no URLs.               *)
MixedCalls ==
  Pairs({<<Class, ClassSync>>, <<ClassSync, ClassSync>>, <<Instance, Instance>>,
         <<Class, InstSync>>})

(* A queue that serves the first request may stop for the second.          *)
SharedCalls == Pairs({<<Class, Quiet>>, <<Class, QuietSync>>, <<Instance, Quiet>>})
ClassCalls  == Pairs({<<Quiet, Quiet>>})

Symmetry == Permutations(Workers)
=============================================================================

----------------------------- MODULE MCLoadPool -----------------------------
(* Instances of LoadPool for TLC: three loads and two keys.  The pool of   *)
(* SpringAsyncConfig has 2 to 20 threads and a queue of 500 tasks; 3 and 2 *)
(* here, so that both limits are met.                                      *)
EXTENDS LoadPool

CONSTANTS l1, l2, l3
=============================================================================

---------------------------- MODULE MCJobRecords -----------------------------
(* Model values for JobRecords.                                            *)
EXTENDS JobRecords, TLC

CONSTANTS e1, r1, r2, j1, j2

MCRequests == {r1, r2}
MCJobs     == {j1, j2}
Symmetry   == Permutations(MCRequests) \cup Permutations(MCJobs)
=============================================================================

--------------------------- MODULE MCWorkerService ---------------------------
(***************************************************************************)
(* Small instances of WorkerService for TLC.  j1 and j2 are two attempts   *)
(* of one call (same idempotency key), j3 is another call and j4 one whose *)
(* token does not verify.  j1 and j2 differ in nothing but their names.    *)
(***************************************************************************)
EXTENDS WorkerService, TLC

CONSTANTS j1, j2, j3, j4, k1, k2, w1, w2

MCJobs      == {j1, j2, j3, j4}
MCKeys      == {k1, k2}
MCKey       == (j1 :> k1) @@ (j2 :> k1) @@ (j3 :> k2) @@ (j4 :> k2)
MCMutations == {j1, j2}
MCForged    == {j4}
MCWorkers   == {w1, w2}
Symmetry == Permutations(MCWorkers) \cup Permutations({j1, j2})

=============================================================================

--------------------------- MODULE MCRemoteWorker ---------------------------
(***************************************************************************)
(* Small instance of RemoteWorker for TLC.  j1 and j2 are two attempts of  *)
(* an idempotent mutation, j3 is one of a tool that is not idempotent,     *)
(* signed with another secret.                                             *)
(***************************************************************************)
EXTENDS RemoteWorker, TLC

CONSTANTS j1, j2, j3, k1, k2, w1

MCJobs      == {j1, j2, j3}
MCKeys      == {k1, k2}
MCKey       == (j1 :> k1) @@ (j2 :> k1) @@ (j3 :> k2)
MCAttempt   == (j1 :> 1) @@ (j2 :> 2) @@ (j3 :> 1)
MCMutations == {j1, j2, j3}
MCForged    == {j3}
MCWorkers   == {w1}
MCIdempotent == {k1}

=============================================================================

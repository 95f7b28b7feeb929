----------------------------- MODULE MCSandbox -----------------------------
(* Two attempts of one call.                                               *)
EXTENDS Sandbox
=============================================================================

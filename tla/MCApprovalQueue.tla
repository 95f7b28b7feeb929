-------------------------- MODULE MCApprovalQueue --------------------------
(* Instances of ApprovalQueue: up to three operators.                      *)
EXTENDS ApprovalQueue

AllFaults == {"redis", "expire"}
NoFaults  == {}

=============================================================================

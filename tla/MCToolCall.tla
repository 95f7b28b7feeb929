----------------------------- MODULE MCToolCall -----------------------------
(* Instances of ToolCall: every deployment, with and without faults.       *)
EXTENDS ToolCall

AllDeployments == Deployment
NoFaults    == {}
AllFaults   == {"store", "control", "audit"}
StoreFaults == {"store"}

=============================================================================

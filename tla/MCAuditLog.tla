----------------------------- MODULE MCAuditLog -----------------------------
(* Instances of AuditLog: all faults, and cancelled callers only.          *)
EXTENDS AuditLog

AllFaults == {"cancel", "open", "write", "fsync", "crash"}
Cancels   == {"cancel"}

=============================================================================

--------------------------- MODULE CircuitBreaker ---------------------------
(***************************************************************************)
(* gateway/workers/circuit.py: the breaker between the gateway and an      *)
(* unhealthy worker pool, as functions on its two fields.                  *)
(*                                                                         *)
(* Wall-clock time is abstracted to what is_open tells apart: opened_at is *)
(* "none" (never opened), "recent" (less than reset_timeout ago) or        *)
(* "elapsed".  The failure count saturates at the threshold: only          *)
(* failures >= threshold is ever read.                                     *)
(***************************************************************************)
EXTENDS Naturals

CONSTANT FailureThreshold   \* max(1, failure_threshold) of __init__

ASSUME ThresholdAssumption == FailureThreshold \in Nat \ {0}

OpenedAt == {"none", "recent", "elapsed"}
Breaker  == [failures : 0 .. FailureThreshold, opened_at : OpenedAt]

ClosedBreaker == [failures |-> 0, opened_at |-> "none"]

is_open(b) == b.opened_at = "recent"

(* Mutant: the elapsed cool-down keeps the failure count.                  *)
allowKeepsFailures(b) == [b EXCEPT !.opened_at = "none"]

(* allow() on a breaker that is not open: a cool-down that has elapsed     *)
(* forgets the failures that opened it.                                    *)
allow(b) == IF b.opened_at = "none" THEN b ELSE ClosedBreaker

record_success(b) == ClosedBreaker

record_failure(b) ==
  LET n == IF b.failures < FailureThreshold THEN b.failures + 1
                                            ELSE FailureThreshold
  IN  [failures  |-> n,
       opened_at |-> IF n >= FailureThreshold THEN "recent" ELSE b.opened_at]

(* The passage of reset_timeout seconds since opened_at was stamped.       *)
cool_down(b) == [b EXCEPT !.opened_at = "elapsed"]

=============================================================================

--------------------------- MODULE ApprovalQueue ---------------------------
(***************************************************************************)
(* gateway/hitl/queue.py RedisApprovalQueue and gateway/hitl/cli.py: one   *)
(* approval request, the gateway call that submitted it and polls for its  *)
(* decision, and the operators who run the command line.  Requests have    *)
(* keys of their own and share nothing, so one is enough.                  *)
(*                                                                         *)
(* Redis commands are atomic; what lies between two of them is not.  A     *)
(* command that raises may or may not have been executed.                  *)
(***************************************************************************)
EXTENDS Naturals

CONSTANTS
  Operators,   \* the runs of the command line
  NoOperator,  \* approver is None
  Faults       \* "redis": commands may fail; "expire": the key may expire

ASSUME QueueAssumption ==
  NoOperator \notin Operators /\ Faults \subseteq {"redis", "expire"}

VARIABLES
  entry,     \* the value of the Redis key
  waiter,    \* the gateway call
  approver,  \* whose decision the call has read
  op,        \* each run of the command line
  wish,      \* its decision argument
  known,     \* the decisions that were set when it was started
  late       \* it was started after the call had stopped waiting

vars == << entry, waiter, approver, op, wish, known, late >>

-----------------------------------------------------------------------------
Decisions == {"approved", "rejected"}

Absent  == [decision |-> "absent", by |-> NoOperator]
Pending == [decision |-> "none", by |-> NoOperator]
Decided == [decision : Decisions, by : Operators]

Over == {"approved", "rejected", "timeout", "unavailable", "cancelled"}

TypeOK ==
  /\ entry \in {Absent, Pending} \cup Decided
  /\ waiter \in {"submitting", "waiting"} \cup Over
  /\ approver \in Operators \cup {NoOperator}
  /\ op \in [Operators -> {"idle", "listing", "deciding", "read", "recorded",
                           "unknown", "expired", "failed"}]
  /\ wish \in [Operators -> Decisions]
  /\ known \in [Operators -> SUBSET Operators]
  /\ late \in [Operators -> BOOLEAN]

Init ==
  /\ entry = Absent /\ waiter = "submitting" /\ approver = NoOperator
  /\ op = [o \in Operators |-> "idle"]
  /\ wish \in [Operators -> Decisions]
  /\ known = [o \in Operators |-> {}]
  /\ late = [o \in Operators |-> FALSE]

-----------------------------------------------------------------------------
(* The gateway                                                             *)

submit ==
  /\ waiter = "submitting"
  /\ \/ entry' = Pending /\ waiter' = "waiting"
     \/ /\ "redis" \in Faults
        /\ entry' \in {entry, Pending} /\ waiter' = "unavailable"
  /\ UNCHANGED << approver, op, wish, known, late >>

(* Mutant: whatever is not a rejection is an approval.                     *)
pollApprovesPending ==
  /\ waiter = "waiting" /\ entry # Absent
  /\ waiter' = IF entry.decision = "rejected" THEN "rejected" ELSE "approved"
  /\ approver' = entry.by
  /\ UNCHANGED << entry, op, wish, known, late >>

(* One round of wait(): a decision ends it, anything else is polled again. *)
poll ==
  /\ waiter = "waiting"
  /\ \/ /\ entry \in Decided
        /\ waiter' = entry.decision /\ approver' = entry.by
     \/ "redis" \in Faults /\ waiter' = "unavailable" /\ UNCHANGED approver
  /\ UNCHANGED << entry, op, wish, known, late >>

(* Mutant: the timeout is armed only while the key is missing.             *)
timeoutIfMissing ==
  /\ waiter = "waiting" /\ entry = Absent
  /\ waiter' = "timeout"
  /\ UNCHANGED << entry, approver, op, wish, known, late >>

timeout ==
  /\ waiter = "waiting"
  /\ waiter' = "timeout"
  /\ UNCHANGED << entry, approver, op, wish, known, late >>

(* The client goes away or the gateway stops.                              *)
cancel ==
  /\ waiter \in {"submitting", "waiting"}
  /\ waiter' = "cancelled"
  /\ UNCHANGED << entry, approver, op, wish, known, late >>

-----------------------------------------------------------------------------
(* An operator                                                             *)

RecordedBy == {o \in Operators : op[o] = "recorded"}

Fails(o) == "redis" \in Faults /\ op' = [op EXCEPT ![o] = "failed"]

start(o) ==
  /\ op[o] = "idle"
  /\ op' = [op EXCEPT ![o] = "listing"]
  /\ known' = [known EXCEPT ![o] = RecordedBy]
  /\ late' = [late EXCEPT ![o] = waiter \in Over]
  /\ UNCHANGED << entry, waiter, approver, wish >>

(* Mutant: the request is not looked up in the list.                       *)
list_pending_unchecked(o) ==
  /\ op[o] = "listing"
  /\ op' = [op EXCEPT ![o] = "deciding"]
  /\ UNCHANGED << entry, waiter, approver, wish, known, late >>

(* list_pending reads the key, and the identifier must be among the        *)
(* pending ones.                                                           *)
list_pending(o) ==
  /\ op[o] = "listing"
  /\ \/ op' = [op EXCEPT ![o] = IF entry = Pending THEN "deciding" ELSE "unknown"]
     \/ Fails(o)
  /\ UNCHANGED << entry, waiter, approver, wish, known, late >>

(* decide(): an empty reason is refused, then GET, which may fail.         *)
decide_get(o) ==
  /\ op[o] = "deciding"
  /\ \/ op' = [op EXCEPT ![o] = IF entry = Absent THEN "expired" ELSE "read"]
     \/ op' = [op EXCEPT ![o] = "failed"]
  /\ UNCHANGED << entry, waiter, approver, wish, known, late >>

(* The copy of the request with the decision and the approver of o.        *)
updated(o) == [decision |-> wish[o], by |-> o]

(* decide(): SET, whatever the key holds by now.                           *)
decide_set(o) ==
  /\ op[o] = "read"
  /\ \/ entry' = updated(o) /\ op' = [op EXCEPT ![o] = "recorded"]
     \/ Fails(o) /\ entry' \in {entry, updated(o)}
  /\ UNCHANGED << waiter, approver, wish, known, late >>

-----------------------------------------------------------------------------
(* Redis drops the key when its ttl is over.                               *)
expire ==
  /\ "expire" \in Faults /\ entry # Absent
  /\ entry' = Absent
  /\ UNCHANGED << waiter, approver, op, wish, known, late >>

Next ==
  \/ submit \/ poll \/ timeout \/ cancel \/ expire
  \/ \E o \in Operators :
       start(o) \/ list_pending(o) \/ decide_get(o) \/ decide_set(o)

Spec == Init /\ [][Next]_vars

(* asyncio.timeout fires; nothing is assumed of operators or of Redis.     *)
FairSpec == Spec /\ WF_vars(timeout)

-----------------------------------------------------------------------------
(* Properties                                                              *)

(* The decision a call acts on was made by the operator it is attributed   *)
(* to, who got as far as writing it: with any number of operators writing  *)
(* over each other, expired keys and failed commands.                      *)
OutcomeWasDecided ==
  waiter \in Decisions =>
    /\ approver \in Operators
    /\ wish[approver] = waiter
    /\ op[approver] \in {"recorded", "failed"}

(* A recorded decision is overwritten only by an operator who was at work  *)
(* already when it was recorded: one who starts later finds the request    *)
(* decided (the pending_ids check of the command line).                    *)
OverwriteNeedsOverlap ==
  [][\A o, p \in Operators :
       /\ entry \in Decided /\ entry.by = o /\ op[o] = "recorded"
       /\ entry' \in Decided /\ entry'.by = p /\ p # o
       => o \notin known[p]]_vars

(* The wait ends, operators or not.                                        *)
WaitEnds == waiter = "waiting" ~> waiter \in Over

-----------------------------------------------------------------------------
(* What the documents say and the code does not do                         *)

(* ADR-0014 (docs/DECISIONS.md:152): operators get "a durable decision":   *)
(* once recorded it stays, or expires with the request.                    *)
DecisionIsFinal ==
  [][(entry \in Decided) => (entry' \in {entry, Absent})]_entry

(* cli.py:38: an "Unknown or expired approval ID" is refused.  No decision *)
(* is recorded by an operator who started when the call had been answered. *)
LateDecisionRefused == \A o \in Operators : op[o] = "recorded" => ~ late[o]

=============================================================================

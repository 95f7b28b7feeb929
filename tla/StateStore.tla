----------------------------- MODULE StateStore -----------------------------
(***************************************************************************)
(* What a StateStore promises about one call record (the StateStore        *)
(* protocol of redis_store.py): every update takes effect at once, on top  *)
(* of the record as it is, in the order of invocation, and once - or,      *)
(* for each connection that was lost with the update on its way, once      *)
(* more.  The record is the log of what was applied to it: << u, n >> is   *)
(* update u, sent after n lost connections; transition, start_attempt and  *)
(* finish_attempt are deterministic functions of the log.                  *)
(*                                                                         *)
(* An update that raises StateStoreUnavailableError is in doubt: it may    *)
(* still be applied, until an update that was invoked later is.            *)
(***************************************************************************)
EXTENDS Naturals, Sequences, SequencesExt

CONSTANT Updates   \* the updates of the record

VARIABLES
  log,     \* what was applied to the record
  stored,  \* whether the record exists
  status,  \* each update, as its caller sees it
  lost,    \* how many connections were lost with the update on its way
  before   \* the updates that had ended when each one was invoked

vars == << log, stored, status, lost, before >>

-----------------------------------------------------------------------------
TypeOK ==
  /\ log \in Seq(Updates \X Nat)
  /\ stored \in {"absent", "present", "gone"}
  /\ status \in [Updates -> {"idle", "pending", "ok", "failed"}]
  /\ lost \in [Updates -> Nat]
  /\ before \in [Updates -> SUBSET Updates]

Init ==
  /\ log = << >> /\ stored = "absent"
  /\ status = [u \in Updates |-> "idle"]
  /\ lost = [u \in Updates |-> 0]
  /\ before = [u \in Updates |-> {}]

Applied == ToSet(log)

create_call ==
  /\ stored = "absent"
  /\ stored' = "present"
  /\ UNCHANGED << log, status, lost, before >>

Invoke(u) ==
  /\ status[u] = "idle"
  /\ status' = [status EXCEPT ![u] = "pending"]
  /\ before' = [before EXCEPT ![u] =
                  {v \in Updates : status[v] \in {"ok", "failed"}}]
  /\ UNCHANGED << log, stored, lost >>

(* The connection dies and the update is repeated on another one.          *)
Lose(u) ==
  /\ status[u] = "pending"
  /\ lost' = [lost EXCEPT ![u] = @ + 1]
  /\ UNCHANGED << log, stored, status, before >>

(* An update that has returned is not applied any more, and one in doubt   *)
(* not after a later one.                                                  *)
MayApply(u) ==
  \/ status[u] = "pending"
  \/ status[u] = "failed" /\ \A d \in Applied : u \notin before[d[1]]

(* updater(record).  What was sent before a loss is not applied after what *)
(* was sent later.                                                         *)
Apply(u, n) ==
  /\ stored = "present" /\ MayApply(u)
  /\ n <= lost[u] /\ \A m \in n .. lost[u] : << u, m >> \notin Applied
  /\ log' = Append(log, << u, n >>)
  /\ UNCHANGED << stored, status, lost, before >>

Return(u) ==
  /\ status[u] = "pending" /\ << u, lost[u] >> \in Applied
  /\ status' = [status EXCEPT ![u] = "ok"]
  /\ UNCHANGED << log, stored, lost, before >>

(* The record is missing, the store is unreachable or too slow.            *)
Fail(u) ==
  /\ status[u] = "pending"
  /\ status' = [status EXCEPT ![u] = "failed"]
  /\ UNCHANGED << log, stored, lost, before >>

(* The ttl is over.  log keeps what the record held.                       *)
Expire ==
  /\ stored = "present"
  /\ stored' = "gone"
  /\ UNCHANGED << log, status, lost, before >>

Next ==
  \/ create_call \/ Expire
  \/ \E u \in Updates :
       \/ Invoke(u) \/ Lose(u) \/ Return(u) \/ Fail(u)
       \/ \E n \in 0 .. lost[u] : Apply(u, n)

Spec == Init /\ [][Next]_vars

-----------------------------------------------------------------------------
(* Properties                                                              *)

(* Two updates of which one had ended, in success or in doubt, when the    *)
(* other was invoked are in the record in that order, if they are both in  *)
(* it, every repetition included: a timed-out transition never lands on    *)
(* top of the one that reports its failure.                                *)
InvocationOrder ==
  \A i, k \in DOMAIN log : log[i][1] \in before[log[k][1]] => i < k

=============================================================================

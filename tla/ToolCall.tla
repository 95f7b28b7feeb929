------------------------------ MODULE ToolCall ------------------------------
(***************************************************************************)
(* gateway/server.py execute_tool_call with gateway/repair/loop.py and     *)
(* diagnose.py: the life of one tool call, from its record in the state    *)
(* store over validation, policy, approval and the bounded repair loop to  *)
(* the terminal state, the audit record and the answer.                    *)
(*                                                                         *)
(* Calls share nothing but the services they use, so one call is enough:   *)
(* the services answer nondeterministically.  A step ends at each await on *)
(* a service.  A state-store operation that raises StateStoreUnavailable   *)
(* may or may not have been applied (asyncio.timeout around EXEC), and one *)
(* that is repeated after a lost connection is applied again               *)
(* (RedisStateStore): a second transition to the same state cannot be told *)
(* from the first here, a second attempt of the same number can.           *)
(*                                                                         *)
(* Argument sets are numbered: 0 is the client's, each proposal of the     *)
(* repair advisor is the next number.                                      *)
(***************************************************************************)
EXTENDS Naturals, Sequences, FiniteSets, FiniteSetsExt

CONSTANTS
  Deployments,   \* the configurations a call may meet, a subset of Deployment
  Faults,        \* which services may fail: "store", "control", "audit"
  MaxAttempts    \* BackoffPolicy.max_attempts

Deployment == [read_only  : BOOLEAN,   \* risk_class of the tool
               idempotent : BOOLEAN,   \* its idempotent declaration
               advisor    : BOOLEAN,   \* a repair advisor is configured
               approvals  : BOOLEAN,   \* an approval queue is configured
               control    : BOOLEAN]   \* a control plane is configured

ASSUME CallAssumption ==
  /\ Deployments \subseteq Deployment
  /\ Faults \subseteq {"store", "control", "audit"}
  /\ MaxAttempts \in Nat \ {0}

VARIABLES
  conf,         \* the deployment (constant during a call)
  pc,           \* the await at which execute_tool_call stands
  trans,        \* transitions of the stored record, a repeated one once
  attempts,     \* attempts of the stored record
  latest,       \* latest_attempt
  finished,     \* last_finished_attempt
  loop,         \* attempt of RepairLoop.run
  args,         \* the argument set in use
  proposals,    \* how many argument sets the advisor proposed
  err,          \* the GatewayError being handled
  verdict,      \* policy_outcome of the first evaluation
  allowed,      \* argument sets policy allowed or an operator approved
  runs,         \* the argument set of every invocation of the tool
  effect,       \* how the last invocation ended
  approval,     \* the approval row of the control plane
  durable,      \* current_state of the control plane's tool_calls row
  writing,      \* the outcome the thread of the audit log is writing
  audit,        \* outcomes appended to the audit log for this call
  resp          \* the answer to the client

vars == << conf, pc, trans, attempts, latest, finished, loop, args, proposals,
           err, verdict, allowed, runs, effect, approval, durable, writing, audit,
           resp >>

-----------------------------------------------------------------------------
(* Values                                                                  *)

Terminal == {"succeeded", "failed", "denied"}
States   == Terminal \cup {"received", "validated", "policy_checked",
                           "awaiting_approval", "executing"}

PolicyCodes == {"policy_denied", "policy_unavailable", "approval_timeout",
                "approval_rejected"}
ToolCodes   == {"sandbox_timeout", "sandbox_error", "tool_error", "needs_review"}
(* "unexpected" stands for every exception that is not a GatewayError.     *)
Codes       == PolicyCodes \cup ToolCodes
                 \cup {"schema_validation", "state_store", "unexpected"}

PC == {"create_call", "control_plane", "validate", "t_validated", "policy",
       "t_policy_checked", "t_awaiting_approval", "submit", "create_approval",
       "wait", "resolve_approval", "t_denied", "f_denied", "start_attempt",
       "t_executing", "recheck", "run", "f_succeeded", "f_failed", "loop",
       "t_succeeded", "fail_t", "fail_f", "copy", "audit", "append", "done",
       "cancelled"}

Attempt == [attempt : 1 .. MaxAttempts, outcome : {"none"} \cup Terminal]

TypeOK ==
  /\ conf \in Deployments
  /\ pc \in PC
  /\ trans \in Seq(States)
  /\ attempts \in Seq(Attempt)
  /\ latest \in 1 .. MaxAttempts + 1
  /\ finished \in 1 .. MaxAttempts
  /\ loop \in 1 .. MaxAttempts
  /\ args \in 0 .. MaxAttempts /\ proposals \in 0 .. MaxAttempts
  /\ err \in {"none"} \cup Codes
  /\ verdict \in {"not_evaluated", "allow", "requires_approval", "deny"}
  /\ allowed \subseteq 0 .. MaxAttempts
  /\ runs \in Seq(0 .. MaxAttempts) /\ Len(runs) <= MaxAttempts
  /\ effect \in {"none", "succeeded"} \cup Codes
  /\ approval \in {"none", "pending", "decided"}
  /\ durable \in {"none"} \cup States
  /\ writing \in {"none"} \cup Terminal
  /\ audit \in Seq(Terminal)
  /\ resp \in {"none", "ok"} \cup Codes

Init ==
  /\ conf \in Deployments
  /\ pc = "create_call"
  /\ trans = << >> /\ attempts = << >>
  /\ latest = 1 /\ finished = 1 /\ loop = 1
  /\ args = 0 /\ proposals = 0
  /\ err = "none" /\ verdict = "not_evaluated"
  /\ allowed = {} /\ runs = << >> /\ effect = "none"
  /\ approval = "none" /\ durable = "none"
  /\ writing = "none" /\ audit = << >> /\ resp = "none"

-----------------------------------------------------------------------------
(* The services                                                            *)

record   == << trans, attempts >>
counters == << latest, finished, loop >>
proposal == << args, proposals >>
gate     == << verdict, allowed >>
tool     == << runs, effect >>
control  == << approval, durable >>
auditing == << writing, audit >>
answer   == << auditing, resp >>

Goto(next) == pc' = next /\ UNCHANGED err
Raise(code, handler) == pc' = handler /\ err' = code

(* await state_store.transition(call_id, s)                                *)
Transition(s, next, handler) ==
  /\ UNCHANGED attempts
  /\ \/ trans' = Append(trans, s) /\ Goto(next)
     \/ /\ "store" \in Faults
        /\ trans' \in {trans, Append(trans, s)}
        /\ Raise("state_store", handler)

(* The record after finish_attempt(call_id, n, outcome): the last attempt  *)
(* numbered n is completed.                                                *)
Completed(n, outcome) ==
  LET i == Max({k \in DOMAIN attempts : attempts[k].attempt = n})
  IN  [attempts EXCEPT ![i].outcome = outcome]

FinishAttempt(n, outcome, Then, handler) ==
  /\ UNCHANGED trans
  /\ \/ attempts' = Completed(n, outcome) /\ Then
     \/ /\ "store" \in Faults
        /\ attempts' \in {attempts, Completed(n, outcome)}
        /\ Raise("state_store", handler)

Respond(code) == pc' = "done" /\ resp' = code /\ UNCHANGED err

-----------------------------------------------------------------------------
(* Admission                                                               *)

CreateCall ==
  /\ pc = "create_call"
  /\ \/ /\ trans' = << "received" >>
        /\ attempts' = << [attempt |-> 1, outcome |-> "none"] >>
        /\ Goto("control_plane") /\ UNCHANGED resp
     \/ "store" \in Faults /\ Respond("state_store") /\ UNCHANGED record
  /\ UNCHANGED << conf, counters, proposal, gate, tool, control, auditing >>

(* A control-plane failure answers at once: no transition and no audit.    *)
ControlPlane ==
  /\ pc = "control_plane"
  /\ \/ ~ conf.control /\ Goto("validate") /\ UNCHANGED << durable, resp >>
     \/ /\ conf.control /\ durable' = trans[Len(trans)]
        /\ Goto("validate") /\ UNCHANGED resp
     \/ /\ conf.control /\ "control" \in Faults
        /\ Respond("tool_error")
        /\ durable' \in {durable, trans[Len(trans)]}
  /\ UNCHANGED << conf, record, counters, proposal, gate, tool, approval, auditing >>

(* The advisor proposes arguments: they validate; they do not; or it is    *)
(* unavailable, which it reports by a ValueError.                          *)
Repair(next, handler) ==
  \/ /\ proposals' = proposals + 1 /\ args' = proposals'
     /\ Raise("none", next)
  \/ /\ proposals' = proposals + 1
     /\ Raise("schema_validation", handler) /\ UNCHANGED args
  \/ /\ Raise("unexpected", handler) /\ UNCHANGED proposal

(* registry.validate: valid; an unknown tool; or a schema error, which the *)
(* advisor may repair once.                                                *)
Validate ==
  /\ pc = "validate"
  /\ \/ Goto("t_validated") /\ UNCHANGED proposal
     \/ Raise("tool_error", "fail_t") /\ UNCHANGED proposal
     \/ ~ conf.advisor /\ Raise("schema_validation", "fail_t") /\ UNCHANGED proposal
     \/ conf.advisor /\ Repair("t_validated", "fail_t")
  /\ UNCHANGED << conf, record, counters, gate, tool, control, answer >>

Validated ==
  /\ pc = "t_validated"
  /\ Transition("validated", "policy", "fail_t")
  /\ UNCHANGED << conf, counters, proposal, gate, tool, control, answer >>

-----------------------------------------------------------------------------
(* Policy and approval                                                     *)

Policy ==
  /\ pc = "policy"
  /\ \/ /\ verdict' \in {"allow", "requires_approval", "deny"}
        /\ allowed' = IF verdict' = "allow" THEN {args} ELSE {}
        /\ Goto("t_policy_checked")
     \/ Raise("policy_unavailable", "fail_t") /\ UNCHANGED gate
  /\ UNCHANGED << conf, record, counters, proposal, tool, control, answer >>

(* Mutant: without an approval queue the call is executed.                 *)
AfterPolicyWithoutQueue ==
  CASE verdict = "deny" -> << "t_denied", "policy_denied" >>
    [] verdict = "requires_approval" /\ conf.approvals ->
         << "t_awaiting_approval", "none" >>
    [] OTHER -> << "t_executing", "none" >>

(* Where the verdict leads.  Approval required without a queue raises      *)
(* PolicyDeniedError directly; a denial is recorded first.                 *)
AfterPolicy ==
  CASE verdict = "allow" -> << "t_executing", "none" >>
    [] verdict = "deny"  -> << "t_denied", "policy_denied" >>
    [] verdict = "requires_approval" ->
         IF conf.approvals THEN << "t_awaiting_approval", "none" >>
                           ELSE << "fail_t", "policy_denied" >>

PolicyChecked ==
  /\ pc = "t_policy_checked"
  /\ UNCHANGED attempts
  /\ \/ /\ trans' = Append(trans, "policy_checked")
        /\ pc' = AfterPolicy[1] /\ err' = AfterPolicy[2]
     \/ /\ "store" \in Faults
        /\ trans' \in {trans, Append(trans, "policy_checked")}
        /\ Raise("state_store", "fail_t")
  /\ UNCHANGED << conf, counters, proposal, gate, tool, control, answer >>

AwaitingApproval ==
  /\ pc = "t_awaiting_approval"
  /\ Transition("awaiting_approval", "submit", "fail_t")
  /\ UNCHANGED << conf, counters, proposal, gate, tool, control, answer >>

SubmitApproval ==
  /\ pc = "submit"
  /\ \/ Goto(IF conf.control THEN "create_approval" ELSE "wait")
     \/ "store" \in Faults /\ Raise("state_store", "fail_t")
  /\ UNCHANGED << conf, record, counters, proposal, gate, tool, control, answer >>

CreateApproval ==
  /\ pc = "create_approval"
  /\ \/ approval' = "pending" /\ Goto("wait")
     \/ "control" \in Faults /\ Raise("unexpected", "fail_t") /\ UNCHANGED approval
  /\ UNCHANGED << conf, record, counters, proposal, gate, tool, durable, answer >>

(* An operator's decision is read by the poll.  Nobody has to decide.      *)
OperatorDecides ==
  /\ pc = "wait"
  /\ \/ /\ allowed' = {args}
        /\ Goto(IF conf.control THEN "resolve_approval" ELSE "t_executing")
     \/ Raise("approval_rejected", "t_denied") /\ UNCHANGED allowed
  /\ UNCHANGED << conf, record, counters, proposal, verdict, tool, control, answer >>

(* Mutant: only a failing store ends the poll.                             *)
WaitWithoutTimeout ==
  /\ pc = "wait" /\ "store" \in Faults /\ Raise("state_store", "fail_t")
  /\ UNCHANGED << conf, record, counters, proposal, gate, tool, control, answer >>

(* approval_timeout_seconds are over, or the poll fails.                   *)
WaitEnds ==
  /\ pc = "wait"
  /\ \/ Raise("approval_timeout", "t_denied")
     \/ "store" \in Faults /\ Raise("state_store", "fail_t")
  /\ UNCHANGED << conf, record, counters, proposal, gate, tool, control, answer >>

ResolveApproval ==
  /\ pc = "resolve_approval"
  /\ \/ approval' = "decided" /\ Goto("t_executing")
     \/ "control" \in Faults /\ Raise("unexpected", "fail_t") /\ UNCHANGED approval
  /\ UNCHANGED << conf, record, counters, proposal, gate, tool, durable, answer >>

(* transition(DENIED) and finish_attempt(1, "denied") of both denials.     *)
Denied ==
  /\ pc = "t_denied"
  /\ Transition("denied", "f_denied", "fail_t")
  /\ UNCHANGED << conf, counters, proposal, gate, tool, control, answer >>

DeniedAttempt ==
  /\ pc = "f_denied"
  /\ FinishAttempt(1, "denied", Goto("fail_t"), "fail_t")
  /\ UNCHANGED << conf, counters, proposal, gate, tool, control, answer >>

-----------------------------------------------------------------------------
(* execute_attempt                                                         *)

(* Outside the try block: a failure here leaves latest_attempt as it is.   *)
(* A store that loses its connection may add the attempt twice; that it    *)
(* may do so more often adds nothing to what is told apart.                *)
StartAttempt ==
  /\ pc = "start_attempt"
  /\ LET new     == [attempt |-> latest, outcome |-> "none"]
         started == Append(attempts, new)
         again   == Append(started, new)
     IN  \/ latest = 1 /\ Goto("t_executing") /\ UNCHANGED attempts
         \/ latest > 1 /\ attempts' = started /\ Goto("t_executing")
         \/ /\ latest > 1 /\ "store" \in Faults
            /\ \/ attempts' = again /\ Goto("t_executing")
               \/ /\ attempts' \in {attempts, started, again}
                  /\ Raise("state_store", "loop")
  /\ UNCHANGED << conf, trans, counters, proposal, gate, tool, control, answer >>

(* Mutant: policy is evaluated again from the third attempt on.            *)
RecheckFromThird == latest > 2

(* "if latest_attempt > 1": the arguments may be repaired ones.            *)
NeedsRecheck == latest > 1

Executing ==
  /\ pc = "t_executing"
  /\ Transition("executing", IF NeedsRecheck THEN "recheck" ELSE "run", "loop")
  /\ UNCHANGED << conf, counters, proposal, gate, tool, control, answer >>

Recheck ==
  /\ pc = "recheck"
  /\ \/ allowed' = allowed \cup {args} /\ Goto("run")
     \/ /\ \E code \in {"policy_denied", "policy_unavailable"} :
             Raise(code, "f_failed")
        /\ UNCHANGED allowed
  /\ UNCHANGED << conf, record, counters, proposal, verdict, tool, control, answer >>

(* The finally block of execute_attempt.                                   *)
CountAttempt == finished' = latest /\ latest' = latest + 1 /\ UNCHANGED loop

RunTool ==
  /\ pc = "run"
  /\ runs' = Append(runs, args)
  /\ \/ effect' = "succeeded" /\ Goto("f_succeeded") /\ UNCHANGED counters
     \/ /\ effect' \in ToolCodes /\ Raise(effect', "f_failed")
        /\ UNCHANGED counters
     \/ effect' = "unexpected" /\ Raise("unexpected", "loop") /\ CountAttempt
  /\ UNCHANGED << conf, record, proposal, gate, control, answer >>

AttemptSucceeded ==
  /\ pc = "f_succeeded"
  /\ FinishAttempt(latest, "succeeded", Goto("t_succeeded"), "f_failed")
  /\ \/ pc' = "t_succeeded" /\ CountAttempt
     \/ pc' = "f_failed" /\ UNCHANGED counters
  /\ UNCHANGED << conf, proposal, gate, tool, control, answer >>

AttemptFailed ==
  /\ pc = "f_failed"
  /\ FinishAttempt(latest, "failed", Goto("loop"), "loop")
  /\ CountAttempt
  /\ UNCHANGED << conf, proposal, gate, tool, control, answer >>

-----------------------------------------------------------------------------
(* RepairLoop.run and diagnose                                             *)

Transient(code) == code \in {"sandbox_timeout", "sandbox_error"}

(* Mutant: the risk class is not consulted.                                *)
CanRetryAnything == err \notin PolicyCodes /\ loop < MaxAttempts

(* _can_retry without its wall-clock limit, which LoopGivesUp may hit.     *)
CanRetry ==
  /\ err \notin PolicyCodes
  /\ loop < MaxAttempts
  /\ conf.read_only \/ conf.idempotent

GiveUpCode ==
  IF Transient(err) /\ ~ conf.read_only THEN "needs_review" ELSE err

(* Not retryable, or the 30 seconds are over.                              *)
LoopGivesUp ==
  /\ pc = "loop"
  /\ Raise(GiveUpCode, "fail_t")
  /\ UNCHANGED << conf, record, counters, proposal, gate, tool, control, answer >>

(* Retryable, but the delay would exceed the time limit, or the failure    *)
(* needs a repairer and there is none: the failure is raised unchanged.    *)
LoopRaises ==
  /\ pc = "loop" /\ CanRetry
  /\ Raise(err, "fail_t")
  /\ UNCHANGED << conf, record, counters, proposal, gate, tool, control, answer >>

NextAttempt == loop' = loop + 1 /\ UNCHANGED << latest, finished >>

LoopRetries ==
  /\ pc = "loop" /\ CanRetry /\ Transient(err)
  /\ NextAttempt
  /\ Raise("none", "start_attempt")
  /\ UNCHANGED << conf, record, proposal, gate, tool, control, answer >>

LoopRepairs ==
  /\ pc = "loop" /\ CanRetry /\ ~ Transient(err) /\ conf.advisor
  /\ Repair("start_attempt", "fail_t")
  /\ \/ pc' = "start_attempt" /\ NextAttempt
     \/ pc' = "fail_t" /\ UNCHANGED counters
  /\ UNCHANGED << conf, record, gate, tool, control, answer >>

-----------------------------------------------------------------------------
(* Endings                                                                 *)

(* Mutant: a failing store does not stop the success.                      *)
SucceededAnyway ==
  /\ pc = "t_succeeded"
  /\ trans' \in {trans, Append(trans, "succeeded")} /\ Goto("copy")
  /\ UNCHANGED << conf, attempts, counters, proposal, gate, tool, control, answer >>

(* Mutant: the audit record is written before the transition.              *)
SucceededAuditedFirst ==
  /\ pc = "t_succeeded"
  /\ audit' = Append(audit, "succeeded")
  /\ Transition("succeeded", "copy", "fail_t")
  /\ UNCHANGED << conf, counters, proposal, gate, tool, control, writing, resp >>

Succeeded ==
  /\ pc = "t_succeeded"
  /\ Transition("succeeded", "copy", "fail_t")
  /\ UNCHANGED << conf, counters, proposal, gate, tool, control, answer >>

(* Mutant: only policy failures count as denials.                          *)
OutcomeWithoutApprovals(code) ==
  IF code \in {"policy_denied", "policy_unavailable"} THEN "denied" ELSE "failed"

(* terminal_state of fail() and the outcome of the attempt.                *)
Outcome(code) == IF code \in PolicyCodes THEN "denied" ELSE "failed"
Reported(code) == IF code = "unexpected" THEN "tool_error" ELSE code

(* fail(): a store that fails here answers without an audit record.        *)
FailTransition ==
  /\ pc = "fail_t"
  /\ UNCHANGED attempts
  /\ \/ /\ trans' = Append(trans, Outcome(err))
        /\ Goto("fail_f") /\ UNCHANGED resp
     \/ /\ "store" \in Faults
        /\ trans' \in {trans, Append(trans, Outcome(err))}
        /\ Respond("state_store")
  /\ UNCHANGED << conf, counters, proposal, gate, tool, control, auditing >>

(* Mutant: the failure is answered before it is audited.                   *)
FailAttemptAnswers ==
  /\ pc = "fail_f"
  /\ attempts' = Completed(finished, Outcome(err)) /\ Respond(Reported(err))
  /\ UNCHANGED << conf, trans, counters, proposal, gate, tool, control, auditing >>

FailAttempt ==
  /\ pc = "fail_f"
  /\ UNCHANGED trans
  /\ \/ /\ attempts' = Completed(finished, Outcome(err))
        /\ Goto("copy") /\ UNCHANGED resp
     \/ /\ "store" \in Faults
        /\ attempts' \in {attempts, Completed(finished, Outcome(err))}
        /\ Respond("state_store")
  /\ UNCHANGED << conf, counters, proposal, gate, tool, control, auditing >>

DistinctAttempts ==
  \A i, k \in DOMAIN attempts : attempts[i].attempt = attempts[k].attempt => i = k

(* Mutant: only successful calls are copied.                               *)
CopySuccessOnly ==
  /\ pc = "copy"
  /\ durable' = IF conf.control /\ err = "none" THEN trans[Len(trans)] ELSE durable
  /\ Goto("audit")
  /\ UNCHANGED << conf, record, counters, proposal, gate, tool, approval, answer >>

(* write_audit reads the record back and copies it to the control plane,   *)
(* which refuses duplicate attempt numbers.  Failures are only logged.     *)
CopyRecord ==
  /\ pc = "copy"
  /\ \/ conf.control /\ DistinctAttempts /\ durable' = trans[Len(trans)]
     \/ /\ \/ ~ conf.control \/ ~ DistinctAttempts
           \/ Faults \cap {"store", "control"} # {}
        /\ UNCHANGED durable
  /\ Goto("audit")
  /\ UNCHANGED << conf, record, counters, proposal, gate, tool, approval, answer >>

(* audit_logger.append: a thread writes the record.                        *)
WriteAudit ==
  /\ pc = "audit"
  /\ writing' = IF err = "none" THEN "succeeded" ELSE Outcome(err)
  /\ Goto("append")
  /\ UNCHANGED << conf, record, counters, proposal, gate, tool, control, audit, resp >>

(* The thread ends, in time or after the call was cancelled: cancelling    *)
(* the await does not stop it, unless it has not begun (async_utils.py).   *)
AuditThread ==
  /\ writing # "none"
  /\ \/ audit' = Append(audit, writing)
     \/ /\ "audit" \in Faults \/ pc = "cancelled"
        /\ UNCHANGED audit
  /\ writing' = "none"
  /\ UNCHANGED << conf, pc, record, counters, proposal, err, gate, tool, control, resp >>

(* The record is written, or its failure logged: the client is answered.   *)
Answer ==
  /\ pc = "append" /\ writing = "none"
  /\ Respond(IF err = "none" THEN "ok" ELSE Reported(err))
  /\ UNCHANGED << conf, record, counters, proposal, gate, tool, control, auditing >>

(* The client cancels, the transport closes or the process dies: nothing   *)
(* catches CancelledError, and a record that is being written may still be *)
(* finished.                                                               *)
Cancel ==
  /\ pc \notin {"done", "cancelled"}
  /\ pc' = "cancelled"
  /\ UNCHANGED << conf, record, counters, proposal, err, gate, tool, control, answer >>

Proceed ==
  \/ CreateCall \/ ControlPlane \/ Validate \/ Validated
  \/ Policy \/ PolicyChecked \/ AwaitingApproval \/ SubmitApproval
  \/ CreateApproval \/ WaitEnds \/ ResolveApproval \/ Denied \/ DeniedAttempt
  \/ StartAttempt \/ Executing \/ Recheck \/ RunTool \/ AttemptSucceeded
  \/ AttemptFailed \/ LoopGivesUp \/ LoopRaises \/ LoopRetries \/ LoopRepairs
  \/ Succeeded \/ FailTransition \/ FailAttempt \/ CopyRecord
  \/ WriteAudit \/ AuditThread \/ Answer

Next == Proceed \/ OperatorDecides \/ Cancel

Spec == Init /\ [][Next]_vars

(* The awaits on services have timeouts or return (database, audit thread),*)
(* so the call proceeds; operators need not decide.                        *)
FairSpec == Spec /\ WF_vars(Proceed)

-----------------------------------------------------------------------------
(* Properties                                                              *)

(* Every argument set the tool was invoked with had been allowed by policy *)
(* or approved by an operator, repaired ones included (README.md:113,      *)
(* ADR-0022 at docs/DECISIONS.md:225-226).                                 *)
ExecutedIsAllowed == \A i \in DOMAIN runs : runs[i] \in allowed

(* Whatever fails, the tool runs only after the first verdict let the call *)
(* pass: allowed, or approval required and an approval given.              *)
GateHolds ==
  runs # << >> => /\ verdict \in {"allow", "requires_approval"}
                  /\ allowed # {}

(* A mutation that is not declared idempotent is invoked at most once,     *)
(* whatever fails around it (ADR-0019, _can_retry).                        *)
NonIdempotentRunsOnce ==
  ~ conf.read_only /\ ~ conf.idempotent => Len(runs) <= 1

(* When the call is answered and the answer is not that the store or the   *)
(* control plane was unavailable, the stored record is terminal and agrees *)
(* with the answer, whatever was retried, repaired or lost on the way.     *)
AnswerMatchesRecord ==
  resp \notin {"none", "state_store"} /\ Len(trans) > 1 =>
    trans[Len(trans)] = IF resp = "ok" THEN "succeeded" ELSE Outcome(resp)

(* A call never gets two audit records, and the one it gets tells the      *)
(* terminal state of the stored record and what the client was told, also  *)
(* when the call is cancelled while the record is being written and nobody *)
(* is told (write_audit, ADR-0020).                                        *)
AuditMatchesRecord ==
  audit # << >> =>
    /\ audit = << trans[Len(trans)] >>
    /\ resp # "none" =>
         audit = << IF resp = "ok" THEN "succeeded" ELSE Outcome(resp) >>

(* ADR-0020 (docs/DECISIONS.md:198): "Write one canonical JSONL record per *)
(* terminal tool call."  An answered call in a terminal state has one.     *)
CompletedIsAudited ==
  resp # "none" /\ trans # << >> /\ trans[Len(trans)] \in Terminal
    => Len(audit) = 1

(* The durable copy of an answered call agrees with the stored record.     *)
DurableAgrees ==
  conf.control /\ resp # "none" => durable = trans[Len(trans)]

(* A terminal state is never left: a denied call does not fail or succeed  *)
(* later, and a failed one does not run again.                             *)
TerminalIsFinal ==
  [][trans # << >> /\ trans[Len(trans)] \in Terminal
       => trans'[Len(trans')] = trans[Len(trans)]]_trans

(* Every call ends: the repair loop is bounded.                            *)
CallEnds == <>(pc \in {"done", "cancelled"})

=============================================================================

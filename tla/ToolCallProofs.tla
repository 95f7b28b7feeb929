--------------------------- MODULE ToolCallProofs ---------------------------
(***************************************************************************)
(* Proofs about ToolCall, for every deployment, every set of failing       *)
(* backends and every number of attempts.                                  *)
(*                                                                         *)
(* Two inductive invariants. IInv says what each place of                  *)
(* execute_tool_call, execute_attempt and the repair loop may assume       *)
(* whatever fails: which error is at hand, how the counters stand, that    *)
(* the gate was passed, and that nothing was answered yet. RInv says what  *)
(* holds on top of it as long as the state store does not fail: an         *)
(* exception of the store before the first attempt is counted sends the    *)
(* call back into the loop with the counter unchanged, and from there on   *)
(* attempt numbers repeat and repaired arguments run unchecked.            *)
(***************************************************************************)
EXTENDS ToolCall, TLAPS

-----------------------------------------------------------------------------
(* The invariant that holds whatever fails                                 *)

(* Where execute_tool_call stands before the verdict, at an approval, in   *)
(* execute_attempt, and while an error is being handled.                   *)
Early      == {"create_call", "control_plane", "validate", "t_validated", "policy",
               "t_policy_checked"}
Approving  == {"t_awaiting_approval", "submit", "create_approval", "wait",
               "resolve_approval"}
Attempting == {"start_attempt", "t_executing", "recheck", "run", "f_succeeded"}
Denying    == {"t_denied", "f_denied"}
Failing    == Denying \cup {"f_failed", "loop", "fail_t", "fail_f"}
Ending     == {"fail_t", "fail_f", "copy", "audit", "append", "done", "cancelled"}

Last == trans[Len(trans)]

(* An error is at hand exactly where one is being handled, and what leads  *)
(* to a denial is a policy error.                                          *)
ErrInv ==
  /\ pc \in Early \cup Approving \cup Attempting \cup {"t_succeeded"} =>
       err = "none"
  /\ pc \in Failing => err \in Codes
  /\ pc \in Denying => err \in PolicyCodes

(* latest_attempt counts with the attempt of the repair loop, the tool was *)
(* invoked at most once per attempt, the advisor asked at most once per    *)
(* attempt and a call that must not be retried stays at the first.         *)
CountInv ==
  /\ pc \in Early \cup Approving \cup Denying =>
       latest = 1 /\ loop = 1 /\ runs = << >>
  /\ pc \in Attempting \cup {"f_failed"} => latest <= loop
  /\ pc \in {"start_attempt", "t_executing", "recheck", "run", "loop"} =>
       Len(runs) < latest
  /\ pc \in {"f_succeeded", "f_failed"} => Len(runs) <= latest
  /\ latest <= loop + 1
  /\ Len(runs) <= loop
  /\ ~ conf.read_only /\ ~ conf.idempotent => loop = 1
  /\ args <= proposals
  /\ pc \in {"create_call", "control_plane", "validate"} => proposals = 0
  /\ pc \notin Ending => proposals <= loop

(* The first verdict let the call pass.                                    *)
Passed == verdict \in {"allow", "requires_approval"} /\ allowed # {}

(* From the verdict on, the place in the code tells the verdict; arguments *)
(* were approved where the approval was needed, and nothing ran otherwise. *)
GateInv ==
  /\ pc = "t_policy_checked" => /\ verdict # "not_evaluated"
                                /\ verdict = "allow" => allowed = {args}
  /\ pc \in Approving => verdict = "requires_approval"
  /\ pc = "resolve_approval" => allowed # {}
  /\ pc \in Attempting \cup {"f_failed", "loop"} => Passed
  /\ runs # << >> => Passed

(* Nothing is answered or audited before the end, and then the record has  *)
(* the state the error calls for; the thread of the audit log writes it,   *)
(* also for a call that was cancelled meanwhile.                           *)
EndInv ==
  /\ pc # "done" => resp = "none"
  /\ pc \notin {"append", "done", "cancelled"} => writing = "none" /\ audit = << >>
  /\ writing # "none" => /\ pc \in {"append", "cancelled"}
                         /\ audit = << >> /\ writing = Last
  /\ pc = "control_plane" => trans = << "received" >>
  /\ pc \notin {"create_call", "done", "cancelled"} => trans # << >>
  /\ pc = "fail_f" => Last = Outcome(err)
  /\ pc \in {"copy", "audit", "append"} =>
       Last = IF err = "none" THEN "succeeded" ELSE Outcome(err)
  /\ AnswerMatchesRecord
  /\ AuditMatchesRecord

IInv == TypeOK /\ ErrInv /\ CountInv /\ GateInv /\ EndInv

-----------------------------------------------------------------------------
(* Groups of places and of variables are used as they are written.         *)
USE CallAssumption
USE DEF Early, Approving, Attempting, Denying, Failing, Ending,
        record, counters, proposal, gate, tool, control, auditing, answer

(* The last state of a record is the one appended last.                    *)
LEMMA AppendFacts ==
  ASSUME NEW S, NEW t \in Seq(S), NEW s \in S
  PROVE  /\ Append(t, s) \in Seq(S)
         /\ Append(t, s) # << >>
         /\ Append(t, s)[Len(Append(t, s))] = s
         /\ Len(Append(t, s)) = Len(t) + 1
<1>1. Append(t, s) \in Seq(S)
  OBVIOUS
<1>2. Len(Append(t, s)) = Len(t) + 1 /\ Len(t) \in Nat
  OBVIOUS
<1>3. Append(t, s)[Len(t) + 1] = s
  OBVIOUS
<1>4. Append(t, s) # << >>
  BY <1>2
<1> QED BY <1>1, <1>2, <1>3, <1>4

(* FinishAttempt writes an outcome and leaves the attempt numbers alone.   *)
LEMMA CompletedFacts ==
  ASSUME attempts \in Seq(Attempt), NEW n, NEW o \in Terminal
  PROVE  /\ Completed(n, o) \in Seq(Attempt)
         /\ DOMAIN Completed(n, o) = DOMAIN attempts
         /\ \A k \in DOMAIN attempts :
              Completed(n, o)[k].attempt = attempts[k].attempt
<1> DEFINE i == Max({k \in DOMAIN attempts : attempts[k].attempt = n})
           done == [attempts EXCEPT ![i].outcome = o]
<1>1. Completed(n, o) = done
  BY DEF Completed
<1> HIDE DEF i
<1>2. DOMAIN attempts = 1 .. Len(attempts) /\ Len(attempts) \in Nat
  OBVIOUS
<1>a. \A k \in DOMAIN attempts : attempts[k] \in Attempt
  OBVIOUS
<1>b. \A k \in DOMAIN attempts :
        done[k] = IF k = i THEN [attempts[k] EXCEPT !.outcome = o] ELSE attempts[k]
  OBVIOUS
<1>3. ASSUME NEW k \in DOMAIN attempts
      PROVE  done[k] \in Attempt /\ done[k].attempt = attempts[k].attempt
  <2>1. attempts[k] \in Attempt
    BY <1>a
  <2>2. /\ [attempts[k] EXCEPT !.outcome = o] \in Attempt
        /\ [attempts[k] EXCEPT !.outcome = o].attempt = attempts[k].attempt
    BY <2>1 DEF Attempt
  <2> QED BY <2>1, <2>2, <1>b
<1>4. DOMAIN done = DOMAIN attempts
  OBVIOUS
<1> HIDE DEF done
<1>5. done \in Seq(Attempt)
  <2>1. done = [k \in 1 .. Len(attempts) |-> done[k]]
    BY <1>1, <1>2, <1>4 DEF done
  <2> QED BY <1>2, <1>3, <2>1
<1> QED BY <1>1, <1>3, <1>4, <1>5

(* A transition is recorded, or the store fails before or after recording  *)
(* it and the handler takes over.                                          *)
LEMMA TransitionFacts ==
  ASSUME TypeOK, NEW s \in States, NEW next, NEW handler,
         Transition(s, next, handler)
  PROVE  /\ trans' \in Seq(States) /\ attempts' = attempts
         /\ \/ pc' = next /\ err' = err
               /\ trans' = Append(trans, s)
               /\ trans' # << >> /\ trans'[Len(trans')] = s
            \/ /\ pc' = handler /\ err' = "state_store" /\ "store" \in Faults
               /\ trans' \in {trans, Append(trans, s)}
               /\ trans # << >> => trans' # << >>
<1>1. /\ trans \in Seq(States)
      /\ Append(trans, s) \in Seq(States) /\ Append(trans, s) # << >>
      /\ Append(trans, s)[Len(Append(trans, s))] = s
  BY AppendFacts DEF TypeOK
<1>2. CASE trans' = Append(trans, s) /\ Goto(next)
  BY <1>1, <1>2 DEF Transition, Goto
<1>3. CASE /\ "store" \in Faults
           /\ trans' \in {trans, Append(trans, s)}
           /\ Raise("state_store", handler)
  <2>1. trans' = trans \/ trans' = Append(trans, s)
    BY <1>3
  <2>2. trans' \in Seq(States) /\ (trans # << >> => trans' # << >>)
    BY <1>1, <2>1
  <2> QED BY <1>3, <2>2 DEF Transition, Raise
<1> QED BY <1>2, <1>3 DEF Transition

(* One lemma per action, one step per part of the invariant. create_call:  *)
(* the record starts with its first attempt, or nothing is stored.         *)
LEMMA CreateCallInv ==
  ASSUME IInv, CreateCall
  PROVE  IInv'
<1> USE DEF IInv, CreateCall, Goto, Respond
<1>1. TypeOK'
  <2>1. << "received" >> \in Seq(States)
    BY DEF States
  <2>2. << [attempt |-> 1, outcome |-> "none"] >> \in Seq(Attempt)
    BY DEF Attempt
  <2>3. trans' \in Seq(States) /\ attempts' \in Seq(Attempt)
    BY <2>1, <2>2 DEF TypeOK
  <2>4. /\ pc' \in PC /\ err' \in {"none"} \cup Codes
        /\ resp' \in {"none", "ok"} \cup Codes
    BY DEF TypeOK, PC, Codes
  <2> QED BY <2>3, <2>4 DEF TypeOK
<1>2. ErrInv'
  BY DEF ErrInv, Codes, PolicyCodes, ToolCodes
<1>3. CountInv'
  BY DEF TypeOK, CountInv
<1>4. GateInv'
  BY DEF CountInv, GateInv, Passed
<1>5. EndInv'
  BY DEF ErrInv, EndInv, AnswerMatchesRecord, AuditMatchesRecord, Last
<1> QED BY <1>1, <1>2, <1>3, <1>4, <1>5

(* The durable row is created, or the call is refused with the record as   *)
(* it was received.                                                        *)
LEMMA ControlPlaneInv ==
  ASSUME IInv, ControlPlane
  PROVE  IInv'
<1> USE DEF IInv, ControlPlane, Goto, Respond
<1>0. Len(trans) = 1 /\ trans[Len(trans)] = "received"
  <2>1. trans = << "received" >>
    BY DEF EndInv
  <2>2. Len(trans) = 1 /\ trans[1] = "received"
    BY <2>1
  <2> QED BY <2>2
<1>1. TypeOK'
  <2>1. /\ pc' \in PC /\ err' \in {"none"} \cup Codes
        /\ resp' \in {"none", "ok"} \cup Codes
    BY DEF TypeOK, PC, Codes, ToolCodes
  <2> QED BY <1>0, <2>1 DEF TypeOK, States
<1>2. ErrInv'
  BY <1>0 DEF ErrInv, Codes, PolicyCodes, ToolCodes
<1>3. CountInv'
  BY <1>0 DEF TypeOK, CountInv
<1>4. GateInv'
  BY <1>0 DEF CountInv, GateInv, Passed
<1>5. EndInv'
  BY <1>0 DEF ErrInv, EndInv, AnswerMatchesRecord, AuditMatchesRecord, Last
<1> QED BY <1>1, <1>2, <1>3, <1>4, <1>5

(* Schema validation, with one proposal of the advisor at most.            *)
LEMMA ValidateInv ==
  ASSUME IInv, Validate
  PROVE  IInv'
<1> USE DEF IInv, Validate, Repair, Goto, Raise
<1>1. TypeOK'
  <2>1. proposals' \in 0 .. MaxAttempts /\ args' \in 0 .. MaxAttempts
    BY DEF TypeOK, CountInv
  <2>2. pc' \in PC /\ err' \in {"none"} \cup Codes
    BY DEF TypeOK, PC, Codes, ToolCodes
  <2> QED BY <2>1, <2>2 DEF TypeOK
<1>2. ErrInv'
  BY DEF ErrInv, Codes, PolicyCodes, ToolCodes
<1>3. CountInv'
  BY DEF TypeOK, CountInv
<1>4. GateInv'
  BY DEF CountInv, GateInv, Passed
<1>5. EndInv'
  BY DEF ErrInv, EndInv, AnswerMatchesRecord, AuditMatchesRecord, Last
<1> QED BY <1>1, <1>2, <1>3, <1>4, <1>5

(* The first transition of a valid call.                                   *)
LEMMA ValidatedInv ==
  ASSUME IInv, Validated
  PROVE  IInv'
<1> USE DEF IInv, Validated
<1>0. "validated" \in States
  BY DEF States, Terminal
<1>1. TypeOK'
  <2>1. /\ trans' \in Seq(States) /\ attempts' = attempts
        /\ pc' \in PC /\ err' \in {"none"} \cup Codes
    BY <1>0, TransitionFacts DEF TypeOK, PC, Codes
  <2> QED BY <2>1 DEF TypeOK
<1>2. ErrInv'
  BY <1>0, TransitionFacts DEF ErrInv, Codes, PolicyCodes, ToolCodes
<1>3. CountInv'
  BY <1>0, TransitionFacts DEF TypeOK, CountInv
<1>4. GateInv'
  BY <1>0, TransitionFacts DEF CountInv, GateInv, Passed
<1>5. EndInv'
  BY <1>0, TransitionFacts
     DEF ErrInv, EndInv, AnswerMatchesRecord, AuditMatchesRecord, Last
<1> QED BY <1>1, <1>2, <1>3, <1>4, <1>5

(* The verdict covers the arguments it saw.                                *)
LEMMA PolicyInv ==
  ASSUME IInv, Policy
  PROVE  IInv'
<1> USE DEF IInv, Policy, Goto, Raise
<1>1. TypeOK'
  <2>1. /\ allowed' \subseteq 0 .. MaxAttempts
        /\ verdict' \in {"not_evaluated", "allow", "requires_approval", "deny"}
    BY DEF TypeOK
  <2>2. pc' \in PC /\ err' \in {"none"} \cup Codes
    BY DEF TypeOK, PC, Codes, PolicyCodes
  <2> QED BY <2>1, <2>2 DEF TypeOK
<1>2. ErrInv'
  BY DEF ErrInv, Codes, PolicyCodes, ToolCodes
<1>3. CountInv'
  BY DEF TypeOK, CountInv
<1>4. GateInv'
  BY DEF CountInv, GateInv, Passed
<1>5. EndInv'
  BY DEF ErrInv, EndInv, AnswerMatchesRecord, AuditMatchesRecord, Last
<1> QED BY <1>1, <1>2, <1>3, <1>4, <1>5

(* The four ways on from the verdict, and the failing store.               *)
LEMMA PolicyCheckedFacts ==
  ASSUME IInv, PolicyChecked
  PROVE  /\ trans' \in Seq(States) /\ trans' # << >>
         /\ \/ /\ pc' = "t_executing" /\ err' = "none"
               /\ verdict = "allow" /\ trans' = Append(trans, "policy_checked")
            \/ /\ pc' = "t_denied" /\ err' = "policy_denied"
               /\ trans' = Append(trans, "policy_checked")
            \/ /\ pc' = "t_awaiting_approval" /\ err' = "none"
               /\ verdict = "requires_approval"
               /\ trans' = Append(trans, "policy_checked")
            \/ /\ pc' = "fail_t" /\ err' = "policy_denied"
               /\ trans' = Append(trans, "policy_checked")
            \/ /\ pc' = "fail_t" /\ err' = "state_store" /\ "store" \in Faults
<1> USE DEF IInv
<1>1. "policy_checked" \in States
  BY DEF States
<1>a. trans \in Seq(States) /\ trans # << >>
  BY DEF TypeOK, EndInv, PolicyChecked
<1>2. /\ Append(trans, "policy_checked") \in Seq(States)
      /\ Append(trans, "policy_checked") # << >>
  BY <1>a, <1>1, AppendFacts
<1>3. verdict \in {"allow", "requires_approval", "deny"}
  BY DEF TypeOK, GateInv, PolicyChecked
<1>4. AfterPolicy = IF verdict = "allow" THEN << "t_executing", "none" >>
                    ELSE IF verdict = "deny" THEN << "t_denied", "policy_denied" >>
                    ELSE IF conf.approvals THEN << "t_awaiting_approval", "none" >>
                    ELSE << "fail_t", "policy_denied" >>
  BY <1>3 DEF AfterPolicy
<1>5. CASE /\ trans' = Append(trans, "policy_checked")
           /\ pc' = AfterPolicy[1] /\ err' = AfterPolicy[2]
  <2>1. CASE verdict = "allow"
    BY <1>2, <1>4, <1>5, <2>1
  <2>2. CASE verdict = "deny"
    BY <1>2, <1>4, <1>5, <2>2
  <2>3. CASE verdict = "requires_approval"
    BY <1>2, <1>4, <1>5, <2>3
  <2> QED BY <1>3, <2>1, <2>2, <2>3
<1>6. CASE /\ "store" \in Faults
           /\ trans' \in {trans, Append(trans, "policy_checked")}
           /\ Raise("state_store", "fail_t")
  BY <1>a, <1>2, <1>6 DEF Raise
<1> QED BY <1>5, <1>6 DEF PolicyChecked

(* The verdict decides where the call goes.                                *)
LEMMA PolicyCheckedInv ==
  ASSUME IInv, PolicyChecked
  PROVE  IInv'
<1> USE DEF IInv, PolicyChecked
<1>1. TypeOK'
  <2>1. pc' \in PC /\ err' \in {"none"} \cup Codes
    BY PolicyCheckedFacts DEF PC, Codes, PolicyCodes
  <2> QED BY PolicyCheckedFacts, <2>1 DEF TypeOK
<1>2. ErrInv'
  BY PolicyCheckedFacts DEF ErrInv, Codes, PolicyCodes, ToolCodes
<1>3. CountInv'
  BY PolicyCheckedFacts DEF TypeOK, CountInv
<1>4. GateInv'
  BY PolicyCheckedFacts DEF CountInv, GateInv, Passed
<1>5. EndInv'
  BY PolicyCheckedFacts
     DEF ErrInv, EndInv, AnswerMatchesRecord, AuditMatchesRecord, Last
<1> QED BY <1>1, <1>2, <1>3, <1>4, <1>5

(* A call that needs an approval has no attempt behind it.                 *)
LEMMA AwaitingApprovalInv ==
  ASSUME IInv, AwaitingApproval
  PROVE  IInv'
<1> USE DEF IInv, AwaitingApproval
<1>0. "awaiting_approval" \in States
  BY DEF States, Terminal
<1>1. TypeOK'
  <2>1. /\ trans' \in Seq(States) /\ attempts' = attempts
        /\ pc' \in PC /\ err' \in {"none"} \cup Codes
    BY <1>0, TransitionFacts DEF TypeOK, PC, Codes
  <2> QED BY <2>1 DEF TypeOK
<1>2. ErrInv'
  BY <1>0, TransitionFacts DEF ErrInv, Codes, PolicyCodes, ToolCodes
<1>3. CountInv'
  BY <1>0, TransitionFacts DEF TypeOK, CountInv
<1>4. GateInv'
  BY <1>0, TransitionFacts DEF CountInv, GateInv, Passed
<1>5. EndInv'
  BY <1>0, TransitionFacts
     DEF ErrInv, EndInv, AnswerMatchesRecord, AuditMatchesRecord, Last
<1> QED BY <1>1, <1>2, <1>3, <1>4, <1>5

(* The approval request enters the queue.                                  *)
LEMMA SubmitApprovalInv ==
  ASSUME IInv, SubmitApproval
  PROVE  IInv'
<1> USE DEF IInv, SubmitApproval, Goto, Raise
<1>1. TypeOK'
  BY DEF TypeOK, PC, Codes, PolicyCodes, ToolCodes
<1>2. ErrInv'
  BY DEF ErrInv, Codes, PolicyCodes, ToolCodes
<1>3. CountInv'
  BY DEF TypeOK, CountInv
<1>4. GateInv'
  BY DEF CountInv, GateInv, Passed
<1>5. EndInv'
  BY DEF ErrInv, EndInv, AnswerMatchesRecord, AuditMatchesRecord, Last
<1> QED BY <1>1, <1>2, <1>3, <1>4, <1>5

(* The approval request is stored in the control plane.                    *)
LEMMA CreateApprovalInv ==
  ASSUME IInv, CreateApproval
  PROVE  IInv'
<1> USE DEF IInv, CreateApproval, Goto, Raise
<1>1. TypeOK'
  BY DEF TypeOK, PC, Codes, PolicyCodes, ToolCodes
<1>2. ErrInv'
  BY DEF ErrInv, Codes, PolicyCodes, ToolCodes
<1>3. CountInv'
  BY DEF TypeOK, CountInv
<1>4. GateInv'
  BY DEF CountInv, GateInv, Passed
<1>5. EndInv'
  BY DEF ErrInv, EndInv, AnswerMatchesRecord, AuditMatchesRecord, Last
<1> QED BY <1>1, <1>2, <1>3, <1>4, <1>5

(* An approval covers the arguments it was asked for.                      *)
LEMMA OperatorDecidesInv ==
  ASSUME IInv, OperatorDecides
  PROVE  IInv'
<1> USE DEF IInv, OperatorDecides, Goto, Raise
<1>1. TypeOK'
  <2>1. allowed' \subseteq 0 .. MaxAttempts
    BY DEF TypeOK
  <2>2. pc' \in PC /\ err' \in {"none"} \cup Codes
    BY DEF TypeOK, PC, Codes, PolicyCodes
  <2> QED BY <2>1, <2>2 DEF TypeOK
<1>2. ErrInv'
  BY DEF ErrInv, Codes, PolicyCodes, ToolCodes
<1>3. CountInv'
  BY DEF TypeOK, CountInv
<1>4. GateInv'
  BY DEF CountInv, GateInv, Passed
<1>5. EndInv'
  BY DEF ErrInv, EndInv, AnswerMatchesRecord, AuditMatchesRecord, Last
<1> QED BY <1>1, <1>2, <1>3, <1>4, <1>5

(* A refusal and a timeout are policy errors.                              *)
LEMMA WaitEndsInv ==
  ASSUME IInv, WaitEnds
  PROVE  IInv'
<1> USE DEF IInv, WaitEnds, Raise
<1>1. TypeOK'
  BY DEF TypeOK, PC, Codes, PolicyCodes, ToolCodes
<1>2. ErrInv'
  BY DEF ErrInv, Codes, PolicyCodes, ToolCodes
<1>3. CountInv'
  BY DEF TypeOK, CountInv
<1>4. GateInv'
  BY DEF CountInv, GateInv, Passed
<1>5. EndInv'
  BY DEF ErrInv, EndInv, AnswerMatchesRecord, AuditMatchesRecord, Last
<1> QED BY <1>1, <1>2, <1>3, <1>4, <1>5

(* Past the approval the gate is open.                                     *)
LEMMA ResolveApprovalInv ==
  ASSUME IInv, ResolveApproval
  PROVE  IInv'
<1> USE DEF IInv, ResolveApproval, Goto, Raise
<1>1. TypeOK'
  BY DEF TypeOK, PC, Codes, PolicyCodes, ToolCodes
<1>2. ErrInv'
  BY DEF ErrInv, Codes, PolicyCodes, ToolCodes
<1>3. CountInv'
  BY DEF TypeOK, CountInv
<1>4. GateInv'
  BY DEF CountInv, GateInv, Passed
<1>5. EndInv'
  BY DEF ErrInv, EndInv, AnswerMatchesRecord, AuditMatchesRecord, Last
<1> QED BY <1>1, <1>2, <1>3, <1>4, <1>5

(* A denial is recorded with the policy error it comes from.               *)
LEMMA DeniedInv ==
  ASSUME IInv, Denied
  PROVE  IInv'
<1> USE DEF IInv, Denied
<1>0. "denied" \in States
  BY DEF States, Terminal
<1>1. TypeOK'
  <2>1. /\ trans' \in Seq(States) /\ attempts' = attempts
        /\ pc' \in PC /\ err' \in {"none"} \cup Codes
    BY <1>0, TransitionFacts DEF TypeOK, PC, Codes
  <2> QED BY <2>1 DEF TypeOK
<1>2. ErrInv'
  BY <1>0, TransitionFacts DEF ErrInv, Codes, PolicyCodes, ToolCodes
<1>3. CountInv'
  BY <1>0, TransitionFacts DEF TypeOK, CountInv
<1>4. GateInv'
  BY <1>0, TransitionFacts DEF CountInv, GateInv, Passed
<1>5. EndInv'
  BY <1>0, TransitionFacts
     DEF ErrInv, EndInv, AnswerMatchesRecord, AuditMatchesRecord, Last
<1> QED BY <1>1, <1>2, <1>3, <1>4, <1>5

(* The attempt of a denied call is closed.                                 *)
LEMMA DeniedAttemptInv ==
  ASSUME IInv, DeniedAttempt
  PROVE  IInv'
<1> USE DEF IInv, DeniedAttempt, FinishAttempt, Goto, Raise
<1>0. attempts' \in Seq(Attempt)
  BY CompletedFacts DEF TypeOK, Terminal
<1>1. TypeOK'
  <2>2. pc' \in PC /\ err' \in {"none"} \cup Codes
    BY DEF TypeOK, PC, Codes
  <2> QED BY <1>0, <2>2 DEF TypeOK
<1>2. ErrInv'
  BY DEF ErrInv, Codes, PolicyCodes, ToolCodes
<1>3. CountInv'
  BY DEF TypeOK, CountInv
<1>4. GateInv'
  BY DEF CountInv, GateInv, Passed
<1>5. EndInv'
  BY DEF ErrInv, EndInv, AnswerMatchesRecord, AuditMatchesRecord, Last
<1> QED BY <1>1, <1>2, <1>3, <1>4, <1>5

(* A later attempt is added to the record under the current number.        *)
LEMMA StartAttemptInv ==
  ASSUME IInv, StartAttempt
  PROVE  IInv'
<1> USE DEF IInv, StartAttempt, Goto, Raise
<1>0. attempts' \in Seq(Attempt)
  <2>1. [attempt |-> latest, outcome |-> "none"] \in Attempt
    BY DEF TypeOK, CountInv, Attempt
  <2> DEFINE new == [attempt |-> latest, outcome |-> "none"]
  <2>2. Append(attempts, new) \in Seq(Attempt)
    BY <2>1, AppendFacts DEF TypeOK
  <2>3. Append(Append(attempts, new), new) \in Seq(Attempt)
    BY <2>1, <2>2, AppendFacts
  <2> QED BY <2>2, <2>3 DEF TypeOK
<1>1. TypeOK'
  <2>1. pc' \in PC /\ err' \in {"none"} \cup Codes
    BY DEF TypeOK, PC, Codes
  <2> QED BY <1>0, <2>1 DEF TypeOK
<1>2. ErrInv'
  BY DEF ErrInv, Codes, PolicyCodes, ToolCodes
<1>3. CountInv'
  BY DEF TypeOK, CountInv
<1>4. GateInv'
  BY DEF CountInv, GateInv, Passed
<1>5. EndInv'
  BY DEF ErrInv, EndInv, AnswerMatchesRecord, AuditMatchesRecord, Last
<1> QED BY <1>1, <1>2, <1>3, <1>4, <1>5

(* The call is executing, and a repaired one is checked again.             *)
LEMMA ExecutingInv ==
  ASSUME IInv, Executing
  PROVE  IInv'
<1> USE DEF IInv, Executing, NeedsRecheck
<1>0. "executing" \in States
  BY DEF States, Terminal
<1>1. TypeOK'
  <2>1. /\ trans' \in Seq(States) /\ attempts' = attempts
        /\ pc' \in PC /\ err' \in {"none"} \cup Codes
    BY <1>0, TransitionFacts DEF TypeOK, PC, Codes
  <2> QED BY <2>1 DEF TypeOK
<1>2. ErrInv'
  BY <1>0, TransitionFacts DEF ErrInv, Codes, PolicyCodes, ToolCodes
<1>3. CountInv'
  BY <1>0, TransitionFacts DEF TypeOK, CountInv
<1>4. GateInv'
  BY <1>0, TransitionFacts DEF CountInv, GateInv, Passed
<1>5. EndInv'
  BY <1>0, TransitionFacts
     DEF ErrInv, EndInv, AnswerMatchesRecord, AuditMatchesRecord, Last
<1> QED BY <1>1, <1>2, <1>3, <1>4, <1>5

(* A second verdict only adds to what is covered.                          *)
LEMMA RecheckInv ==
  ASSUME IInv, Recheck
  PROVE  IInv'
<1> USE DEF IInv, Recheck, Goto, Raise
<1>1. TypeOK'
  <2>1. allowed' \subseteq 0 .. MaxAttempts
    BY DEF TypeOK
  <2>2. pc' \in PC /\ err' \in {"none"} \cup Codes
    BY DEF TypeOK, PC, Codes, PolicyCodes
  <2> QED BY <2>1, <2>2 DEF TypeOK
<1>2. ErrInv'
  BY DEF ErrInv, Codes, PolicyCodes, ToolCodes
<1>3. CountInv'
  BY DEF TypeOK, CountInv
<1>4. GateInv'
  BY DEF CountInv, GateInv, Passed
<1>5. EndInv'
  BY DEF ErrInv, EndInv, AnswerMatchesRecord, AuditMatchesRecord, Last
<1> QED BY <1>1, <1>2, <1>3, <1>4, <1>5

(* The tool runs once per number: an unexpected failure is counted at      *)
(* once, the others when the attempt is closed.                            *)
LEMMA RunToolInv ==
  ASSUME IInv, RunTool
  PROVE  IInv'
<1> USE DEF IInv, RunTool, CountAttempt, Goto, Raise
<1>0. /\ runs' \in Seq(0 .. MaxAttempts) /\ Len(runs') = Len(runs) + 1
      /\ Len(runs) \in Nat /\ Len(runs) < latest /\ latest <= loop
  BY AppendFacts DEF TypeOK, CountInv
<1>1. TypeOK'
  <2>1. /\ latest' \in 1 .. MaxAttempts + 1 /\ finished' \in 1 .. MaxAttempts
        /\ loop' \in 1 .. MaxAttempts
    BY DEF TypeOK, CountInv, CountAttempt
  <2>2. /\ pc' \in PC /\ err' \in {"none"} \cup Codes
        /\ effect' \in {"none", "succeeded"} \cup Codes
    BY DEF TypeOK, PC, Codes
  <2> QED BY <1>0, <2>1, <2>2 DEF TypeOK
<1>2. ErrInv'
  BY DEF ErrInv, Codes, PolicyCodes, ToolCodes
<1>3. CountInv'
  BY <1>0 DEF TypeOK, CountInv
<1>4. GateInv'
  BY DEF CountInv, GateInv, Passed
<1>5. EndInv'
  BY DEF ErrInv, EndInv, AnswerMatchesRecord, AuditMatchesRecord, Last
<1> QED BY <1>1, <1>2, <1>3, <1>4, <1>5

(* The attempt that succeeded is closed.                                   *)
LEMMA AttemptSucceededInv ==
  ASSUME IInv, AttemptSucceeded
  PROVE  IInv'
<1> USE DEF IInv, AttemptSucceeded, FinishAttempt, Goto, Raise, CountAttempt
<1>0. attempts' \in Seq(Attempt)
  BY CompletedFacts DEF TypeOK, Terminal
<1>1. TypeOK'
  <2>1. /\ latest' \in 1 .. MaxAttempts + 1 /\ finished' \in 1 .. MaxAttempts
        /\ loop' \in 1 .. MaxAttempts
    BY DEF TypeOK, CountInv, CountAttempt
  <2>2. pc' \in PC /\ err' \in {"none"} \cup Codes
    BY DEF TypeOK, PC, Codes
  <2> QED BY <1>0, <2>1, <2>2 DEF TypeOK
<1>2. ErrInv'
  BY DEF ErrInv, Codes, PolicyCodes, ToolCodes
<1>3. CountInv'
  BY DEF TypeOK, CountInv
<1>4. GateInv'
  BY DEF CountInv, GateInv, Passed
<1>5. EndInv'
  BY DEF ErrInv, EndInv, AnswerMatchesRecord, AuditMatchesRecord, Last
<1> QED BY <1>1, <1>2, <1>3, <1>4, <1>5

(* The attempt that failed is closed, its error at hand.                   *)
LEMMA AttemptFailedInv ==
  ASSUME IInv, AttemptFailed
  PROVE  IInv'
<1> USE DEF IInv, AttemptFailed, FinishAttempt, Goto, Raise, CountAttempt
<1>0. attempts' \in Seq(Attempt)
  BY CompletedFacts DEF TypeOK, Terminal
<1>1. TypeOK'
  <2>1. /\ latest' \in 1 .. MaxAttempts + 1 /\ finished' \in 1 .. MaxAttempts
        /\ loop' \in 1 .. MaxAttempts
    BY DEF TypeOK, CountInv, CountAttempt
  <2>2. pc' \in PC /\ err' \in {"none"} \cup Codes
    BY DEF TypeOK, PC, Codes
  <2> QED BY <1>0, <2>1, <2>2 DEF TypeOK
<1>2. ErrInv'
  BY DEF ErrInv, Codes, PolicyCodes, ToolCodes
<1>3. CountInv'
  BY DEF TypeOK, CountInv
<1>4. GateInv'
  BY DEF CountInv, GateInv, Passed
<1>5. EndInv'
  BY DEF ErrInv, EndInv, AnswerMatchesRecord, AuditMatchesRecord, Last
<1> QED BY <1>1, <1>2, <1>3, <1>4, <1>5

(* The loop gives up: not retryable, or out of attempts or time.           *)
LEMMA LoopGivesUpInv ==
  ASSUME IInv, LoopGivesUp
  PROVE  IInv'
<1> USE DEF IInv, LoopGivesUp, GiveUpCode, Raise
<1>1. TypeOK'
  BY DEF TypeOK, PC, Codes, PolicyCodes, ToolCodes
<1>2. ErrInv'
  BY DEF ErrInv, Codes, PolicyCodes, ToolCodes
<1>3. CountInv'
  BY DEF TypeOK, CountInv
<1>4. GateInv'
  BY DEF CountInv, GateInv, Passed
<1>5. EndInv'
  BY DEF ErrInv, EndInv, AnswerMatchesRecord, AuditMatchesRecord, Last
<1> QED BY <1>1, <1>2, <1>3, <1>4, <1>5

(* A failure that could be retried leaves the loop as it is.               *)
LEMMA LoopRaisesInv ==
  ASSUME IInv, LoopRaises
  PROVE  IInv'
<1> USE DEF IInv, LoopRaises, Raise
<1>1. TypeOK'
  BY DEF TypeOK, PC, Codes, PolicyCodes, ToolCodes
<1>2. ErrInv'
  BY DEF ErrInv, Codes, PolicyCodes, ToolCodes
<1>3. CountInv'
  BY DEF TypeOK, CountInv
<1>4. GateInv'
  BY DEF CountInv, GateInv, Passed
<1>5. EndInv'
  BY DEF ErrInv, EndInv, AnswerMatchesRecord, AuditMatchesRecord, Last
<1> QED BY <1>1, <1>2, <1>3, <1>4, <1>5

(* A retry is counted by the loop.                                         *)
LEMMA LoopRetriesInv ==
  ASSUME IInv, LoopRetries
  PROVE  IInv'
<1> USE DEF IInv, LoopRetries, CanRetry, NextAttempt, Raise
<1>1. TypeOK'
  BY DEF TypeOK, PC, Codes, PolicyCodes, ToolCodes
<1>2. ErrInv'
  BY DEF ErrInv, Codes, PolicyCodes, ToolCodes
<1>3. CountInv'
  BY DEF TypeOK, CountInv
<1>4. GateInv'
  BY DEF CountInv, GateInv, Passed
<1>5. EndInv'
  BY DEF ErrInv, EndInv, AnswerMatchesRecord, AuditMatchesRecord, Last
<1> QED BY <1>1, <1>2, <1>3, <1>4, <1>5

(* A repair uses one proposal of the advisor per attempt.                  *)
LEMMA LoopRepairsInv ==
  ASSUME IInv, LoopRepairs
  PROVE  IInv'
<1> USE DEF IInv, LoopRepairs, CanRetry, NextAttempt, Repair, Raise
<1>1. TypeOK'
  <2>1. /\ proposals' \in 0 .. MaxAttempts /\ args' \in 0 .. MaxAttempts
        /\ loop' \in 1 .. MaxAttempts /\ latest' = latest /\ finished' = finished
    BY DEF TypeOK, CountInv
  <2>2. pc' \in PC /\ err' \in {"none"} \cup Codes
    BY DEF TypeOK, PC, Codes
  <2> QED BY <2>1, <2>2 DEF TypeOK
<1>2. ErrInv'
  BY DEF ErrInv, Codes, PolicyCodes, ToolCodes
<1>3. CountInv'
  <2>1. /\ pc = "loop" /\ conf' = conf /\ runs' = runs /\ latest' = latest
        /\ Len(runs) \in Nat /\ latest \in Nat /\ loop \in Nat
        /\ proposals \in Nat /\ args \in Nat
        /\ conf.read_only \/ conf.idempotent
    BY DEF TypeOK
  <2>2. CASE /\ pc' = "start_attempt" /\ loop' = loop + 1
             /\ proposals' = proposals + 1 /\ args' = proposals'
    BY <2>1, <2>2 DEF CountInv
  <2>3. CASE /\ pc' = "fail_t" /\ loop' = loop
             /\ \/ proposals' = proposals + 1 /\ args' = args
                \/ proposals' = proposals /\ args' = args
    BY <2>1, <2>3 DEF CountInv
  <2> QED BY <2>2, <2>3
<1>4. GateInv'
  BY DEF CountInv, GateInv, Passed
<1>5. EndInv'
  BY DEF ErrInv, EndInv, AnswerMatchesRecord, AuditMatchesRecord, Last
<1> QED BY <1>1, <1>2, <1>3, <1>4, <1>5

(* The last transition of a successful call.                               *)
LEMMA SucceededInv ==
  ASSUME IInv, Succeeded
  PROVE  IInv'
<1> USE DEF IInv, Succeeded
<1>0. "succeeded" \in States
  BY DEF States, Terminal
<1>1. TypeOK'
  <2>1. /\ trans' \in Seq(States) /\ attempts' = attempts
        /\ pc' \in PC /\ err' \in {"none"} \cup Codes
    BY <1>0, TransitionFacts DEF TypeOK, PC, Codes
  <2> QED BY <2>1 DEF TypeOK
<1>2. ErrInv'
  BY <1>0, TransitionFacts DEF ErrInv, Codes, PolicyCodes, ToolCodes
<1>3. CountInv'
  <2>1. /\ pc' \in {"copy", "fail_t"}
        /\ UNCHANGED << conf, latest, loop, runs, args, proposals >>
    BY <1>0, TransitionFacts
  <2> QED BY <2>1 DEF TypeOK, CountInv
<1>4. GateInv'
  BY <1>0, TransitionFacts DEF CountInv, GateInv, Passed
<1>5. EndInv'
  BY <1>0, TransitionFacts
     DEF ErrInv, EndInv, AnswerMatchesRecord, AuditMatchesRecord, Last
<1> QED BY <1>1, <1>2, <1>3, <1>4, <1>5

(* Every error ends in a terminal state other than success.                *)
LEMMA OutcomeFacts ==
  /\ \A c : Outcome(c) \in Terminal /\ Outcome(c) \in States
  /\ \A c \in Codes : Outcome(Reported(c)) = Outcome(c) /\ Reported(c) \in Codes
  /\ "ok" \notin Codes /\ "none" \notin Codes
BY DEF Outcome, Reported, Codes, PolicyCodes, ToolCodes, Terminal, States

(* fail() records the state the error calls for, or the call is answered   *)
(* with the failure of the store.                                          *)
LEMMA FailTransitionInv ==
  ASSUME IInv, FailTransition
  PROVE  IInv'
<1> USE DEF IInv, FailTransition, Goto, Respond
<1>0. /\ trans' \in Seq(States) /\ trans' # << >>
      /\ trans' = Append(trans, Outcome(err)) => trans'[Len(trans')] = Outcome(err)
  <2>1. /\ Append(trans, Outcome(err)) \in Seq(States)
        /\ Append(trans, Outcome(err)) # << >>
        /\ Append(trans, Outcome(err))[Len(Append(trans, Outcome(err)))] = Outcome(err)
    <3>1. trans \in Seq(States) /\ Outcome(err) \in States
      BY OutcomeFacts DEF TypeOK
    <3> QED BY <3>1, AppendFacts
  <2>2. trans \in Seq(States) /\ trans # << >>
    BY DEF TypeOK, EndInv
  <2>3. trans' = trans \/ trans' = Append(trans, Outcome(err))
    OBVIOUS
  <2> QED BY <2>1, <2>2, <2>3
<1>1. TypeOK'
  <2>1. /\ pc' \in PC /\ err' \in {"none"} \cup Codes
        /\ resp' \in {"none", "ok"} \cup Codes
    BY DEF TypeOK, PC, Codes
  <2> QED BY <1>0, <2>1 DEF TypeOK
<1>2. ErrInv'
  BY <1>0 DEF ErrInv, Codes, PolicyCodes, ToolCodes
<1>3. CountInv'
  BY <1>0 DEF TypeOK, CountInv
<1>4. GateInv'
  BY <1>0 DEF CountInv, GateInv, Passed
<1>5. EndInv'
  BY <1>0 DEF ErrInv, EndInv, AnswerMatchesRecord, AuditMatchesRecord, Last
<1> QED BY <1>1, <1>2, <1>3, <1>4, <1>5

(* fail() closes the attempt.                                              *)
LEMMA FailAttemptInv ==
  ASSUME IInv, FailAttempt
  PROVE  IInv'
<1> USE DEF IInv, FailAttempt, Goto, Respond
<1>0. attempts' \in Seq(Attempt)
  BY CompletedFacts, OutcomeFacts DEF TypeOK
<1>1. TypeOK'
  <2>1. /\ pc' \in PC /\ err' \in {"none"} \cup Codes
        /\ resp' \in {"none", "ok"} \cup Codes
    BY DEF TypeOK, PC, Codes
  <2> QED BY <1>0, <2>1 DEF TypeOK
<1>2. ErrInv'
  BY OutcomeFacts DEF ErrInv, Codes, PolicyCodes, ToolCodes
<1>3. CountInv'
  BY OutcomeFacts DEF TypeOK, CountInv
<1>4. GateInv'
  BY OutcomeFacts DEF CountInv, GateInv, Passed
<1>5. EndInv'
  BY OutcomeFacts
     DEF ErrInv, EndInv, AnswerMatchesRecord, AuditMatchesRecord, Last
<1> QED BY <1>1, <1>2, <1>3, <1>4, <1>5

(* The record is copied to the control plane.                              *)
LEMMA CopyRecordInv ==
  ASSUME IInv, CopyRecord
  PROVE  IInv'
<1> USE DEF IInv, CopyRecord, Goto
<1>1. TypeOK'
  <2>1. trans[Len(trans)] \in States
    BY DEF TypeOK, EndInv
  <2>2. durable' \in {"none"} \cup States
    BY <2>1 DEF TypeOK
  <2>3. pc' \in PC /\ err' \in {"none"} \cup Codes
    BY DEF TypeOK, PC
  <2> QED BY <2>2, <2>3 DEF TypeOK
<1>2. ErrInv'
  BY DEF ErrInv, Codes, PolicyCodes, ToolCodes
<1>3. CountInv'
  BY DEF TypeOK, CountInv
<1>4. GateInv'
  BY DEF CountInv, GateInv, Passed
<1>5. EndInv'
  BY DEF ErrInv, EndInv, AnswerMatchesRecord, AuditMatchesRecord, Last
<1> QED BY <1>1, <1>2, <1>3, <1>4, <1>5

(* The thread is given the state of the record.                            *)
LEMMA WriteAuditInv ==
  ASSUME IInv, WriteAudit
  PROVE  IInv'
<1> USE DEF IInv, WriteAudit, Goto
<1>0. writing' \in Terminal
  BY OutcomeFacts DEF Terminal
<1>1. TypeOK'
  <2>1. pc' \in PC /\ err' \in {"none"} \cup Codes
    BY DEF TypeOK, PC
  <2> QED BY <1>0, <2>1 DEF TypeOK
<1>2. ErrInv'
  BY DEF ErrInv, Codes, PolicyCodes, ToolCodes
<1>3. CountInv'
  BY DEF TypeOK, CountInv
<1>4. GateInv'
  BY DEF CountInv, GateInv, Passed
<1>5. EndInv'
  BY DEF ErrInv, EndInv, AnswerMatchesRecord, AuditMatchesRecord, Last
<1> QED BY <1>1, <1>2, <1>3, <1>4, <1>5

(* The first audit record of the call tells the state of the record.       *)
LEMMA AuditThreadInv ==
  ASSUME IInv, AuditThread
  PROVE  IInv'
<1> USE DEF IInv, AuditThread
<1>0. /\ audit = << >> /\ writing \in Terminal
      /\ audit' \in {<< >>, << writing >>}
      /\ writing = Last /\ resp = "none" /\ pc \in {"append", "cancelled"}
  BY DEF EndInv, TypeOK
<1>1. TypeOK'
  <2>1. << >> \in Seq(Terminal) /\ << writing >> \in Seq(Terminal)
    BY <1>0
  <2> QED BY <1>0, <2>1 DEF TypeOK
<1>2. ErrInv'
  BY DEF ErrInv
<1>3. CountInv'
  BY DEF CountInv
<1>4. GateInv'
  BY DEF GateInv, Passed
<1>5. EndInv'
  <2>1. AuditMatchesRecord'
    BY <1>0 DEF AuditMatchesRecord, Last
  <2> QED BY <1>0, <2>1 DEF EndInv, AnswerMatchesRecord, Last
<1> QED BY <1>1, <1>2, <1>3, <1>4, <1>5

(* The answer, the audit record and the stored record say the same.        *)
LEMMA AnswerInv ==
  ASSUME IInv, Answer
  PROVE  IInv'
<1> USE DEF IInv, Answer, Respond
<1>0. /\ pc' = "done"
      /\ \/ /\ err = "none" /\ resp' = "ok" /\ Last = "succeeded"
         \/ /\ err \in Codes /\ resp' = Reported(err)
            /\ resp' \in Codes /\ Outcome(resp') = Outcome(err)
            /\ Last = Outcome(err)
  BY OutcomeFacts DEF EndInv, TypeOK
<1>1. TypeOK'
  <2>1. resp' \in {"none", "ok"} \cup Codes /\ pc' \in PC /\ err' = err
    BY <1>0 DEF PC
  <2> QED BY <2>1 DEF TypeOK
<1>2. ErrInv'
  BY DEF ErrInv, Codes, PolicyCodes, ToolCodes
<1>3. CountInv'
  BY DEF TypeOK, CountInv
<1>4. GateInv'
  BY DEF CountInv, GateInv, Passed
<1>5. EndInv'
  <2>1. AuditMatchesRecord'
    BY <1>0, OutcomeFacts DEF AuditMatchesRecord, EndInv, Last
  <2>2. AnswerMatchesRecord'
    BY <1>0, OutcomeFacts DEF AnswerMatchesRecord, EndInv, Last
  <2> QED BY <1>0, <2>1, <2>2 DEF EndInv, Last
<1> QED BY <1>1, <1>2, <1>3, <1>4, <1>5

(* A cancelled call is not answered; its audit record may follow.          *)
LEMMA CancelInv ==
  ASSUME IInv, Cancel
  PROVE  IInv'
<1> USE DEF IInv, Cancel
<1>1. TypeOK'
  BY DEF TypeOK, PC, Codes, PolicyCodes, ToolCodes
<1>2. ErrInv'
  BY DEF ErrInv, Codes, PolicyCodes, ToolCodes
<1>3. CountInv'
  BY DEF TypeOK, CountInv
<1>4. GateInv'
  BY DEF CountInv, GateInv, Passed
<1>5. EndInv'
  BY DEF ErrInv, EndInv, AnswerMatchesRecord, AuditMatchesRecord, Last
<1> QED BY <1>1, <1>2, <1>3, <1>4, <1>5

(* Nothing has been stored, run or answered yet.                           *)
LEMMA InitInv == Init => IInv
BY DEF Init, IInv, TypeOK, ErrInv, CountInv, GateInv, EndInv, AnswerMatchesRecord,
       AuditMatchesRecord, PC

(* Every step preserves the invariant.                                     *)
LEMMA NextInv == IInv /\ [Next]_vars => IInv'
<1> SUFFICES ASSUME IInv, [Next]_vars PROVE IInv'
  OBVIOUS
<1>1. CASE Next
  BY <1>1, CreateCallInv, ControlPlaneInv, ValidateInv, ValidatedInv, PolicyInv,
     PolicyCheckedInv, AwaitingApprovalInv, SubmitApprovalInv,
     CreateApprovalInv, OperatorDecidesInv, WaitEndsInv, ResolveApprovalInv,
     DeniedInv, DeniedAttemptInv, StartAttemptInv, ExecutingInv, RecheckInv,
     RunToolInv, AttemptSucceededInv, AttemptFailedInv, LoopGivesUpInv,
     LoopRaisesInv, LoopRetriesInv, LoopRepairsInv, SucceededInv,
     FailTransitionInv, FailAttemptInv, CopyRecordInv, WriteAuditInv,
     AuditThreadInv, AnswerInv, CancelInv
     DEF Next, Proceed
<1>2. CASE UNCHANGED vars
  BY <1>2 DEF vars, IInv, TypeOK, ErrInv, CountInv, GateInv, Passed, EndInv,
              AnswerMatchesRecord, AuditMatchesRecord, Last
<1> QED BY <1>1, <1>2

-----------------------------------------------------------------------------
(* The invariant of a reliable state store                                 *)

(* An attempt that is repeated was counted.                                *)
CountedInv ==
  pc \in {"loop", "start_attempt"} => latest > 1

(* The arguments about to run are covered: the first attempt runs what the *)
(* verdict or the operator covered, every later one is checked again.      *)
CoveredInv ==
  /\ pc \in {"run", "resolve_approval"} => args \in allowed
  /\ pc = "t_executing" /\ latest = 1 => args \in allowed
  /\ ExecutedIsAllowed

(* No recorded attempt has a number above the counter, and a new one finds *)
(* the counter above all of them: attempt numbers are distinct.            *)
NumberInv ==
  /\ \A k \in DOMAIN attempts : attempts[k].attempt <= latest
  /\ pc \in {"loop", "start_attempt"} =>
       \A k \in DOMAIN attempts : attempts[k].attempt < latest
  /\ DistinctAttempts

(* A record in a terminal state belongs to a call on its way out; where    *)
(* the denial is written twice, the error is the one that denied it.       *)
FinalInv ==
  trans # << >> /\ Last \in Terminal =>
    \/ pc \in {"fail_f", "copy", "audit", "append", "done", "cancelled"}
    \/ pc \in {"f_denied", "fail_t"} /\ err \in PolicyCodes /\ Last = "denied"

(* A call that ended has its audit record, unless the control plane        *)
(* refused it on arrival.                                                  *)
AuditedInv ==
  "audit" \notin Faults =>
    /\ pc = "done" => Len(audit) = 1 \/ trans = << "received" >>
    /\ pc = "append" /\ writing = "none" => Len(audit) = 1

(* A call that ended was answered, and the control plane has its last      *)
(* state.                                                                  *)
CopiedInv ==
  /\ pc = "done" => resp # "none"
  /\ conf.control /\ "control" \notin Faults /\ pc \in {"audit", "append", "done"} =>
       durable = Last

RInv == CountedInv /\ CoveredInv /\ NumberInv /\ FinalInv /\ AuditedInv /\ CopiedInv

(* One lemma per part. The counter leaves 1 before the loop is entered:    *)
(* only a failing store enters it uncounted.                               *)
LEMMA CountedNext ==
  ASSUME "store" \notin Faults, IInv, CountedInv, [Next]_vars
  PROVE  CountedInv'
<1> USE DEF IInv, TypeOK, CountedInv
<1>1. CASE CreateCall \/ ControlPlane \/ Validate \/ Validated
  BY <1>1 DEF CreateCall, ControlPlane, Validate, Validated, Repair, Transition,
     Goto, Raise, Respond
<1>2. CASE Policy \/ AwaitingApproval \/ SubmitApproval \/ CreateApproval \/
         OperatorDecides \/ WaitEnds \/ ResolveApproval \/ Denied \/
         DeniedAttempt
  BY <1>2 DEF Policy, AwaitingApproval, SubmitApproval, CreateApproval,
     OperatorDecides, WaitEnds, ResolveApproval, Denied, DeniedAttempt,
     Transition, FinishAttempt, Goto, Raise
<1>3. CASE PolicyChecked
  BY <1>3, PolicyCheckedFacts DEF PolicyChecked
<1>4. CASE StartAttempt \/ Executing \/ Recheck \/ RunTool \/ AttemptSucceeded
         \/ AttemptFailed
  BY <1>4 DEF StartAttempt, Executing, Recheck, RunTool, AttemptSucceeded,
     AttemptFailed, Transition, FinishAttempt, CountAttempt, NeedsRecheck, Goto,
     Raise
<1>5. CASE LoopGivesUp \/ LoopRaises \/ LoopRetries \/ LoopRepairs
  BY <1>5 DEF LoopGivesUp, LoopRaises, LoopRetries, LoopRepairs, Repair,
     NextAttempt, Raise
<1>6. CASE Succeeded \/ FailTransition \/ FailAttempt \/ CopyRecord \/
         WriteAudit \/ AuditThread \/ Answer \/ Cancel
  BY <1>6 DEF Succeeded, FailTransition, FailAttempt, CopyRecord, WriteAudit,
     AuditThread, Answer, Cancel, Transition, Goto, Raise, Respond
<1>7. CASE UNCHANGED vars
  BY <1>7 DEF vars
<1> QED BY <1>1, <1>2, <1>3, <1>4, <1>5, <1>6, <1>7 DEF Next, Proceed

(* A repaired argument set is checked again, since its number is above 1.  *)
LEMMA CoveredNext ==
  ASSUME "store" \notin Faults, IInv, CountedInv, CoveredInv, [Next]_vars
  PROVE  CoveredInv'
<1> USE DEF IInv, TypeOK, CountInv, GateInv, CountedInv, CoveredInv,
            ExecutedIsAllowed
<1>1. CASE CreateCall \/ ControlPlane \/ Validate \/ Validated
  BY <1>1 DEF CreateCall, ControlPlane, Validate, Validated, Repair, Transition,
     Goto, Raise, Respond
<1>2. CASE Policy \/ AwaitingApproval \/ SubmitApproval \/ CreateApproval \/
         OperatorDecides \/ WaitEnds \/ ResolveApproval \/ Denied \/
         DeniedAttempt
  BY <1>2 DEF Policy, AwaitingApproval, SubmitApproval, CreateApproval,
     OperatorDecides, WaitEnds, ResolveApproval, Denied, DeniedAttempt,
     Transition, FinishAttempt, Goto, Raise
<1>3. CASE PolicyChecked
  BY <1>3, PolicyCheckedFacts DEF PolicyChecked
<1>4. CASE StartAttempt \/ Executing \/ AttemptSucceeded \/ AttemptFailed
  BY <1>4 DEF StartAttempt, Executing, AttemptSucceeded, AttemptFailed,
     Transition, FinishAttempt, CountAttempt, NeedsRecheck, Goto, Raise
<1>5. CASE Recheck
  BY <1>5 DEF Recheck, Goto, Raise
<1>6. CASE RunTool
  BY <1>6 DEF RunTool, CountAttempt, Goto, Raise
<1>7. CASE LoopGivesUp \/ LoopRaises \/ LoopRetries \/ LoopRepairs
  BY <1>7 DEF LoopGivesUp, LoopRaises, LoopRetries, LoopRepairs, Repair,
     NextAttempt, Raise
<1>8. CASE Succeeded \/ FailTransition \/ FailAttempt \/ CopyRecord \/
         WriteAudit \/ AuditThread \/ Answer \/ Cancel
  BY <1>8 DEF Succeeded, FailTransition, FailAttempt, CopyRecord, WriteAudit,
     AuditThread, Answer, Cancel, Transition, Goto, Raise, Respond
<1>9. CASE UNCHANGED vars
  BY <1>9 DEF vars
<1> QED BY <1>1, <1>2, <1>3, <1>4, <1>5, <1>6, <1>7, <1>8, <1>9 DEF Next,
        Proceed

(* Attempt numbers are numbers.                                            *)
LEMMA AttemptNumbers ==
  ASSUME TypeOK
  PROVE  \A k \in DOMAIN attempts : attempts[k].attempt \in Nat
<1>1. \A k \in DOMAIN attempts : attempts[k] \in Attempt
  BY DEF TypeOK
<1> QED BY <1>1 DEF Attempt

(* A step that adds no attempt and does not lower the counter.             *)
LEMMA Renumbered ==
  ASSUME TypeOK, NumberInv,
         attempts' \in Seq(Attempt), DOMAIN attempts' = DOMAIN attempts,
         \A k \in DOMAIN attempts : attempts'[k].attempt = attempts[k].attempt,
         latest' \in Nat, latest' >= latest,
         pc' \in {"loop", "start_attempt"} => latest' > latest
  PROVE  NumberInv'
<1>1. /\ \A k \in DOMAIN attempts : attempts[k].attempt \in Nat
      /\ latest \in Nat
  BY AttemptNumbers DEF TypeOK
<1>2. \A k \in DOMAIN attempts' : attempts'[k].attempt <= latest'
  BY <1>1 DEF NumberInv
<1>3. pc' \in {"loop", "start_attempt"} =>
        \A k \in DOMAIN attempts' : attempts'[k].attempt < latest'
  BY <1>1 DEF NumberInv
<1>4. DistinctAttempts'
  BY DEF NumberInv, DistinctAttempts
<1> QED BY <1>2, <1>3, <1>4 DEF NumberInv

(* StartAttempt is the one step that adds an attempt, and the counter is   *)
(* above all the others there.                                             *)
LEMMA NumberNext ==
  ASSUME "store" \notin Faults, IInv, CountedInv, NumberInv, [Next]_vars
  PROVE  NumberInv'
<1> USE DEF IInv, EndInv, NumberInv, DistinctAttempts
<1>1. CASE ControlPlane \/ Validate \/ Validated
  BY <1>1 DEF ControlPlane, Validate, Validated, Repair, Transition, Goto,
     Raise, Respond
<1>2. CASE CreateCall
  <2>1. /\ attempts' = << [attempt |-> 1, outcome |-> "none"] >>
        /\ pc' = "control_plane" /\ latest' = 1
    BY <1>2 DEF CreateCall, Goto, CountInv
  <2>2. DOMAIN attempts' = {1} /\ attempts'[1].attempt = 1
    BY <2>1
  <2> QED BY <2>1, <2>2
<1>3. CASE Policy \/ AwaitingApproval \/ SubmitApproval \/ CreateApproval \/
         OperatorDecides \/ WaitEnds \/ ResolveApproval \/ Denied
  BY <1>3 DEF Policy, AwaitingApproval, SubmitApproval, CreateApproval,
     OperatorDecides, WaitEnds, ResolveApproval, Denied, Transition,
     FinishAttempt, Goto, Raise
<1>4. CASE PolicyChecked
  BY <1>4, PolicyCheckedFacts DEF PolicyChecked
<1>5. CASE DeniedAttempt
  <2>1. /\ attempts' \in Seq(Attempt) /\ DOMAIN attempts' = DOMAIN attempts
        /\ \A k \in DOMAIN attempts : attempts'[k].attempt = attempts[k].attempt
    BY <1>5, CompletedFacts DEF DeniedAttempt, FinishAttempt, TypeOK, Terminal
  <2> QED
    BY <1>5, <2>1, Renumbered
       DEF DeniedAttempt, FinishAttempt, CountAttempt, Goto, Raise, Respond,
           TypeOK
<1>6. CASE Executing \/ Recheck
  BY <1>6 DEF Executing, Recheck, Transition, FinishAttempt, CountAttempt,
     NeedsRecheck, Goto, Raise
<1>7. CASE StartAttempt
  <2>1. /\ latest > 1
        /\ attempts' = Append(attempts, [attempt |-> latest, outcome |-> "none"])
    BY <1>7 DEF StartAttempt, CountedInv
  <2>2. /\ DOMAIN attempts = 1 .. Len(attempts) /\ Len(attempts) \in Nat
        /\ DOMAIN attempts' = 1 .. Len(attempts) + 1
        /\ attempts'[Len(attempts) + 1].attempt = latest
        /\ \A k \in DOMAIN attempts : /\ attempts'[k] = attempts[k]
                                      /\ attempts[k].attempt \in Nat
    <3>1. attempts \in Seq(Attempt)
      BY DEF TypeOK
    <3>2. DOMAIN attempts = 1 .. Len(attempts) /\ Len(attempts) \in Nat
      BY <3>1
    <3>3. /\ DOMAIN attempts' = 1 .. Len(attempts) + 1
          /\ attempts'[Len(attempts) + 1] = [attempt |-> latest, outcome |-> "none"]
          /\ \A k \in DOMAIN attempts : attempts'[k] = attempts[k]
      BY <2>1, <3>1, <3>2
    <3> QED BY <3>2, <3>3, AttemptNumbers
  <2>3. pc' = "t_executing" /\ latest' = latest /\ latest \in Nat
    BY <1>7 DEF StartAttempt, Goto, TypeOK
  <2>4. \A k \in DOMAIN attempts : attempts[k].attempt < latest
    BY <1>7 DEF StartAttempt
  <2> QED BY <2>2, <2>3, <2>4
<1>8. CASE RunTool
  BY <1>8, Renumbered DEF RunTool, CountAttempt, Goto, Raise, TypeOK
<1>9. CASE AttemptSucceeded
  <2>1. /\ attempts' \in Seq(Attempt) /\ DOMAIN attempts' = DOMAIN attempts
        /\ \A k \in DOMAIN attempts : attempts'[k].attempt = attempts[k].attempt
    BY <1>9, CompletedFacts
       DEF AttemptSucceeded, FinishAttempt, TypeOK, Terminal
  <2> QED
    BY <1>9, <2>1, Renumbered
       DEF AttemptSucceeded, FinishAttempt, CountAttempt, Goto, Raise, Respond,
           TypeOK
<1>10. CASE AttemptFailed
  <2>1. /\ attempts' \in Seq(Attempt) /\ DOMAIN attempts' = DOMAIN attempts
        /\ \A k \in DOMAIN attempts : attempts'[k].attempt = attempts[k].attempt
    BY <1>10, CompletedFacts DEF AttemptFailed, FinishAttempt, TypeOK, Terminal
  <2> QED
    BY <1>10, <2>1, Renumbered
       DEF AttemptFailed, FinishAttempt, CountAttempt, Goto, Raise, Respond,
           TypeOK
<1>11. CASE LoopGivesUp \/ LoopRaises \/ LoopRetries \/ LoopRepairs
  BY <1>11 DEF LoopGivesUp, LoopRaises, LoopRetries, LoopRepairs, Repair,
     NextAttempt, Raise
<1>12. CASE Succeeded \/ FailTransition \/ CopyRecord \/ WriteAudit \/
         AuditThread \/ Answer \/ Cancel
  BY <1>12 DEF Succeeded, FailTransition, CopyRecord, WriteAudit,
     AuditThread, Answer, Cancel,
     Transition, Goto, Raise, Respond
<1>13. CASE FailAttempt
  <2>1. /\ attempts' \in Seq(Attempt) /\ DOMAIN attempts' = DOMAIN attempts
        /\ \A k \in DOMAIN attempts : attempts'[k].attempt = attempts[k].attempt
    BY <1>13, CompletedFacts, OutcomeFacts DEF FailAttempt, TypeOK, Terminal
  <2> QED
    BY <1>13, <2>1, Renumbered
       DEF FailAttempt, CountAttempt, Goto, Raise, Respond, TypeOK
<1>14. CASE UNCHANGED vars
  BY <1>14 DEF vars
<1> QED BY <1>1, <1>2, <1>3, <1>4, <1>5, <1>6, <1>7, <1>8, <1>9, <1>10, <1>11,
        <1>12, <1>13, <1>14 DEF Next, Proceed

(* A transition after a terminal state repeats the denial.                 *)
LEMMA FinalNext ==
  ASSUME "store" \notin Faults, IInv, FinalInv, [Next]_vars
  PROVE  FinalInv'
<1> USE DEF IInv, TypeOK, ErrInv, EndInv, FinalInv, Last, Terminal
<1>1. CASE CreateCall \/ ControlPlane \/ Validate
  BY <1>1 DEF CreateCall, ControlPlane, Validate, Repair, Transition, Goto,
     Raise, Respond
<1>2. CASE Validated
  BY <1>2, AppendFacts DEF Validated, Transition, Goto, Raise
<1>3. CASE Policy \/ SubmitApproval \/ CreateApproval \/ OperatorDecides \/
         WaitEnds \/ ResolveApproval \/ DeniedAttempt
  BY <1>3 DEF Policy, SubmitApproval, CreateApproval, OperatorDecides, WaitEnds,
     ResolveApproval, DeniedAttempt, Transition, FinishAttempt, Goto, Raise
<1>4. CASE PolicyChecked
  BY <1>4, PolicyCheckedFacts, AppendFacts DEF PolicyChecked
<1>5. CASE AwaitingApproval
  BY <1>5, AppendFacts DEF AwaitingApproval, Transition, Goto, Raise
<1>6. CASE Denied
  BY <1>6, AppendFacts DEF Denied, Transition, Goto, Raise
<1>7. CASE StartAttempt \/ Recheck \/ RunTool \/ AttemptSucceeded \/
         AttemptFailed
  BY <1>7 DEF StartAttempt, Recheck, RunTool, AttemptSucceeded, AttemptFailed,
     Transition, FinishAttempt, CountAttempt, NeedsRecheck, Goto, Raise
<1>8. CASE Executing
  BY <1>8, AppendFacts DEF Executing, Transition, NeedsRecheck, Goto, Raise
<1>9. CASE LoopGivesUp \/ LoopRaises \/ LoopRetries \/ LoopRepairs
  BY <1>9 DEF LoopGivesUp, LoopRaises, LoopRetries, LoopRepairs, Repair,
     NextAttempt, Raise
<1>10. CASE FailTransition \/ FailAttempt \/ CopyRecord \/ WriteAudit \/
         AuditThread \/ Answer \/ Cancel
  BY <1>10 DEF FailTransition, FailAttempt, CopyRecord, WriteAudit,
     AuditThread, Answer, Cancel,
     Transition, Goto, Raise, Respond
<1>11. CASE Succeeded
  BY <1>11, AppendFacts DEF Succeeded, Transition, Goto, Raise
<1>12. CASE UNCHANGED vars
  BY <1>12 DEF vars
<1> QED BY <1>1, <1>2, <1>3, <1>4, <1>5, <1>6, <1>7, <1>8, <1>9, <1>10, <1>11,
        <1>12 DEF Next, Proceed

(* Only Answer and the refusal of the control plane end a call.            *)
LEMMA AuditedNext ==
  ASSUME "store" \notin Faults, IInv, AuditedInv, [Next]_vars
  PROVE  AuditedInv'
<1> USE DEF IInv, TypeOK, EndInv, AuditedInv
<1>1. CASE CreateCall \/ ControlPlane \/ Validate \/ Validated
  BY <1>1 DEF CreateCall, ControlPlane, Validate, Validated, Repair, Transition,
     Goto, Raise, Respond
<1>2. CASE Policy \/ AwaitingApproval \/ SubmitApproval \/ CreateApproval \/
         OperatorDecides \/ WaitEnds \/ ResolveApproval \/ Denied \/
         DeniedAttempt
  BY <1>2 DEF Policy, AwaitingApproval, SubmitApproval, CreateApproval,
     OperatorDecides, WaitEnds, ResolveApproval, Denied, DeniedAttempt,
     Transition, FinishAttempt, Goto, Raise
<1>3. CASE PolicyChecked
  BY <1>3, PolicyCheckedFacts DEF PolicyChecked
<1>4. CASE StartAttempt \/ Executing \/ Recheck \/ RunTool \/ AttemptSucceeded
         \/ AttemptFailed
  BY <1>4 DEF StartAttempt, Executing, Recheck, RunTool, AttemptSucceeded,
     AttemptFailed, Transition, FinishAttempt, CountAttempt, NeedsRecheck, Goto,
     Raise
<1>5. CASE LoopGivesUp \/ LoopRaises \/ LoopRetries \/ LoopRepairs
  BY <1>5 DEF LoopGivesUp, LoopRaises, LoopRetries, LoopRepairs, Repair,
     NextAttempt, Raise
<1>6. CASE Succeeded \/ FailTransition \/ FailAttempt \/ CopyRecord \/ Cancel
  BY <1>6 DEF Succeeded, FailTransition, FailAttempt, CopyRecord, Cancel,
     Transition, Goto, Raise, Respond
<1>7. CASE WriteAudit \/ Answer
  BY <1>7, OutcomeFacts DEF WriteAudit, Answer, Goto, Respond, Terminal
<1>9. CASE AuditThread
  <2>1. audit = << >>
    BY <1>9 DEF AuditThread
  <2>2. \A x : Len(Append(audit, x)) = 1
    BY <2>1
  <2> QED BY <1>9, <2>2 DEF AuditThread
<1>8. CASE UNCHANGED vars
  BY <1>8 DEF vars
<1> QED BY <1>1, <1>2, <1>3, <1>4, <1>5, <1>6, <1>7, <1>8, <1>9 DEF Next, Proceed

(* CopyRecord runs before WriteAudit and nothing is recorded after it.     *)
LEMMA CopiedNext ==
  ASSUME "store" \notin Faults, IInv, NumberInv, CopiedInv, [Next]_vars
  PROVE  CopiedInv'
<1> USE DEF IInv, EndInv, NumberInv, CopiedInv, Last
<1>1. CASE CreateCall \/ ControlPlane \/ Validate \/ Validated
  BY <1>1 DEF CreateCall, ControlPlane, Validate, Validated, Repair, Transition,
     Goto, Raise, Respond
<1>2. CASE Policy \/ AwaitingApproval \/ SubmitApproval \/ CreateApproval \/
         OperatorDecides \/ WaitEnds \/ ResolveApproval \/ Denied \/
         DeniedAttempt
  BY <1>2 DEF Policy, AwaitingApproval, SubmitApproval, CreateApproval,
     OperatorDecides, WaitEnds, ResolveApproval, Denied, DeniedAttempt,
     Transition, FinishAttempt, Goto, Raise
<1>3. CASE PolicyChecked
  BY <1>3, PolicyCheckedFacts DEF PolicyChecked
<1>4. CASE StartAttempt \/ Executing \/ Recheck \/ RunTool \/ AttemptSucceeded
         \/ AttemptFailed
  BY <1>4 DEF StartAttempt, Executing, Recheck, RunTool, AttemptSucceeded,
     AttemptFailed, Transition, FinishAttempt, CountAttempt, NeedsRecheck, Goto,
     Raise
<1>5. CASE LoopGivesUp \/ LoopRaises \/ LoopRetries \/ LoopRepairs
  BY <1>5 DEF LoopGivesUp, LoopRaises, LoopRetries, LoopRepairs, Repair,
     NextAttempt, Raise
<1>6. CASE Succeeded \/ FailTransition \/ FailAttempt \/ CopyRecord \/ Cancel
  BY <1>6 DEF Succeeded, FailTransition, FailAttempt, CopyRecord, Cancel,
     Transition, Goto, Raise, Respond
<1>7. CASE WriteAudit \/ AuditThread \/ Answer
  BY <1>7, OutcomeFacts DEF TypeOK, WriteAudit, AuditThread, Answer, Goto, Respond
<1>8. CASE UNCHANGED vars
  BY <1>8 DEF vars
<1> QED BY <1>1, <1>2, <1>3, <1>4, <1>5, <1>6, <1>7, <1>8 DEF Next, Proceed

(* Every step of a gateway with a reliable store preserves its invariant.  *)
LEMMA ReliableNext ==
  ASSUME "store" \notin Faults, IInv, RInv, [Next]_vars
  PROVE  RInv'
BY CountedNext, CoveredNext, NumberNext, FinalNext, AuditedNext, CopiedNext
   DEF RInv

(* It holds at the start.                                                  *)
LEMMA ReliableInit == Init => RInv
BY DEF Init, RInv, CountedInv, CoveredInv, ExecutedIsAllowed, NumberInv, DistinctAttempts,
       FinalInv, AuditedInv, CopiedInv

-----------------------------------------------------------------------------
(* Whatever fails                                                          *)

(* The inductive invariant of execute_tool_call and the repair loop.       *)
THEOREM Invariance == Spec => []IInv
BY InitInv, NextInv, PTL DEF Spec

(* Type correctness: in particular the attempts of the repair loop, the    *)
(* counters of execute_attempt and the advisor's proposals stay within     *)
(* BackoffPolicy.max_attempts, whatever fails.                             *)
THEOREM TypeCorrect == Spec => []TypeOK
<1>1. IInv => TypeOK
  BY DEF IInv
<1> QED BY <1>1, Invariance, PTL

(* The tool runs only after the first verdict let the call pass.           *)
THEOREM Gate == Spec => []GateHolds
<1>1. IInv => GateHolds
  BY DEF IInv, GateInv, Passed, GateHolds
<1> QED BY <1>1, Invariance, PTL

(* _can_retry: a mutation that is not declared idempotent is invoked at    *)
(* most once.                                                              *)
THEOREM RunsOnce == Spec => []NonIdempotentRunsOnce
<1>1. IInv => NonIdempotentRunsOnce
  BY DEF IInv, CountInv, NonIdempotentRunsOnce
<1> QED BY <1>1, Invariance, PTL

(* fail() and the success path: the stored record agrees with the answer.  *)
THEOREM TruthfulAnswer == Spec => []AnswerMatchesRecord
<1>1. IInv => AnswerMatchesRecord
  BY DEF IInv, EndInv
<1> QED BY <1>1, Invariance, PTL

(* write_audit: at most one audit record, and it tells the state of the    *)
(* stored record and what the client was told, also when the call is       *)
(* cancelled while the thread of the audit log writes it.                  *)
THEOREM TruthfulAudit == Spec => []AuditMatchesRecord
<1>1. IInv => AuditMatchesRecord
  BY DEF IInv, EndInv
<1> QED BY <1>1, Invariance, PTL

-----------------------------------------------------------------------------
(* With a state store that does not fail                                   *)

(* The second invariant, which a failing state store breaks: see the run   *)
(* call_recheck.                                                           *)
THEOREM ReliableInvariance ==
  ASSUME "store" \notin Faults
  PROVE  Spec => []RInv
<1>1. IInv /\ RInv /\ [Next]_vars => RInv'
  BY ReliableNext
<1> QED BY <1>1, ReliableInit, Invariance, PTL DEF Spec

(* execute_attempt: every argument set the tool was invoked with had been  *)
(* allowed or approved, the repaired ones included.                        *)
THEOREM PolicyCoversRuns ==
  ASSUME "store" \notin Faults
  PROVE  Spec => []ExecutedIsAllowed
<1>1. RInv => ExecutedIsAllowed
  BY DEF RInv, CoveredInv
<1> QED BY <1>1, ReliableInvariance, PTL

(* write_audit: an answered call in a terminal state has an audit record,  *)
(* also when the control plane fails.                                      *)
THEOREM Audited ==
  ASSUME "store" \notin Faults, "audit" \notin Faults
  PROVE  Spec => []CompletedIsAudited
<1>1. IInv /\ RInv => CompletedIsAudited
  <2> SUFFICES ASSUME IInv, RInv, resp # "none", trans # << >>,
                      trans[Len(trans)] \in Terminal
               PROVE  Len(audit) = 1
    BY DEF CompletedIsAudited
  <2>1. pc = "done"
    BY DEF IInv, EndInv
  <2>2. trans # << "received" >>
    <3>1. SUFFICES ASSUME trans = << "received" >> PROVE FALSE
      OBVIOUS
    <3>2. Len(trans) = 1 /\ trans[1] = "received"
      BY <3>1
    <3> QED BY <3>2 DEF Terminal
  <2> QED BY <2>1, <2>2 DEF RInv, AuditedInv
<1> QED BY <1>1, Invariance, ReliableInvariance, PTL

(* write_audit: the row of the control plane agrees with the stored record *)
(* of an answered call, also when the audit log fails.                     *)
THEOREM DurableCopy ==
  ASSUME "store" \notin Faults, "control" \notin Faults
  PROVE  Spec => []DurableAgrees
<1>1. IInv /\ RInv => DurableAgrees
  BY DEF IInv, EndInv, RInv, CopiedInv, DurableAgrees, Last
<1> QED BY <1>1, Invariance, ReliableInvariance, PTL

(* A terminal state of the record is never left.                           *)
THEOREM TerminalStays ==
  ASSUME "store" \notin Faults
  PROVE  Spec => TerminalIsFinal
<1>1. IInv /\ RInv /\ [Next]_vars =>
        [trans # << >> /\ trans[Len(trans)] \in Terminal
           => trans'[Len(trans')] = trans[Len(trans)]]_trans
  <2> SUFFICES ASSUME IInv, RInv, [Next]_vars, trans' # trans, trans # << >>,
                      trans[Len(trans)] \in Terminal
               PROVE  trans'[Len(trans')] = trans[Len(trans)]
    OBVIOUS
  <2>1. \/ pc \in {"fail_f", "copy", "audit", "append", "done", "cancelled"}
        \/ pc \in {"f_denied", "fail_t"} /\ err \in PolicyCodes /\ Last = "denied"
    BY DEF RInv, FinalInv, Last
  <2>2. FailTransition /\ pc = "fail_t"
    BY <2>1
       DEF Next, Proceed, vars, CreateCall, ControlPlane, Validate, Validated,
           Policy,
         PolicyChecked, AwaitingApproval, SubmitApproval, CreateApproval, WaitEnds,
         OperatorDecides, ResolveApproval, Denied, DeniedAttempt, StartAttempt, Executing,
         Recheck, RunTool, AttemptSucceeded, AttemptFailed, LoopGivesUp, LoopRaises,
         LoopRetries, LoopRepairs, Succeeded, FailTransition, FailAttempt, CopyRecord,
         WriteAudit, AuditThread, Answer, Cancel, FinishAttempt
  <2>3. trans' = Append(trans, "denied") /\ Last = "denied"
    BY <2>1, <2>2 DEF FailTransition, Outcome
  <2>4. "denied" \in States /\ trans \in Seq(States)
    BY DEF IInv, TypeOK, States, Terminal
  <2> QED BY <2>3, <2>4, AppendFacts DEF Last
<1> QED BY <1>1, Invariance, ReliableInvariance, PTL DEF Spec, TerminalIsFinal

=============================================================================

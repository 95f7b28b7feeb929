------------------------ MODULE ApprovalQueueProofs ------------------------
(***************************************************************************)
(* Whose decision a call acts on, and who can overwrite a decision, for    *)
(* any number of operators and any combination of faults.                  *)
(*                                                                         *)
(* EntryInv: what the key holds was written by the operator it names.      *)
(* PendingInv: the request is pending only until a decision is recorded;   *)
(* it is submitted once, before any operator can have seen it.  LateInv:   *)
(* an operator who was started when a decision had been recorded never     *)
(* gets past the list of pending requests.                                 *)
(***************************************************************************)
EXTENDS ApprovalQueue, TLAPS

EntryInv ==
  entry \in Decided =>
    /\ wish[entry.by] = entry.decision
    /\ op[entry.by] \in {"recorded", "failed"}

PendingInv ==
  /\ waiter = "submitting" =>
       /\ entry = Absent
       /\ \A o \in Operators : op[o] \notin {"deciding", "read", "recorded"}
  /\ (\E o \in Operators : op[o] = "recorded") => entry # Pending

LateInv ==
  \A p \in Operators : \A o \in known[p] :
    op[o] = "recorded" /\ op[p] \notin {"idle", "deciding", "read"}

IInv == TypeOK /\ EntryInv /\ OutcomeWasDecided /\ PendingInv /\ LateInv

-----------------------------------------------------------------------------

LEMMA EntryFacts ==
  /\ Absent \notin Decided /\ Pending \notin Decided /\ Absent # Pending
  /\ \A e \in Decided : e.by \in Operators /\ e.decision \in Decisions
BY DEF Absent, Pending, Decided, Decisions

LEMMA UpdatedFacts ==
  ASSUME TypeOK, NEW o \in Operators
  PROVE  /\ updated(o) \in Decided
         /\ updated(o).by = o /\ updated(o).decision = wish[o]
BY DEF TypeOK, updated, Decided

LEMMA TypeNext ==
  ASSUME TypeOK, [Next]_vars
  PROVE  TypeOK'
<1> USE DEF TypeOK
<1>1. CASE submit
  BY <1>1 DEF submit, Over
<1>2. CASE poll
  BY <1>2, EntryFacts DEF poll, Over, Decisions
<1>3. CASE timeout \/ cancel
  BY <1>3 DEF timeout, cancel, Over
<1>4. CASE expire
  BY <1>4 DEF expire
<1>5. ASSUME NEW o \in Operators, start(o) PROVE TypeOK'
  <2>1. RecordedBy \in SUBSET Operators
    BY DEF RecordedBy
  <2>2. (waiter \in Over) \in BOOLEAN
    OBVIOUS
  <2> QED BY <1>5, <2>1, <2>2 DEF start
<1>6. ASSUME NEW o \in Operators, list_pending(o) \/ decide_get(o) PROVE TypeOK'
  BY <1>6 DEF list_pending, decide_get, Fails
<1>7. ASSUME NEW o \in Operators, decide_set(o) PROVE TypeOK'
  BY <1>7, UpdatedFacts DEF decide_set, Fails
<1>8. CASE UNCHANGED vars
  BY <1>8 DEF vars
<1> QED BY <1>1, <1>2, <1>3, <1>4, <1>5, <1>6, <1>7, <1>8 DEF Next

LEMMA InitInv == Init => IInv
BY EntryFacts, QueueAssumption
   DEF Init, IInv, TypeOK, EntryInv, OutcomeWasDecided, PendingInv, LateInv, Decisions

LEMMA NextInv == IInv /\ [Next]_vars => IInv'
<1> SUFFICES ASSUME IInv, [Next]_vars PROVE IInv'
  OBVIOUS
<1> USE DEF IInv
<1>0. TypeOK'
  BY TypeNext
<1>1. CASE submit
  BY <1>0, <1>1, EntryFacts
     DEF submit, EntryInv, OutcomeWasDecided, PendingInv, LateInv, Decisions
<1>2. CASE poll
  <2>1. OutcomeWasDecided'
    BY <1>2, EntryFacts DEF poll, EntryInv, OutcomeWasDecided, Decisions
  <2> QED BY <1>0, <1>2, <2>1, EntryFacts DEF poll, EntryInv, PendingInv, LateInv, Decisions
<1>3. CASE timeout \/ cancel
  BY <1>0, <1>3 DEF timeout, cancel, EntryInv, OutcomeWasDecided, PendingInv, LateInv,
                    Decisions
<1>4. CASE expire
  BY <1>0, <1>4, EntryFacts
     DEF expire, EntryInv, OutcomeWasDecided, PendingInv, LateInv
<1>5. ASSUME NEW o \in Operators, start(o) PROVE IInv'
  <2>1. /\ op[o] = "idle" /\ op' = [op EXCEPT ![o] = "listing"]
        /\ known' = [known EXCEPT ![o] = RecordedBy]
        /\ UNCHANGED << entry, waiter, approver, wish >>
    BY <1>5 DEF start
  <2>2. EntryInv' /\ OutcomeWasDecided'
    BY <2>1, EntryFacts DEF TypeOK, EntryInv, OutcomeWasDecided
  <2>3. PendingInv'
    BY <2>1 DEF TypeOK, PendingInv
  <2>4. LateInv'
    BY <2>1 DEF TypeOK, LateInv, RecordedBy
  <2> QED BY <1>0, <2>2, <2>3, <2>4
<1>6. ASSUME NEW o \in Operators, list_pending(o) PROVE IInv'
  <2>1. /\ op[o] = "listing"
        /\ UNCHANGED << entry, waiter, approver, wish, known >>
        /\ \/ op' = [op EXCEPT ![o] = "deciding"] /\ entry = Pending
           \/ op' = [op EXCEPT ![o] = "unknown"]
           \/ op' = [op EXCEPT ![o] = "failed"]
    BY <1>6 DEF list_pending, Fails
  <2>2. EntryInv' /\ OutcomeWasDecided'
    BY <2>1, EntryFacts DEF TypeOK, EntryInv, OutcomeWasDecided
  <2>3. PendingInv'
    BY <2>1, EntryFacts DEF TypeOK, PendingInv
  <2>4. LateInv'
    BY <2>1 DEF TypeOK, PendingInv, LateInv
  <2> QED BY <1>0, <2>2, <2>3, <2>4
<1>7. ASSUME NEW o \in Operators, decide_get(o) PROVE IInv'
  <2>1. /\ op[o] = "deciding"
        /\ UNCHANGED << entry, waiter, approver, wish, known >>
        /\ \E next \in {"expired", "read", "failed"} : op' = [op EXCEPT ![o] = next]
    BY <1>7 DEF decide_get
  <2>2. EntryInv' /\ OutcomeWasDecided'
    BY <2>1, EntryFacts DEF TypeOK, EntryInv, OutcomeWasDecided
  <2>3. PendingInv'
    BY <2>1 DEF TypeOK, PendingInv
  <2>4. LateInv'
    BY <2>1 DEF TypeOK, LateInv
  <2> QED BY <1>0, <2>2, <2>3, <2>4
<1>8. ASSUME NEW o \in Operators, decide_set(o) PROVE IInv'
  <2>1. /\ op[o] = "read" /\ entry' \in {entry, updated(o)}
        /\ UNCHANGED << waiter, approver, wish, known >>
        /\ \/ op' = [op EXCEPT ![o] = "recorded"] /\ entry' = updated(o)
           \/ op' = [op EXCEPT ![o] = "failed"]
    BY <1>8 DEF decide_set, Fails
  <2>2. EntryInv' /\ OutcomeWasDecided'
    BY <2>1, EntryFacts, UpdatedFacts DEF TypeOK, EntryInv, OutcomeWasDecided
  <2>3. PendingInv'
    BY <2>1, EntryFacts, UpdatedFacts DEF TypeOK, PendingInv
  <2>4. LateInv'
    BY <2>1 DEF TypeOK, LateInv
  <2> QED BY <1>0, <2>2, <2>3, <2>4
<1>9. CASE UNCHANGED vars
  BY <1>0, <1>9 DEF vars, EntryInv, OutcomeWasDecided, PendingInv, LateInv
<1> QED BY <1>1, <1>2, <1>3, <1>4, <1>5, <1>6, <1>7, <1>8, <1>9 DEF Next

-----------------------------------------------------------------------------

(* The inductive invariant holds in every state of the key, the waiting    *)
(* call and the runs of the command line.                                  *)
THEOREM Invariance == Spec => []IInv
BY InitInv, NextInv, PTL DEF Spec

(* wait(): the decision a call acts on was made and written by the         *)
(* operator it is attributed to.                                           *)
THEOREM DecisionsAreMade == Spec => []OutcomeWasDecided
<1>1. IInv => OutcomeWasDecided
  BY DEF IInv
<1> QED BY <1>1, Invariance, PTL

(* The pending_ids check of the command line: a recorded decision is       *)
(* overwritten only by an operator who had been started before it was      *)
(* recorded.                                                               *)
THEOREM OverwritesOverlap == Spec => OverwriteNeedsOverlap
<1>1. ASSUME IInv, [Next]_vars,
             NEW o \in Operators, NEW p \in Operators,
             entry \in Decided, entry.by = o, op[o] = "recorded",
             entry' \in Decided, entry'.by = p, p # o
      PROVE  o \notin known[p]
  <2>1. entry' # entry
    BY <1>1
  <2>2. CASE \E q \in Operators : decide_set(q)
    <3>1. PICK q \in Operators : decide_set(q)
      BY <2>2
    <3>2. entry' = updated(q) /\ op[q] = "read"
      BY <2>1, <3>1 DEF decide_set
    <3>3. q = p
      BY <1>1, <3>2, UpdatedFacts DEF IInv
    <3> QED BY <1>1, <3>2, <3>3 DEF IInv, LateInv
  <2>3. CASE ~ \E q \in Operators : decide_set(q)
    BY <1>1, <2>1, <2>3, EntryFacts
       DEF Next, vars, submit, poll, timeout, cancel, expire, start, list_pending, decide_get
  <2> QED BY <2>2, <2>3
<1>2. IInv /\ [Next]_vars =>
        [\A o, p \in Operators :
           /\ entry \in Decided /\ entry.by = o /\ op[o] = "recorded"
           /\ entry' \in Decided /\ entry'.by = p /\ p # o
           => o \notin known[p]]_vars
  BY <1>1
<1> QED BY <1>2, Invariance, PTL DEF Spec, OverwriteNeedsOverlap

=============================================================================

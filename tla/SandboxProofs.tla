--------------------------- MODULE SandboxProofs ---------------------------
(***************************************************************************)
(* Proofs about Sandbox, for any number of attempts.                       *)
(*                                                                         *)
(* OrphanNeedsExcuse is not inductive: that "docker rm" has succeeded does *)
(* not by itself keep the container from being started afterwards.  What   *)
(* keeps it is that "docker run" is dead by then, whichever way run() took *)
(* into its finally block; Dead, Reaping and Buried say so step by step.   *)
(***************************************************************************)
EXTENDS Sandbox, TLAPS

(* The states of the finally block, and of the wait before it.             *)
Closing == {"kill_wait", "reap", "rm_spawn", "rm_wait", "over"}

Unborn(n)  == pc[n] \in {"idle", "spawn"} => cli[n] = "none"
Dead(n)    == pc[n] \in Closing => cli[n] # "running"
Reaping(n) == reaper[n] # "none" => pc[n] \in {"rm_wait", "over"}
Buried(n)  == reaper[n] = "done" => ctr[n] \notin Active
Excused(n) ==
  pc[n] = "over" =>
    \/ reaper[n] \in {"done", "failed"}
    \/ outcome[n] = "cancelled" /\ reaper[n] \in {"none", "running"}

RunInv(n) == Unborn(n) /\ Dead(n) /\ Reaping(n) /\ Buried(n) /\ Excused(n)

IInv == TypeOK /\ \A n \in Attempts : RunInv(n)

-----------------------------------------------------------------------------
(* The actions of one attempt                                              *)

LEMMA TypeStep ==
  ASSUME TypeOK, NEW n \in Attempts, Body(n) \/ Cleanup(n) \/ Cancel(n) \/ Docker(n)
  PROVE  TypeOK'
<1> USE DEF TypeOK, Suspended, Outcomes, CtrState, Active, Goto, Decide, Kill
<1>1. CASE Body(n)
  BY <1>1 DEF Body, Begin, Spawned, SpawnFails, Communicated, Timeout,
              TimeoutTooLate, KillWaited
<1>2. CASE Cleanup(n)
  BY <1>2 DEF Cleanup, Reaped, SpawnRm, RmUnavailable, RmWaited
<1>3. CASE Cancel(n)
  BY <1>3 DEF Cancel, CancelSpawn, CancelBody, CancelReap, CancelSpawnRm,
              CancelRmWait
<1>4. CASE Docker(n)
  BY <1>4 DEF Docker, AskCreate, Create, AskStart, StartContainer,
              ContainerExits, CliExits, Rm, RmFails
<1> QED BY <1>1, <1>2, <1>3, <1>4

(* A step of run(), or of Docker, on one attempt keeps that attempt's      *)
(* invariant.                                                              *)
LEMMA OwnStep ==
  ASSUME TypeOK, NEW n \in Attempts, RunInv(n),
         Body(n) \/ Cleanup(n) \/ Cancel(n) \/ Docker(n)
  PROVE  RunInv(n)'
<1> USE DEF TypeOK, Suspended, Outcomes, CtrState, Active, Goto, Decide, Kill,
            RunInv, Unborn, Dead, Reaping, Buried, Excused, Closing
<1>1. CASE Body(n)
  <2>1. CASE Begin(n) BY <2>1 DEF Begin
  <2>2. CASE Spawned(n) BY <2>2 DEF Spawned
  <2>3. CASE SpawnFails(n) BY <2>3 DEF SpawnFails
  <2>4. CASE Communicated(n) BY <2>4 DEF Communicated
  <2>5. CASE Timeout(n) BY <2>5 DEF Timeout
  <2>6. CASE TimeoutTooLate(n) BY <2>6 DEF TimeoutTooLate
  <2>7. CASE KillWaited(n) BY <2>7 DEF KillWaited
  <2> QED BY <1>1, <2>1, <2>2, <2>3, <2>4, <2>5, <2>6, <2>7 DEF Body
<1>2. CASE Cleanup(n)
  <2>1. CASE Reaped(n) BY <2>1 DEF Reaped
  <2>2. CASE SpawnRm(n) BY <2>2 DEF SpawnRm
  <2>3. CASE RmUnavailable(n) BY <2>3 DEF RmUnavailable
  <2>4. CASE RmWaited(n) BY <2>4 DEF RmWaited
  <2> QED BY <1>2, <2>1, <2>2, <2>3, <2>4 DEF Cleanup
<1>3. CASE Cancel(n)
  <2>1. CASE CancelSpawn(n) BY <2>1 DEF CancelSpawn
  <2>2. CASE CancelBody(n) BY <2>2 DEF CancelBody
  <2>3. CASE CancelReap(n) BY <2>3 DEF CancelReap
  <2>4. CASE CancelSpawnRm(n) BY <2>4 DEF CancelSpawnRm
  <2>5. CASE CancelRmWait(n) BY <2>5 DEF CancelRmWait
  <2> QED BY <1>3, <2>1, <2>2, <2>3, <2>4, <2>5 DEF Cancel
<1>4. CASE Docker(n)
  <2>1. CASE AskCreate(n) BY <2>1 DEF AskCreate
  <2>2. CASE Create(n) BY <2>2 DEF Create
  <2>3. CASE AskStart(n) BY <2>3 DEF AskStart
  <2>4. CASE StartContainer(n) BY <2>4 DEF StartContainer
  <2>5. CASE ContainerExits(n) BY <2>5 DEF ContainerExits
  <2>6. CASE CliExits(n) BY <2>6 DEF CliExits
  <2>7. CASE Rm(n) BY <2>7 DEF Rm
  <2>8. CASE RmFails(n) BY <2>8 DEF RmFails
  <2> QED BY <1>4, <2>1, <2>2, <2>3, <2>4, <2>5, <2>6, <2>7, <2>8 DEF Docker
<1> QED BY <1>1, <1>2, <1>3, <1>4

(* A step on one attempt leaves the variables of the others alone.         *)
LEMMA OtherStep ==
  ASSUME TypeOK, NEW n \in Attempts, NEW m \in Attempts, m # n, RunInv(m),
         Body(n) \/ Cleanup(n) \/ Cancel(n) \/ Docker(n)
  PROVE  RunInv(m)'
<1>1. /\ pc'[m] = pc[m] /\ outcome'[m] = outcome[m] /\ cli'[m] = cli[m]
      /\ ctr'[m] = ctr[m] /\ reaper'[m] = reaper[m]
  <2> USE DEF TypeOK, Goto, Decide, Kill
  <2>1. CASE Body(n)
    BY <2>1 DEF Body, Begin, Spawned, SpawnFails, Communicated, Timeout,
                TimeoutTooLate, KillWaited
  <2>2. CASE Cleanup(n)
    BY <2>2 DEF Cleanup, Reaped, SpawnRm, RmUnavailable, RmWaited
  <2>3. CASE Cancel(n)
    BY <2>3 DEF Cancel, CancelSpawn, CancelBody, CancelReap, CancelSpawnRm,
                CancelRmWait
  <2>4. CASE Docker(n)
    BY <2>4 DEF Docker, AskCreate, Create, AskStart, StartContainer,
                ContainerExits, CliExits, Rm, RmFails
  <2> QED BY <2>1, <2>2, <2>3, <2>4
<1> QED BY <1>1 DEF RunInv, Unborn, Dead, Reaping, Buried, Excused

-----------------------------------------------------------------------------
(* Theorems                                                                *)

(* Types and the invariant of every attempt hold in every reachable state  *)
(* of runner.py's run(), for any number of attempts.                       *)
THEOREM Invariance == Spec => []IInv
<1>1. Init => IInv
  BY DEF Init, IInv, TypeOK, RunInv, Unborn, Dead, Reaping, Buried, Excused,
         Closing, CtrState
<1>2. IInv /\ [Next]_vars => IInv'
  <2> SUFFICES ASSUME IInv, [Next]_vars PROVE IInv'
    OBVIOUS
  <2>1. CASE UNCHANGED vars
    BY <2>1 DEF vars, IInv, TypeOK, RunInv, Unborn, Dead, Reaping, Buried, Excused
  <2>2. CASE Next
    <3>1. PICK n \in Attempts : Body(n) \/ Cleanup(n) \/ Cancel(n) \/ Docker(n)
      BY <2>2 DEF Next
    <3>2. TypeOK'
      BY <3>1, TypeStep DEF IInv
    <3>3. ASSUME NEW m \in Attempts PROVE RunInv(m)'
      BY <3>1, OwnStep, OtherStep DEF IInv
    <3> QED BY <3>2, <3>3 DEF IInv
  <2> QED BY <2>1, <2>2
<1> QED BY <1>1, <1>2, PTL DEF Spec

(* The variables of run() keep their types.                                *)
THEOREM TypeCorrect == Spec => []TypeOK
<1>1. IInv => TypeOK BY DEF IInv
<1> QED BY <1>1, Invariance, PTL

(* The finally block of run() leaves no live container behind, for any     *)
(* number of attempts, unless "docker rm" failed or was cut short.         *)
THEOREM NoOrphans == Spec => []OrphanNeedsExcuse
<1>1. IInv => OrphanNeedsExcuse
  BY DEF IInv, RunInv, Buried, Excused, OrphanNeedsExcuse
<1> QED BY <1>1, Invariance, PTL

=============================================================================

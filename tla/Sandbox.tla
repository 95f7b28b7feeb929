------------------------------ MODULE Sandbox ------------------------------
(***************************************************************************)
(* gateway/sandbox/runner.py: one fresh container per attempt of a call.   *)
(*                                                                         *)
(* run() is a coroutine; a step is the code between two awaits, and the    *)
(* task may be cancelled at every await (an MCP cancellation, a closed     *)
(* transport, the stop of the worker pool).  "docker run" is a process of  *)
(* its own that asks the daemon to create and then to start the container: *)
(* killing it does not stop the container.  The repair loop makes the next *)
(* attempt when run() has raised, never after a cancellation.              *)
(*                                                                         *)
(* Outside this repository: the docker command line and its daemon, which  *)
(* finishes a request whose client was killed, removes an exited container *)
(* (--rm) and serves requests on one container one at a time.              *)
(***************************************************************************)
EXTENDS Naturals

CONSTANT MaxAttempts   \* max_attempts of the repair loop

ASSUME MaxAttemptsAssumption == MaxAttempts \in Nat \ {0}

VARIABLES
  pc,        \* where run() of each attempt is suspended
  outcome,   \* what run() returns or raises, once it is decided
  cli,       \* the process "docker run"
  ctr,       \* the container, as the daemon knows it
  reaper     \* the process "docker rm -f"

vars == << pc, outcome, cli, ctr, reaper >>

Attempts == 1 .. MaxAttempts

-----------------------------------------------------------------------------
(* Values                                                                  *)

(* The await of each state: create_subprocess_exec, communicate, the wait  *)
(* after the kill of a timeout; in the finally block the wait after a      *)
(* kill, create_subprocess_exec and the wait for "docker rm".              *)
Suspended == {"spawn", "communicate", "kill_wait", "reap", "rm_spawn", "rm_wait"}

(* "failed": SandboxError.  "error": an exception that is no GatewayError. *)
Outcomes == {"ok", "failed", "timeout", "error", "cancelled"}

Active == {"starting", "running"}
CtrState == {"none", "creating", "created", "refused", "removed"} \cup Active

TypeOK ==
  /\ pc \in [Attempts -> {"idle", "over"} \cup Suspended]
  /\ outcome \in [Attempts -> {"none"} \cup Outcomes]
  /\ cli \in [Attempts -> {"none", "running", "exited", "killed"}]
  /\ ctr \in [Attempts -> CtrState]
  /\ reaper \in [Attempts -> {"none", "running", "done", "failed"}]

Init ==
  /\ pc = [n \in Attempts |-> "idle"]
  /\ outcome = [n \in Attempts |-> "none"]
  /\ cli = [n \in Attempts |-> "none"]
  /\ ctr = [n \in Attempts |-> "none"]
  /\ reaper = [n \in Attempts |-> "none"]

-----------------------------------------------------------------------------
(* Helpers                                                                 *)

Goto(n, label) == pc' = [pc EXCEPT ![n] = label]
Decide(n, o)   == outcome' = [outcome EXCEPT ![n] = o]
Kill(n)        == cli' = [cli EXCEPT ![n] = IF @ = "running" THEN "killed" ELSE @]

-----------------------------------------------------------------------------
(* The body of run()                                                       *)

(* The first attempt, or one the repair loop makes after a failure.        *)
Begin(n) ==
  /\ pc[n] = "idle"
  /\ n > 1 => /\ pc[n - 1] = "over"
              /\ outcome[n - 1] \in {"failed", "timeout", "error"}
  /\ Goto(n, "spawn")
  /\ UNCHANGED << outcome, cli, ctr, reaper >>

Spawned(n) ==
  /\ pc[n] = "spawn"
  /\ cli' = [cli EXCEPT ![n] = "running"]
  /\ Goto(n, "communicate")
  /\ UNCHANGED << outcome, ctr, reaper >>

(* No docker executable is a SandboxError; any other OSError escapes.      *)
SpawnFails(n) ==
  /\ pc[n] = "spawn"
  /\ \E o \in {"failed", "error"} : Decide(n, o)
  /\ Goto(n, "rm_spawn")
  /\ UNCHANGED << cli, ctr, reaper >>

(* The transport kills the process it has not handed over; process is None. *)
CancelSpawn(n) ==
  /\ pc[n] = "spawn"
  /\ Decide(n, "cancelled")
  /\ \/ UNCHANGED << cli, ctr >>
     \/ /\ cli' = [cli EXCEPT ![n] = "killed"]
        /\ \E c \in {"none", "creating"} : ctr' = [ctr EXCEPT ![n] = c]
  /\ Goto(n, "rm_spawn")
  /\ UNCHANGED reaper

(* The output limit, the exit code and, in run_worker(), the JSON that     *)
(* decides between a result, a SandboxError and a JSONDecodeError.         *)
Communicated(n) ==
  /\ pc[n] = "communicate"
  /\ cli[n] = "exited"
  /\ \E o \in IF ctr[n] = "removed" THEN {"ok", "failed", "error"}
                                    ELSE {"failed"} : Decide(n, o)
  /\ Goto(n, "rm_spawn")
  /\ UNCHANGED << cli, ctr, reaper >>

(* Mutant: the timeout is reported without waiting for the reaping.        *)
TimeoutWithoutCleanup(n) ==
  /\ pc[n] = "communicate"
  /\ cli[n] = "running"
  /\ Kill(n)
  /\ Decide(n, "timeout")
  /\ Goto(n, "over")
  /\ UNCHANGED << ctr, reaper >>

(* wait_for expires.                                                       *)
Timeout(n) ==
  /\ pc[n] = "communicate"
  /\ cli[n] = "running"
  /\ Kill(n)
  /\ Decide(n, "timeout")
  /\ Goto(n, "kill_wait")
  /\ UNCHANGED << ctr, reaper >>

(* It expires when the process has ended but run() has not resumed: the    *)
(* kill may raise ProcessLookupError out of the except clause.             *)
TimeoutTooLate(n) ==
  /\ pc[n] = "communicate"
  /\ cli[n] = "exited"
  /\ \/ Decide(n, "timeout") /\ Goto(n, "kill_wait")
     \/ Decide(n, "error") /\ Goto(n, "rm_spawn")
  /\ UNCHANGED << cli, ctr, reaper >>

KillWaited(n) ==
  /\ pc[n] = "kill_wait"
  /\ Goto(n, "rm_spawn")
  /\ UNCHANGED << outcome, cli, ctr, reaper >>

(* Mutant: a cancelled run leaves the process alone.                       *)
CancelBodyKeepsProcess(n) ==
  /\ pc[n] \in {"communicate", "kill_wait"}
  /\ Decide(n, "cancelled")
  /\ Goto(n, "rm_spawn")
  /\ UNCHANGED << cli, ctr, reaper >>

(* The finally block kills a process that has no return code yet.          *)
CancelBody(n) ==
  /\ pc[n] \in {"communicate", "kill_wait"}
  /\ Decide(n, "cancelled")
  /\ Kill(n)
  /\ Goto(n, IF cli[n] = "exited" THEN "rm_spawn" ELSE "reap")
  /\ UNCHANGED << ctr, reaper >>

-----------------------------------------------------------------------------
(* The finally block                                                       *)

Reaped(n) ==
  /\ pc[n] = "reap"
  /\ Goto(n, "rm_spawn")
  /\ UNCHANGED << outcome, cli, ctr, reaper >>

(* A cancellation in the finally block skips what is left of it.           *)
CancelReap(n) ==
  /\ pc[n] = "reap"
  /\ Decide(n, "cancelled")
  /\ Goto(n, "over")
  /\ UNCHANGED << cli, ctr, reaper >>

SpawnRm(n) ==
  /\ pc[n] = "rm_spawn"
  /\ reaper' = [reaper EXCEPT ![n] = "running"]
  /\ Goto(n, "rm_wait")
  /\ UNCHANGED << outcome, cli, ctr >>

(* "except OSError": the failure is logged and nothing else.               *)
RmUnavailable(n) ==
  /\ pc[n] = "rm_spawn"
  /\ reaper' = [reaper EXCEPT ![n] = "failed"]
  /\ Goto(n, "over")
  /\ UNCHANGED << outcome, cli, ctr >>

(* Cancelled here, "docker rm" has been started or not.                    *)
CancelSpawnRm(n) ==
  /\ pc[n] = "rm_spawn"
  /\ Decide(n, "cancelled")
  /\ \E r \in {"none", "running"} : reaper' = [reaper EXCEPT ![n] = r]
  /\ Goto(n, "over")
  /\ UNCHANGED << cli, ctr >>

(* The exit code of "docker rm" is not read.                               *)
RmWaited(n) ==
  /\ pc[n] = "rm_wait"
  /\ reaper[n] \in {"done", "failed"}
  /\ Goto(n, "over")
  /\ UNCHANGED << outcome, cli, ctr, reaper >>

CancelRmWait(n) ==
  /\ pc[n] = "rm_wait"
  /\ Decide(n, "cancelled")
  /\ Goto(n, "over")
  /\ UNCHANGED << cli, ctr, reaper >>

-----------------------------------------------------------------------------
(* Docker: the two command lines and the daemon                            *)

AskCreate(n) ==
  /\ cli[n] = "running"
  /\ ctr[n] = "none"
  /\ ctr' = [ctr EXCEPT ![n] = "creating"]
  /\ UNCHANGED << pc, outcome, cli, reaper >>

Create(n) ==
  /\ ctr[n] = "creating"
  /\ \E c \in {"created", "refused"} : ctr' = [ctr EXCEPT ![n] = c]
  /\ UNCHANGED << pc, outcome, cli, reaper >>

AskStart(n) ==
  /\ cli[n] = "running"
  /\ ctr[n] = "created"
  /\ ctr' = [ctr EXCEPT ![n] = "starting"]
  /\ UNCHANGED << pc, outcome, cli, reaper >>

StartContainer(n) ==
  /\ ctr[n] = "starting"
  /\ ctr' = [ctr EXCEPT ![n] = "running"]
  /\ UNCHANGED << pc, outcome, cli, reaper >>

ContainerExits(n) ==
  /\ ctr[n] = "running"
  /\ ctr' = [ctr EXCEPT ![n] = "removed"]
  /\ UNCHANGED << pc, outcome, cli, reaper >>

CliExits(n) ==
  /\ cli[n] = "running"
  /\ ctr[n] \in {"refused", "removed"}
  /\ cli' = [cli EXCEPT ![n] = "exited"]
  /\ UNCHANGED << pc, outcome, ctr, reaper >>

(* "docker rm -f" of a name the daemon does not know yet does nothing.     *)
Rm(n) ==
  /\ reaper[n] = "running"
  /\ reaper' = [reaper EXCEPT ![n] = "done"]
  /\ ctr' = [ctr EXCEPT ![n] = IF @ \in Active \cup {"created"} THEN "removed" ELSE @]
  /\ UNCHANGED << pc, outcome, cli >>

RmFails(n) ==
  /\ reaper[n] = "running"
  /\ reaper' = [reaper EXCEPT ![n] = "failed"]
  /\ UNCHANGED << pc, outcome, cli, ctr >>

-----------------------------------------------------------------------------

Body(n) ==
  \/ Begin(n) \/ Spawned(n) \/ SpawnFails(n) \/ Communicated(n)
  \/ Timeout(n) \/ TimeoutTooLate(n) \/ KillWaited(n)

Cleanup(n) == Reaped(n) \/ SpawnRm(n) \/ RmUnavailable(n) \/ RmWaited(n)

Cancel(n) ==
  \/ CancelSpawn(n) \/ CancelBody(n) \/ CancelReap(n)
  \/ CancelSpawnRm(n) \/ CancelRmWait(n)

Docker(n) ==
  \/ AskCreate(n) \/ Create(n) \/ AskStart(n) \/ StartContainer(n)
  \/ ContainerExits(n) \/ CliExits(n) \/ Rm(n) \/ RmFails(n)

Next == \E n \in Attempts : Body(n) \/ Cleanup(n) \/ Cancel(n) \/ Docker(n)

Spec == Init /\ [][Next]_vars

(* Timers fire, ready tasks run, the daemon serves every request.  Nothing *)
(* is assumed of the command in the container: it may never end.           *)
Fairness ==
  \A n \in Attempts :
    /\ WF_vars(Timeout(n) \/ TimeoutTooLate(n) \/ Communicated(n))
    /\ WF_vars(KillWaited(n))
    /\ WF_vars(Cleanup(n))
    /\ WF_vars(StartContainer(n))
    /\ WF_vars(Rm(n) \/ RmFails(n))

FairSpec == Spec /\ Fairness

-----------------------------------------------------------------------------
(* Properties                                                              *)

(* When run() is over, and so before the repair loop can start the next    *)
(* attempt, its container neither runs nor can start any more, unless      *)
(* "docker rm" failed or run() was cancelled before it had finished        *)
(* (the finally block, lines 146-164).                                     *)
OrphanNeedsExcuse ==
  \A n \in Attempts :
    pc[n] = "over" /\ ctr[n] \in Active =>
      \/ reaper[n] = "failed"
      \/ outcome[n] = "cancelled" /\ reaper[n] \in {"none", "running"}

(* A container that was started is removed in the end although its command *)
(* never ends, or "docker rm" failed, or a cancellation hit the finally    *)
(* block before "docker rm" was started.                                   *)
ContainersEnd ==
  \A n \in Attempts :
    ctr[n] \in Active ~>
      \/ ctr[n] = "removed"
      \/ reaper[n] = "failed"
      \/ pc[n] = "over" /\ outcome[n] = "cancelled" /\ reaper[n] = "none"

=============================================================================

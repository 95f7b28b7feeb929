---------------------------- MODULE RemoteWorker ----------------------------
(***************************************************************************)
(* gateway/workers/remote.py and gateway/workers/http_server.py composed   *)
(* with WorkerService: the two ways the gateway reaches its worker.        *)
(*                                                                         *)
(* deployment = "queued": the gateway submits to the service in its own    *)
(* process (InProcessWorkerClient), all of WorkerService as it is.         *)
(* deployment = "remote": RemoteWorkerClient posts a job over HTTP, the    *)
(* endpoint /jobs of another process submits it.  The request, the answer  *)
(* and the worker process may be lost, and each side has its own timeout.  *)
(* A job is one attempt of a call; the attempts of a call share a key and  *)
(* follow each other as the repair loop makes them.                        *)
(*                                                                         *)
(* Outside this repository: httpx, and uvicorn, which does not cancel a    *)
(* request whose client has gone, answers 500 when a handler raises, and   *)
(* on SIGTERM lets the open requests end before it ends the lifespan.      *)
(***************************************************************************)
EXTENDS WorkerService

CONSTANTS
  Attempt,     \* Attempt[j]: the number of the attempt of its call
  Idempotent   \* the keys of calls of tools declared idempotent

(* The repair loop of a call numbers its attempts and submits each once.   *)
ASSUME AttemptAssumption ==
  /\ Attempt \in [Jobs -> Nat]
  /\ \A i, j \in Jobs : Key[i] = Key[j] /\ Attempt[i] = Attempt[j] => i = j
  /\ Idempotent \subseteq Keys

VARIABLES
  deployment,  \* worker_mode of the settings
  server,      \* the worker process: down, up, draining or stopping
  http,        \* the request POST /jobs of each job
  client       \* RemoteWorkerClient.execute() of each job

remoteVars == << deployment, server, http, client >>
allVars    == << vars, remoteVars >>

Told == {"succeeded", "failed", "needs_review"}

RemoteTypeOK ==
  /\ TypeOK
  /\ deployment \in {"queued", "remote"}
  /\ server \in {"down", "up", "draining", "stopping"}
  /\ http \in [Jobs -> {"none", "sent", "serving", "over"}]
  /\ client \in [Jobs -> {"idle", "waiting"} \cup Told]

RemoteInit ==
  /\ Init
  /\ deployment \in {"queued", "remote"}
  /\ server = "down"
  /\ http = [j \in Jobs |-> "none"]
  /\ client = [j \in Jobs |-> "idle"]

-----------------------------------------------------------------------------
(* RemoteWorkerClient.execute()                                            *)

Earlier(j) == {i \in Jobs : Key[i] = Key[j] /\ Attempt[i] < Attempt[j]}

(* An attempt follows failed ones, and follows none unless the tool is     *)
(* read-only or idempotent.  A NeedsReviewError counts as a tool error and *)
(* is retried like one.                                                    *)
MayAttempt(j) ==
  \A i \in Earlier(j) :
    /\ client[i] \in {"failed", "needs_review"}
    /\ j \in Mutations => Key[j] \in Idempotent

Post(j) ==
  /\ client[j] = "idle"
  /\ MayAttempt(j)
  /\ client' = [client EXCEPT ![j] = "waiting"]
  /\ http' = [http EXCEPT ![j] = "sent"]
  /\ UNCHANGED << vars, deployment, server >>

(* Mutant: the risk class is not looked at.                                *)
TransportErrorPlain(j) == "failed"

(* The except clause around the request.                                   *)
TransportError(j) == IF j \in Mutations THEN "needs_review" ELSE "failed"

(* httpx raises: no connection, a broken one, or its timeout, at any time. *)
(* The worker goes on with what it has received, and reads what is already *)
(* on the connection.                                                      *)
GiveUp(j) ==
  /\ client[j] = "waiting"
  /\ client' = [client EXCEPT ![j] = TransportError(j)]
  /\ UNCHANGED << vars, deployment, server, http >>

-----------------------------------------------------------------------------
(* The endpoint /jobs                                                      *)

(* authenticate() comes before submit(): 401 even with no pool running.    *)
Refuse(j) ==
  /\ server = "up"
  /\ http[j] = "sent"
  /\ j \in Forged
  /\ http' = [http EXCEPT ![j] = "over"]
  /\ client' = [client EXCEPT ![j] = IF @ = "waiting" THEN "failed" ELSE @]
  /\ UNCHANGED << vars, deployment, server >>

Serve(j) ==
  /\ server = "up"
  /\ http[j] = "sent"
  /\ j \notin Forged
  /\ Submit(j)
  /\ http' = [http EXCEPT ![j] = "serving"]
  /\ UNCHANGED << deployment, server, client >>

(* Mutant: every WorkerResult is read as a success.                        *)
ReplyUnread(j) == IF call[j] = "cancelled" THEN "failed" ELSE "succeeded"

(* What the client makes of the response.  A duplicate passes on the       *)
(* failed WorkerResult it joined with its code.  CancelledError is no      *)
(* GatewayError: the response is a 500 and the client raises a             *)
(* ToolExecutionError, whatever the risk class.                            *)
Reply(j) ==
  LET joined == awaits[j] \in Jobs \ {j}
  IN  IF joined /\ future[awaits[j]] = "failed_review" THEN "needs_review"
      ELSE IF call[j] = "cancelled" THEN "failed"
      ELSE call[j]

Respond(j) ==
  /\ http[j] = "serving"
  /\ call[j] \in Ended
  /\ http' = [http EXCEPT ![j] = "over"]
  /\ client' = [client EXCEPT ![j] = IF @ = "waiting" THEN Reply(j) ELSE @]
  /\ UNCHANGED << vars, deployment, server >>

(* A request that never reaches the worker.                                *)
Lose(j) ==
  /\ http[j] = "sent"
  /\ http' = [http EXCEPT ![j] = "over"]
  /\ UNCHANGED << vars, deployment, server, client >>

-----------------------------------------------------------------------------
(* The worker process                                                      *)

Serving == {j \in Jobs : http[j] = "serving"}

(* The lifespan: start() before the first request, stop() after the last.  *)
Boot ==
  /\ server = "down"
  /\ Start
  /\ server' = "up"
  /\ UNCHANGED << deployment, http, client >>

Terminate ==
  /\ server = "up"
  /\ server' = "draining"
  /\ UNCHANGED << vars, deployment, http, client >>

StopService ==
  /\ server = "draining"
  /\ Serving = {}
  /\ Stop
  /\ server' = "stopping"
  /\ UNCHANGED << deployment, http, client >>

(* Queue, keys, results, reconciliation records and breaker are fields of  *)
(* the service: the next process starts without them.                      *)
ForgetEverything ==
  /\ pool' = "none"
  /\ alive' = {}
  /\ running' = [w \in Workers |-> NoJob]
  /\ queue' = << >>
  /\ inflight' = [k \in Keys |-> NoJob]
  /\ results' = [k \in Keys |-> NoJob]
  /\ future' = [j \in Jobs |-> "none"]
  /\ reconc' = [j \in Jobs |-> "none"]
  /\ breaker' = ClosedBreaker
  /\ call' = [j \in Jobs |-> IF call[j] \in Waiting THEN "cancelled" ELSE call[j]]
  /\ awaits' = [j \in Jobs |-> NoJob]
  /\ handler' = [j \in Jobs |->
                   IF \E w \in Workers : running[w] = j THEN "interrupted"
                                                        ELSE handler[j]]
  /\ http' = [j \in Jobs |-> IF http[j] = "none" THEN "none" ELSE "over"]

Exit ==
  /\ server = "stopping"
  /\ pool = "none"
  /\ ForgetEverything
  /\ server' = "down"
  /\ UNCHANGED << deployment, client >>

Crash ==
  /\ server # "down"
  /\ ForgetEverything
  /\ server' = "down"
  /\ UNCHANGED << deployment, client >>

-----------------------------------------------------------------------------
(* The steps of the service that no request takes.  Nothing cancels a      *)
(* request in the worker process, and no endpoint offers reconcile().      *)
ServiceStep ==
  \/ StopFinish \/ CoolDown
  \/ \E w \in Workers : \/ WorkerExit(w) \/ Interrupt(w)
                        \/ Take(w) \/ TakeInvalid(w)
                        \/ HandlerSucceeds(w) \/ HandlerRaises(w)
  \/ \E j \in Jobs : \/ ResumeOwner(j) \/ ResumeJoined(j)
                     \/ TimeoutFires(j) \/ ResumeTimedOut(j)

RemoteStep ==
  \/ \E j \in Jobs : \/ Post(j) \/ GiveUp(j) \/ Lose(j)
                     \/ Refuse(j) \/ Serve(j) \/ Respond(j)
  \/ Boot \/ Terminate \/ StopService \/ Exit \/ Crash
  \/ ServiceStep /\ UNCHANGED remoteVars

RemoteNext ==
  \/ deployment = "queued" /\ Next /\ UNCHANGED remoteVars
  \/ deployment = "remote" /\ RemoteStep

(* The timers and ready tasks of WorkerService, the answers of a worker    *)
(* that is up, and the steps of a process that was told to terminate.      *)
RemoteFairness ==
  /\ \A j \in Jobs :
       /\ WF_allVars(ResumeOwner(j) /\ UNCHANGED remoteVars)
       /\ WF_allVars(ResumeJoined(j) /\ UNCHANGED remoteVars)
       /\ WF_allVars(TimeoutFires(j) /\ UNCHANGED remoteVars)
       /\ WF_allVars(ResumeTimedOut(j) /\ UNCHANGED remoteVars)
       /\ WF_allVars(Respond(j))
  /\ \A w \in Workers :
       /\ WF_allVars(WorkerExit(w) /\ UNCHANGED remoteVars)
       /\ WF_allVars(Interrupt(w) /\ UNCHANGED remoteVars)
  /\ WF_allVars(StopFinish /\ UNCHANGED remoteVars)
  /\ WF_allVars(StopService)
  /\ WF_allVars(Exit)

RemoteSpec == RemoteInit /\ [][RemoteNext]_allVars /\ RemoteFairness

-----------------------------------------------------------------------------
(* Properties                                                              *)

(* The attempt has not succeeded, is not running, was not cut short and    *)
(* is not on its way to a handler.  A handler that raised may have done    *)
(* part of its work: the service keeps a record of it and reports a plain  *)
(* failure all the same.                                                   *)
NoSuccessToCome(j) ==
  /\ handler[j] \in {"none", "rejected", "raised"}
  /\ j \notin Queued
  /\ http[j] \in {"none", "over"}

(* What the gateway may conclude from the plain failure of a mutation,     *)
(* after whatever timeouts, lost answers and restarts.  No attempt of the  *)
(* call has succeeded or will, if its tool is not idempotent.  If it is,   *)
(* an earlier attempt may still succeed, but then the gateway has been     *)
(* told "needs_review" of that one (lines 88-93 of remote.py, 214-224 of   *)
(* service.py), and the only other exception is an attempt made later.     *)
(* The last failure alone shows nothing: a retry that joined the cancelled *)
(* future of an attempt still running is answered with a plain failure.    *)
DoubtIsTold ==
  \A i, j \in Mutations :
    client[j] = "failed" /\ Key[i] = Key[j] =>
      \/ NoSuccessToCome(i)
      \/ /\ Key[j] \in Idempotent
         /\ client[i] = "needs_review" \/ j \in Earlier(i)

(* A client is told "succeeded" only when a handler of its own key has     *)
(* succeeded; and when that was the handler of another attempt, the        *)
(* gateway had given that attempt up, for an attempt that is answered is   *)
(* followed by none.                                                       *)
RemoteSuccessIsReal ==
  \A j \in Jobs :
    client[j] = "succeeded" =>
      \E i \in Jobs :
        /\ Key[i] = Key[j]
        /\ handler[i] = "succeeded"
        /\ i = j \/ (i \in Earlier(j) /\ client[i] \in {"failed", "needs_review"})

(* A worker that was told to terminate does so, although handlers hang:    *)
(* the open requests it waits for end by the job timeout, those that       *)
(* joined another request's future included, and the pool is cancelled.    *)
DrainCompletes == server = "draining" ~> server = "down"

=============================================================================

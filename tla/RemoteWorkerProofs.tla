------------------------- MODULE RemoteWorkerProofs -------------------------
(***************************************************************************)
(* Proofs about RemoteWorker, for every set of jobs, keys and workers,     *)
(* every queue size and every failure threshold.                           *)
(*                                                                         *)
(* The invariant of WorkerServiceProofs does not survive the worker        *)
(* process: a crash forgets results and futures while the handlers have    *)
(* run. What is kept of it is what refers to one process only, and the     *)
(* requests and answers of the gateway are related to that. A job is       *)
(* served by at most one process, since its request is posted once.        *)
(***************************************************************************)
EXTENDS RemoteWorker, WorkerServiceProofs

-----------------------------------------------------------------------------
(* The inductive invariant                                                 *)

(* What a settled future says of the handler, and the state of a call of   *)
(* the future it uses.  Nothing here refers to what was forgotten.         *)
SettledInv ==
  \A j \in Jobs :
    /\ future[j] = "ok" => handler[j] = "succeeded"
    /\ future[j] \in {"failed", "failed_review"} =>
         handler[j] \in {"rejected", "raised"}
    /\ future[j] = "stop_error" => j \notin Mutations
    /\ call[j] = "new" =>
         awaits[j] = NoJob /\ future[j] = "none" /\ handler[j] = "none"
    /\ call[j] \in {"waiting", "expired"} => awaits[j] = j
    /\ call[j] = "waiting" => future[j] # "cancelled"
    /\ call[j] = "joined" => awaits[j] \notin {NoJob, j}

(* A job that holds its key, queued and running ones included, was         *)
(* submitted to this process and waits for nobody else.                    *)
OwnInv ==
  \A k \in Keys : inflight[k] # NoJob => awaits[inflight[k]] = inflight[k]

SInv == TypeOK /\ KeyInv /\ LiveInv /\ SettledInv /\ OwnInv

(* The requests of the gateway: a job is submitted by its request, and a   *)
(* later attempt is posted when all earlier ones are told.                 *)
PostInv ==
  \A j \in Jobs :
    /\ client[j] = "idle" <=> http[j] = "none"
    /\ http[j] \in {"none", "sent"} => call[j] = "new"
    /\ client[j] # "idle" => MayAttempt(j)

(* What the endpoint is about to answer.                                   *)
ServedInv ==
  \A j \in Jobs :
    http[j] = "serving" =>
      /\ awaits[j] # j => handler[j] = "none"
      /\ call[j] = "succeeded" =>
           awaits[j] # NoJob /\ handler[awaits[j]] = "succeeded"
      /\ awaits[j] = j /\ call[j] \in {"failed", "cancelled"} /\ j \in Mutations =>
           handler[j] \in {"rejected", "raised"}

(* A mutation that failed plainly has no handler of its own that has       *)
(* succeeded or will.  With PostInv this gives DoubtIsTold, which speaks   *)
(* of all attempts of the call.                                            *)
OwnFailure ==
  \A j \in Mutations :
    client[j] = "failed" =>
      /\ handler[j] \in {"none", "rejected", "raised"}
      /\ j \notin Queued
      /\ http[j] = "over"

(* The gateway's part.                                                     *)
GInv == PostInv /\ ServedInv /\ OwnFailure /\ RemoteSuccessIsReal

(* A gateway that submits in its own process has the invariant of          *)
(* WorkerServiceProofs, and its HTTP client is never used.                 *)
RInv == /\ RemoteTypeOK
        /\ deployment = "queued" => IInv /\ \A j \in Jobs : client[j] = "idle"
        /\ deployment = "remote" => SInv /\ GInv

-----------------------------------------------------------------------------
(* The invariant of one process, action by action                          *)

USE DEF JobOrNone, poolVars, clientVars

(* One lemma per action of the service: what is said of one process is     *)
(* preserved. A started pool has no running job.                           *)
LEMMA StartCore ==
  ASSUME SInv, Start
  PROVE  SInv'
<1> USE JobsAssumption DEF SInv, Start
<1>0. Queued' = Queued
  BY DEF Queued
<1>1. TypeOK'
  BY DEF TypeOK
<1>2. KeyInv'
  BY DEF KeyInv
<1>3. LiveInv'
  BY <1>0 DEF LiveInv
<1>4. SettledInv'
  BY DEF SettledInv
<1>5. OwnInv'
  BY DEF OwnInv
<1> QED BY <1>1, <1>2, <1>3, <1>4, <1>5

(* stop() answers a mutation with an error that asks for a review.         *)
LEMMA StopCore ==
  ASSUME SInv, Stop
  PROVE  SInv'
<1> USE JobsAssumption DEF SInv, Stop, Unfinished, MarkUncertain, DrainQueue
<1>0. Queued' = {}
  BY DEF Queued
<1>1. TypeOK'
  BY DEF TypeOK, FutureState, ReconcState
<1>2. KeyInv'
  BY DEF KeyInv
<1>3. LiveInv'
  BY <1>0 DEF LiveInv
<1>4. SettledInv'
  BY DEF TypeOK, SettledInv
<1>5. OwnInv'
  BY DEF OwnInv
<1> QED BY <1>1, <1>2, <1>3, <1>4, <1>5

(* gather() returns when no task is alive.                                 *)
LEMMA StopFinishCore ==
  ASSUME SInv, StopFinish
  PROVE  SInv'
<1> USE JobsAssumption DEF SInv, StopFinish
<1>0. Queued' = Queued
  BY DEF Queued
<1>1. TypeOK'
  BY DEF TypeOK
<1>2. KeyInv'
  BY DEF KeyInv
<1>3. LiveInv'
  BY <1>0 DEF LiveInv
<1>4. SettledInv'
  BY DEF SettledInv
<1>5. OwnInv'
  BY DEF OwnInv
<1> QED BY <1>1, <1>2, <1>3, <1>4, <1>5

(* The clock touches nothing but the breaker.                              *)
LEMMA CoolDownCore ==
  ASSUME SInv, CoolDown
  PROVE  SInv'
<1> USE JobsAssumption DEF SInv, CoolDown
<1>0. Queued' = Queued
  BY DEF Queued
<1>1. TypeOK'
  BY BreakerLemma DEF TypeOK
<1>2. KeyInv'
  BY DEF KeyInv
<1>3. LiveInv'
  BY <1>0 DEF LiveInv
<1>4. SettledInv'
  BY DEF SettledInv
<1>5. OwnInv'
  BY DEF OwnInv
<1> QED BY <1>1, <1>2, <1>3, <1>4, <1>5

(* An idle task leaves without a job.                                      *)
LEMMA WorkerExitCore ==
  ASSUME SInv, NEW w \in Workers, WorkerExit(w)
  PROVE  SInv'
<1> USE JobsAssumption DEF SInv, WorkerExit
<1>0. Queued' = Queued
  BY DEF Queued
<1>1. TypeOK'
  BY DEF TypeOK
<1>2. KeyInv'
  BY DEF KeyInv
<1>3. LiveInv'
  BY <1>0 DEF LiveInv
<1>4. SettledInv'
  BY DEF SettledInv
<1>5. OwnInv'
  BY DEF OwnInv
<1> QED BY <1>1, <1>2, <1>3, <1>4, <1>5

(* An interrupted job releases a key that is its own.                      *)
LEMMA InterruptCore ==
  ASSUME SInv, NEW w \in Workers, Interrupt(w)
  PROVE  SInv'
<1> USE JobsAssumption DEF SInv, Interrupt, Release
<1>0. Queued' = Queued
  BY DEF Queued
<1>1. TypeOK'
  BY DEF TypeOK, HandlerState
<1>2. KeyInv'
  BY DEF KeyInv, LiveInv
<1>3. LiveInv'
  BY <1>0 DEF TypeOK, LiveInv
<1>4. SettledInv'
  BY DEF TypeOK, LiveInv, SettledInv
<1>5. OwnInv'
  BY DEF OwnInv
<1> QED BY <1>1, <1>2, <1>3, <1>4, <1>5

(* The job taken owned its key while queued and owns it while running.     *)
LEMMA TakeCore ==
  ASSUME SInv, NEW w \in Workers, Take(w)
  PROVE  SInv'
<1> USE JobsAssumption DEF SInv, Take, Idle
<1>0. /\ Head(queue) \in Jobs /\ Head(queue) \in Queued
      /\ queue' \in Seq(Jobs) /\ Len(queue') <= QueueSize
      /\ Queued' \subseteq Queued \ {Head(queue)}
      /\ \A i, k \in 1 .. Len(queue') : queue'[i] = queue'[k] => i = k
  BY TakeFacts
<1>1. TypeOK'
  BY <1>0 DEF TypeOK, HandlerState
<1>2. KeyInv'
  BY <1>0 DEF KeyInv, LiveInv
<1>3. LiveInv'
  BY <1>0 DEF TypeOK, LiveInv
<1>4. SettledInv'
  BY <1>0 DEF TypeOK, LiveInv, SettledInv, OwnInv
<1>5. OwnInv'
  BY DEF TypeOK, OwnInv
<1> QED BY <1>1, <1>2, <1>3, <1>4, <1>5

(* A rejected job is settled and its key released at once.                 *)
LEMMA TakeInvalidCore ==
  ASSUME SInv, NEW w \in Workers, TakeInvalid(w)
  PROVE  SInv'
<1> USE JobsAssumption DEF SInv, TakeInvalid, Idle, MarkUncertain, Resolve
<1>0. /\ Head(queue) \in Jobs /\ Head(queue) \in Queued
      /\ queue' \in Seq(Jobs) /\ Len(queue') <= QueueSize
      /\ Queued' \subseteq Queued \ {Head(queue)}
      /\ \A i, k \in 1 .. Len(queue') : queue'[i] = queue'[k] => i = k
  BY TakeFacts
<1>1. TypeOK'
  BY <1>0 DEF TypeOK, FutureState, HandlerState, ReconcState
<1>2. KeyInv'
  BY <1>0 DEF KeyInv, LiveInv
<1>3. LiveInv'
  BY <1>0 DEF LiveInv
<1>4. SettledInv'
  BY <1>0 DEF TypeOK, LiveInv, SettledInv, OwnInv
<1>5. OwnInv'
  BY DEF TypeOK, OwnInv
<1> QED BY <1>1, <1>2, <1>3, <1>4, <1>5

(* The result is stored under the key of the job, and the key released.    *)
LEMMA HandlerSucceedsCore ==
  ASSUME SInv, NEW w \in Workers, HandlerSucceeds(w)
  PROVE  SInv'
<1> USE JobsAssumption DEF SInv, HandlerSucceeds, Resolve, Release
<1>0. running[w] \in Jobs /\ Key[running[w]] \in Keys /\ Queued' = Queued
  <2>1. running[w] \in Jobs  BY DEF TypeOK
  <2>2. Queued' = Queued  BY DEF Queued
  <2> QED BY <2>1, <2>2
<1>1. TypeOK'
  BY <1>0 DEF TypeOK, FutureState, HandlerState
<1>2. KeyInv'
  BY <1>0 DEF TypeOK, KeyInv
<1>3. LiveInv'
  BY <1>0 DEF TypeOK, LiveInv
<1>4. SettledInv'
  BY <1>0 DEF TypeOK, LiveInv, SettledInv, OwnInv
<1>5. OwnInv'
  BY DEF TypeOK, OwnInv
<1> QED BY <1>1, <1>2, <1>3, <1>4, <1>5

(* A failed handler is recorded and releases its key.                      *)
LEMMA HandlerRaisesCore ==
  ASSUME SInv, NEW w \in Workers, HandlerRaises(w)
  PROVE  SInv'
<1> USE JobsAssumption DEF SInv, HandlerRaises, Resolve, Release, MarkUncertain
<1>0. running[w] \in Jobs /\ Key[running[w]] \in Keys /\ Queued' = Queued
  <2>1. running[w] \in Jobs  BY DEF TypeOK
  <2>2. Queued' = Queued  BY DEF Queued
  <2> QED BY <2>1, <2>2
<1>1. TypeOK'
  BY <1>0 DEF TypeOK, FutureState, HandlerState, ReconcState
<1>2. KeyInv'
  BY <1>0 DEF TypeOK, KeyInv, LiveInv
<1>3. LiveInv'
  BY <1>0 DEF TypeOK, LiveInv
<1>4. SettledInv'
  BY <1>0 DEF TypeOK, LiveInv, SettledInv, OwnInv
<1>5. OwnInv'
  BY DEF TypeOK, OwnInv
<1> QED BY <1>1, <1>2, <1>3, <1>4, <1>5

(* The early failures of submit() leave no trace but in the breaker.       *)
LEMMA SubmitRefusedCore ==
  ASSUME SInv, NEW j \in Jobs,
         \/ SubmitNotRunning(j) \/ SubmitCircuitOpen(j)
         \/ SubmitForged(j) \/ SubmitQueueFull(j)
  PROVE  SInv'
<1> USE JobsAssumption DEF SInv, SubmitNotRunning, SubmitCircuitOpen,
                           SubmitForged, SubmitQueueFull, Answer
<1>0. Queued' = Queued
  BY DEF Queued
<1>1. TypeOK'
  BY BreakerLemma DEF TypeOK, CallState, Ended
<1>2. KeyInv'
  BY DEF KeyInv
<1>3. LiveInv'
  BY <1>0 DEF LiveInv
<1>4. SettledInv'
  BY DEF TypeOK, SettledInv
<1>5. OwnInv'
  BY DEF OwnInv
<1> QED BY <1>1, <1>2, <1>3, <1>4, <1>5

(* A duplicate is answered with the stored result of its key.              *)
LEMMA SubmitCompletedCore ==
  ASSUME SInv, NEW j \in Jobs, SubmitCompleted(j)
  PROVE  SInv'
<1> USE JobsAssumption DEF SInv, SubmitCompleted, Admitted, Answer
<1>0. Queued' = Queued
  BY DEF Queued
<1>1. TypeOK'
  BY BreakerLemma DEF TypeOK, CallState, Ended
<1>2. KeyInv'
  BY DEF TypeOK, KeyInv
<1>3. LiveInv'
  BY <1>0 DEF LiveInv
<1>4. SettledInv'
  BY DEF TypeOK, SettledInv
<1>5. OwnInv'
  BY DEF TypeOK, OwnInv, SettledInv
<1> QED BY <1>1, <1>2, <1>3, <1>4, <1>5

(* A duplicate awaits the future of the job in flight under its key.       *)
LEMMA SubmitJoinCore ==
  ASSUME SInv, NEW j \in Jobs, SubmitJoin(j)
  PROVE  SInv'
<1> USE JobsAssumption DEF SInv, SubmitJoin, Admitted
<1>0. Queued' = Queued
  BY DEF Queued
<1>1. TypeOK'
  BY BreakerLemma DEF TypeOK, CallState, Waiting
<1>2. KeyInv'
  BY DEF TypeOK, KeyInv
<1>3. LiveInv'
  BY <1>0 DEF LiveInv
<1>4. SettledInv'
  <2>1. awaits[j] = NoJob
    BY DEF SettledInv
  <2>2. Key[j] \in Keys /\ inflight[Key[j]] \in Jobs
    BY DEF TypeOK
  <2>3. awaits[inflight[Key[j]]] = inflight[Key[j]]
    BY <2>2 DEF OwnInv
  <2> QED BY <2>1, <2>2, <2>3 DEF TypeOK, SettledInv
<1>5. OwnInv'
  BY DEF TypeOK, OwnInv, SettledInv
<1> QED BY <1>1, <1>2, <1>3, <1>4, <1>5

(* The new job is the only one of its key that is queued or runs.          *)
LEMMA SubmitEnqueueCore ==
  ASSUME SInv, NEW j \in Jobs, SubmitEnqueue(j)
  PROVE  SInv'
<1> USE JobsAssumption DEF SInv, SubmitEnqueue, Fresh, Admitted
<1>0. /\ queue' \in Seq(Jobs) /\ Len(queue') <= QueueSize
      /\ Queued' \subseteq Queued \cup {j}
      /\ \A i, k \in 1 .. Len(queue') : queue'[i] = queue'[k] => i = k
  BY EnqueueFacts
<1>1. TypeOK'
  BY <1>0, BreakerLemma DEF TypeOK, FutureState, CallState, Waiting
<1>2. KeyInv'
  BY DEF TypeOK, KeyInv
<1>3. LiveInv'
  <2>1. handler[j] = "none"
    BY DEF SettledInv
  <2>2. \A i \in Queued : i \in Jobs /\ Key[i] # Key[j] /\ i # j
    BY DEF LiveInv, Queued, TypeOK
  <2>3. \A v \in Workers :
          running[v] # NoJob => Key[running[v]] # Key[j] /\ running[v] \in Jobs
    BY DEF LiveInv, TypeOK
  <2>4. \A i \in Queued' : /\ inflight'[Key[i]] = i
                            /\ results'[Key[i]] = NoJob
                            /\ handler'[i] = "none" /\ future'[i] # "none"
    <3> SUFFICES ASSUME NEW i \in Queued'
                 PROVE  /\ inflight'[Key[i]] = i /\ results'[Key[i]] = NoJob
                        /\ handler'[i] = "none" /\ future'[i] # "none"
      OBVIOUS
    <3>1. CASE i = j
      BY <2>1, <3>1 DEF TypeOK
    <3>2. CASE i \in Queued
      BY <2>2, <3>2 DEF TypeOK, LiveInv
    <3> QED BY <1>0, <3>1, <3>2
  <2> QED BY <1>0, <2>3, <2>4 DEF TypeOK, LiveInv
<1>4. SettledInv'
  BY DEF TypeOK, SettledInv
<1>5. OwnInv'
  BY DEF TypeOK, OwnInv, SettledInv
<1> QED BY <1>1, <1>2, <1>3, <1>4, <1>5

(* The owner reports what its own future says.                             *)
LEMMA ResumeOwnerCore ==
  ASSUME SInv, NEW j \in Jobs, ResumeOwner(j)
  PROVE  SInv'
<1> USE JobsAssumption DEF SInv, ResumeOwner, Answer
<1>0. Queued' = Queued
  BY DEF Queued
<1>1. TypeOK'
  BY OutcomeFacts, BreakerLemma DEF TypeOK, CallState
<1>2. KeyInv'
  BY DEF KeyInv
<1>3. LiveInv'
  BY <1>0 DEF LiveInv
<1>4. SettledInv'
  BY OutcomeFacts DEF SettledInv, Ended
<1>5. OwnInv'
  BY DEF OwnInv
<1> QED BY <1>1, <1>2, <1>3, <1>4, <1>5

(* A duplicate reports what the shared future says.                        *)
LEMMA ResumeJoinedCore ==
  ASSUME SInv, NEW j \in Jobs, ResumeJoined(j)
  PROVE  SInv'
<1> USE JobsAssumption DEF SInv, ResumeJoined, Answer
<1>0. Queued' = Queued
  BY DEF Queued
<1>1. TypeOK'
  BY OutcomeFacts DEF TypeOK, CallState
<1>2. KeyInv'
  BY DEF KeyInv
<1>3. LiveInv'
  BY <1>0 DEF LiveInv
<1>4. SettledInv'
  BY OutcomeFacts DEF SettledInv, Ended
<1>5. OwnInv'
  BY DEF OwnInv
<1> QED BY <1>1, <1>2, <1>3, <1>4, <1>5

(* The timer cancels a future whose owner waits no longer.                 *)
LEMMA TimeoutFiresCore ==
  ASSUME SInv, NEW j \in Jobs, TimeoutFires(j)
  PROVE  SInv'
<1> USE JobsAssumption DEF SInv, TimeoutFires, Resolve
<1>0. Queued' = Queued
  BY DEF Queued
<1>1. TypeOK'
  BY DEF TypeOK, FutureState, CallState, Waiting
<1>2. KeyInv'
  BY DEF KeyInv
<1>3. LiveInv'
  BY <1>0 DEF LiveInv
<1>4. SettledInv'
  BY DEF TypeOK, SettledInv
<1>5. OwnInv'
  BY DEF OwnInv
<1> QED BY <1>1, <1>2, <1>3, <1>4, <1>5

(* The timeout of a mutation is reported as a review.                      *)
LEMMA ResumeTimedOutCore ==
  ASSUME SInv, NEW j \in Jobs, ResumeTimedOut(j)
  PROVE  SInv'
<1> USE JobsAssumption DEF SInv, ResumeTimedOut, MarkUncertain, Answer
<1>0. Queued' = Queued
  BY DEF Queued
<1>1. TypeOK'
  BY BreakerLemma DEF TypeOK, CallState, Ended, ReconcState
<1>2. KeyInv'
  BY DEF KeyInv
<1>3. LiveInv'
  BY <1>0 DEF LiveInv
<1>4. SettledInv'
  BY DEF TypeOK, SettledInv
<1>5. OwnInv'
  BY DEF OwnInv
<1> QED BY <1>1, <1>2, <1>3, <1>4, <1>5

-----------------------------------------------------------------------------
(* What a step of the service does to handlers and calls                   *)

(* The steps of the service that no request takes, start() and stop()      *)
(* included.                                                               *)
PoolStep == Start \/ Stop \/ ServiceStep

(* Only the handler of a job that was queued or running changes.           *)
HandlersKept ==
  \A j \in Jobs :
    handler[j] # "started" /\ j \notin Queued => handler'[j] = handler[j]

(* What a call that ends says of the handlers.                             *)
CallsEnd ==
  \A j \in Jobs :
    \/ call'[j] = call[j]
    \/ /\ call[j] # "new"
       /\ call'[j] = "succeeded" =>
            awaits[j] # NoJob /\ handler[awaits[j]] = "succeeded"
       /\ awaits[j] = j /\ call'[j] \in {"failed", "cancelled"} /\ j \in Mutations
            => handler[j] \in {"rejected", "raised"}

(* Every step of the service keeps the invariant of the process.           *)
LEMMA PoolCore ==
  ASSUME SInv, PoolStep
  PROVE  SInv'
<1>1. ASSUME NEW w \in Workers,
             \/ WorkerExit(w) \/ Interrupt(w) \/ Take(w) \/ TakeInvalid(w)
             \/ HandlerSucceeds(w) \/ HandlerRaises(w)
      PROVE  SInv'
  BY <1>1, WorkerExitCore, InterruptCore, TakeCore, TakeInvalidCore,
     HandlerSucceedsCore, HandlerRaisesCore
<1>2. ASSUME NEW j \in Jobs,
             \/ ResumeOwner(j) \/ ResumeJoined(j)
             \/ TimeoutFires(j) \/ ResumeTimedOut(j)
      PROVE  SInv'
  BY <1>2, ResumeOwnerCore, ResumeJoinedCore, TimeoutFiresCore, ResumeTimedOutCore
<1> QED
  BY <1>1, <1>2, StartCore, StopCore, StopFinishCore, CoolDownCore
     DEF PoolStep, ServiceStep

(* So does every submission.                                               *)
LEMMA SubmitCore ==
  ASSUME SInv, NEW j \in Jobs, Submit(j)
  PROVE  SInv'
BY SubmitRefusedCore, SubmitCompletedCore, SubmitJoinCore, SubmitEnqueueCore
   DEF Submit

(* No step of the service starts a handler of a job that is not queued, or *)
(* reports what the handler does not bear out.                             *)
LEMMA PoolEffects ==
  ASSUME SInv, PoolStep
  PROVE  /\ awaits' = awaits /\ Queued' \subseteq Queued
         /\ HandlersKept /\ CallsEnd
<1> USE JobsAssumption DEF SInv, HandlersKept, CallsEnd
<1>0. /\ running \in [Workers -> Jobs \cup {NoJob}]
      /\ handler \in [Jobs -> HandlerState] /\ call \in [Jobs -> CallState]
      /\ awaits \in [Jobs -> Jobs \cup {NoJob}] /\ future \in [Jobs -> FutureState]
  BY DEF TypeOK
<1>1. CASE Start \/ Stop \/ StopFinish \/ CoolDown
  BY <1>1 DEF Start, Stop, DrainQueue, StopFinish, CoolDown, Queued
<1>2. ASSUME NEW w \in Workers, WorkerExit(w)
      PROVE  /\ awaits' = awaits /\ Queued' \subseteq Queued
             /\ HandlersKept /\ CallsEnd
  BY <1>2 DEF WorkerExit, Queued
<1>3. ASSUME NEW w \in Workers,
             Interrupt(w) \/ HandlerSucceeds(w) \/ HandlerRaises(w)
      PROVE  /\ awaits' = awaits /\ Queued' \subseteq Queued
             /\ HandlersKept /\ CallsEnd
  <2>1. running[w] \in Jobs /\ handler[running[w]] = "started"
    BY <1>0, <1>3 DEF Interrupt, HandlerSucceeds, HandlerRaises, LiveInv
  <2> QED
    BY <1>0, <1>3, <2>1 DEF Interrupt, HandlerSucceeds, HandlerRaises, Queued
<1>4. ASSUME NEW w \in Workers, Take(w) \/ TakeInvalid(w)
      PROVE  /\ awaits' = awaits /\ Queued' \subseteq Queued
             /\ HandlersKept /\ CallsEnd
  <2>1. /\ Head(queue) \in Jobs /\ Head(queue) \in Queued
        /\ Queued' \subseteq Queued \ {Head(queue)}
    BY <1>4, TakeFacts DEF Take, TakeInvalid
  <2> QED BY <1>0, <1>4, <2>1 DEF Take, TakeInvalid
<1>5. ASSUME NEW j \in Jobs, ResumeOwner(j)
      PROVE  /\ awaits' = awaits /\ Queued' \subseteq Queued
             /\ HandlersKept /\ CallsEnd
  <2>1. /\ awaits[j] = j /\ call[j] = "waiting" /\ future[j] \in Settled
        /\ future[j] # "cancelled"
    BY <1>5 DEF ResumeOwner, SettledInv
  <2>2. /\ OwnerOutcome(future[j]) = "succeeded" => future[j] = "ok"
        /\ OwnerOutcome(future[j]) \in {"failed", "cancelled"} =>
             future[j] \in {"failed", "stop_error"}
    BY <2>1 DEF Settled, FutureState, OwnerOutcome
  <2>3. /\ OwnerOutcome(future[j]) = "succeeded" => handler[j] = "succeeded"
        /\ OwnerOutcome(future[j]) \in {"failed", "cancelled"} /\ j \in Mutations
             => handler[j] \in {"rejected", "raised"}
    BY <2>2 DEF SettledInv
  <2> QED BY <1>0, <1>5, <2>1, <2>3 DEF ResumeOwner, Answer, Queued
<1>6. ASSUME NEW j \in Jobs, ResumeJoined(j)
      PROVE  /\ awaits' = awaits /\ Queued' \subseteq Queued
             /\ HandlersKept /\ CallsEnd
  <2>1. awaits[j] \in Jobs /\ call[j] = "joined" /\ future[awaits[j]] \in Settled
    BY <1>0, <1>6 DEF ResumeJoined, SettledInv
  <2>2. JoinedOutcome(future[awaits[j]]) = "succeeded" =>
          handler[awaits[j]] = "succeeded"
    BY <2>1, OutcomeFacts DEF SettledInv
  <2>3. awaits[j] # j
    BY <2>1 DEF SettledInv
  <2> QED BY <1>0, <1>6, <2>1, <2>2, <2>3 DEF ResumeJoined, Answer, Queued
<1>7. ASSUME NEW j \in Jobs, TimeoutFires(j) \/ ResumeTimedOut(j)
      PROVE  /\ awaits' = awaits /\ Queued' \subseteq Queued
             /\ HandlersKept /\ CallsEnd
  BY <1>0, <1>7 DEF TimeoutFires, ResumeTimedOut, Answer, Queued
<1> QED
  BY <1>1, <1>2, <1>3, <1>4, <1>5, <1>6, <1>7 DEF PoolStep, ServiceStep

(* A submission takes on its own job at most, and starts no handler.       *)
LEMMA SubmitEffects ==
  ASSUME SInv, NEW j \in Jobs, Submit(j)
  PROVE  /\ handler' = handler /\ Queued' \subseteq Queued \cup {j}
         /\ call[j] = "new" /\ handler[j] = "none" /\ call'[j] # "cancelled"
         /\ \A i \in Jobs \ {j} : call'[i] = call[i] /\ awaits'[i] = awaits[i]
         /\ call'[j] = "succeeded" =>
              awaits'[j] # NoJob /\ handler[awaits'[j]] = "succeeded"
         /\ awaits'[j] = j => call'[j] \in {"succeeded", "waiting", "joined"}
<1> USE JobsAssumption DEF SInv
<1>0. /\ call \in [Jobs -> CallState] /\ awaits \in [Jobs -> Jobs \cup {NoJob}]
      /\ results \in [Keys -> Jobs \cup {NoJob}]
  BY DEF TypeOK
<1>1. call[j] = "new" /\ handler[j] = "none" /\ awaits[j] = NoJob
  BY DEF Submit, SubmitNotRunning, SubmitCircuitOpen, SubmitForged, SubmitCompleted,
         SubmitJoin, SubmitQueueFull, SubmitEnqueue, Fresh, Admitted, SettledInv
<1>2. CASE \/ SubmitNotRunning(j) \/ SubmitCircuitOpen(j)
           \/ SubmitForged(j) \/ SubmitQueueFull(j)
  BY <1>0, <1>1, <1>2
     DEF SubmitNotRunning, SubmitCircuitOpen, SubmitForged, SubmitQueueFull, Answer,
         Queued
<1>3. CASE SubmitCompleted(j)
  <2>1. results[Key[j]] # NoJob /\ handler[results[Key[j]]] = "succeeded"
    BY <1>3 DEF SubmitCompleted, KeyInv
  <2> QED BY <1>0, <1>1, <1>3, <2>1 DEF SubmitCompleted, Answer, Queued
<1>4. CASE SubmitJoin(j)
  BY <1>0, <1>1, <1>4 DEF SubmitJoin, Queued
<1>5. CASE SubmitEnqueue(j)
  <2>1. Queued' \subseteq Queued \cup {j}
    BY <1>5, EnqueueFacts DEF SubmitEnqueue, Fresh
  <2> QED BY <1>0, <1>1, <1>5, <2>1 DEF SubmitEnqueue
<1> QED BY <1>2, <1>3, <1>4, <1>5 DEF Submit

-----------------------------------------------------------------------------
(* The gateway and the requests                                            *)

USE DEF GInv

(* A job that is answered, and one whose handler is over, is not queued.   *)
LEMMA QueuedFacts ==
  ASSUME SInv, NEW j \in Queued
  PROVE  j \in Jobs /\ awaits[j] = j /\ handler[j] = "none"
<1>1. j \in Jobs
  BY DEF SInv, TypeOK, Queued
<1>2. inflight[Key[j]] = j /\ handler[j] = "none"
  BY DEF SInv, LiveInv
<1>3. awaits[j] = j
  BY <1>1, <1>2, JobsAssumption DEF SInv, OwnInv
<1> QED BY <1>1, <1>2, <1>3

(* The service goes on while the gateway waits or has given up.            *)
LEMMA PoolKeeps ==
  ASSUME RemoteTypeOK, SInv, GInv, PoolStep, UNCHANGED << http, client >>
  PROVE  GInv'
<1>0. /\ awaits' = awaits /\ Queued' \subseteq Queued
      /\ HandlersKept /\ CallsEnd
  BY PoolEffects
<1>1. PostInv'
  BY <1>0 DEF PostInv, CallsEnd, MayAttempt
<1>2. ServedInv'
  <2>1. awaits \in [Jobs -> Jobs \cup {NoJob}]
    BY DEF SInv, TypeOK
  <2>2. \A j \in Jobs :
          \/ handler[j] \in {"rejected", "raised", "succeeded"}
          \/ awaits[j] # j /\ handler[j] = "none"
          => handler'[j] = handler[j]
    BY <1>0, QueuedFacts DEF HandlersKept
  <2> SUFFICES ASSUME NEW j \in Jobs, http[j] = "serving"
               PROVE  /\ awaits[j] # j => handler'[j] = "none"
                      /\ call'[j] = "succeeded" =>
                           awaits[j] # NoJob /\ handler'[awaits[j]] = "succeeded"
                      /\ /\ awaits[j] = j /\ j \in Mutations
                         /\ call'[j] \in {"failed", "cancelled"}
                         => handler'[j] \in {"rejected", "raised"}
    BY <1>0 DEF ServedInv
  <2>3. /\ awaits[j] # j => handler[j] = "none"
        /\ call'[j] = "succeeded" =>
             awaits[j] # NoJob /\ handler[awaits[j]] = "succeeded"
        /\ awaits[j] = j /\ j \in Mutations /\ call'[j] \in {"failed", "cancelled"}
             => handler[j] \in {"rejected", "raised"}
    <3>1. CASE call'[j] = call[j]
      BY <3>1 DEF ServedInv
    <3>2. CASE call'[j] # call[j]
      BY <1>0, <3>2 DEF ServedInv, CallsEnd
    <3> QED BY <3>1, <3>2
  <2> QED BY <2>1, <2>2, <2>3
<1>3. OwnFailure'
  <2> SUFFICES ASSUME NEW j \in Mutations, client[j] = "failed"
               PROVE  /\ handler'[j] \in {"none", "rejected", "raised"}
                      /\ j \notin Queued' /\ http[j] = "over"
    BY DEF OwnFailure
  <2>1. /\ handler[j] \in {"none", "rejected", "raised"}
        /\ j \notin Queued /\ http[j] = "over" /\ j \in Jobs
    BY JobsAssumption DEF OwnFailure
  <2> QED BY <1>0, <2>1 DEF HandlersKept
<1>4. RemoteSuccessIsReal'
  <2>1. \A j \in Jobs : handler[j] = "succeeded" => handler'[j] = "succeeded"
    BY <1>0, QueuedFacts DEF HandlersKept
  <2> QED BY <2>1 DEF RemoteSuccessIsReal
<1> QED BY <1>1, <1>2, <1>3, <1>4

(* A request is accepted once: its job was unknown to this process and to  *)
(* every earlier one.                                                      *)
LEMMA ServeKeeps ==
  ASSUME RemoteTypeOK, SInv, GInv, NEW j \in Jobs, Serve(j)
  PROVE  GInv'
<1>0. /\ http[j] = "sent" /\ client' = client
      /\ http' = [http EXCEPT ![j] = "serving"]
      /\ http \in [Jobs -> {"none", "sent", "serving", "over"}]
  BY DEF Serve, RemoteTypeOK
<1>1. /\ handler' = handler /\ Queued' \subseteq Queued \cup {j}
      /\ call[j] = "new" /\ handler[j] = "none" /\ call'[j] # "cancelled"
      /\ \A i \in Jobs \ {j} : call'[i] = call[i] /\ awaits'[i] = awaits[i]
      /\ call'[j] = "succeeded" =>
           awaits'[j] # NoJob /\ handler[awaits'[j]] = "succeeded"
      /\ awaits'[j] = j => call'[j] \in {"succeeded", "waiting", "joined"}
  BY SubmitEffects DEF Serve
<1>2. PostInv'
  BY <1>0, <1>1 DEF PostInv, MayAttempt
<1>3. ServedInv'
  <2> SUFFICES ASSUME NEW i \in Jobs, http'[i] = "serving"
               PROVE  /\ awaits'[i] # i => handler[i] = "none"
                      /\ call'[i] = "succeeded" =>
                           awaits'[i] # NoJob /\ handler[awaits'[i]] = "succeeded"
                      /\ /\ awaits'[i] = i /\ i \in Mutations
                         /\ call'[i] \in {"failed", "cancelled"}
                         => handler[i] \in {"rejected", "raised"}
    BY <1>1 DEF ServedInv
  <2>1. CASE i = j
    BY <1>1, <2>1
  <2>2. CASE i # j
    BY <1>0, <1>1, <2>2 DEF ServedInv
  <2> QED BY <2>1, <2>2
<1>4. OwnFailure'
  <2>1. client[j] # "failed" \/ j \notin Mutations
    BY <1>0 DEF OwnFailure
  <2> QED BY <1>0, <1>1, <2>1, JobsAssumption DEF OwnFailure
<1>5. RemoteSuccessIsReal'
  BY <1>0, <1>1 DEF RemoteSuccessIsReal
<1> QED BY <1>2, <1>3, <1>4, <1>5

(* The next attempt of a call is posted when all earlier ones are told.    *)
LEMMA PostKeeps ==
  ASSUME RemoteTypeOK, SInv, GInv, NEW j \in Jobs, Post(j)
  PROVE  GInv'
<1>0. /\ client[j] = "idle" /\ MayAttempt(j) /\ UNCHANGED vars
      /\ client' = [client EXCEPT ![j] = "waiting"]
      /\ http' = [http EXCEPT ![j] = "sent"]
      /\ http \in [Jobs -> {"none", "sent", "serving", "over"}]
      /\ client \in [Jobs -> {"idle", "waiting"} \cup Told]
  BY DEF Post, RemoteTypeOK
<1>1. \A i \in Jobs : MayAttempt(i) => MayAttempt(i)'
  BY <1>0 DEF MayAttempt, Earlier
<1>2. PostInv'
  BY <1>0, <1>1 DEF PostInv, vars
<1>3. ServedInv'
  BY <1>0 DEF ServedInv, vars
<1>4. OwnFailure'
  BY <1>0, JobsAssumption DEF OwnFailure, Queued, vars
<1>5. RemoteSuccessIsReal'
  BY <1>0 DEF RemoteSuccessIsReal, Earlier, vars
<1> QED BY <1>2, <1>3, <1>4, <1>5

(* What the client raises for a mutation when the transport fails is no    *)
(* plain failure.                                                          *)
LEMMA GiveUpKeeps ==
  ASSUME RemoteTypeOK, SInv, GInv, NEW j \in Jobs, GiveUp(j)
  PROVE  GInv'
<1>0. /\ client[j] = "waiting" /\ UNCHANGED << vars, http >>
      /\ client' = [client EXCEPT ![j] = TransportError(j)]
      /\ TransportError(j) \in {"failed", "needs_review"}
      /\ j \in Mutations => TransportError(j) = "needs_review"
      /\ client \in [Jobs -> {"idle", "waiting"} \cup Told]
  BY DEF GiveUp, TransportError, RemoteTypeOK
<1>1. \A i \in Jobs : MayAttempt(i) => MayAttempt(i)'
  BY <1>0 DEF MayAttempt, Earlier
<1>2. PostInv'
  BY <1>0, <1>1 DEF PostInv, vars
<1>3. ServedInv'
  BY <1>0 DEF ServedInv, vars
<1>4. OwnFailure'
  BY <1>0, JobsAssumption DEF OwnFailure, Queued, vars
<1>5. RemoteSuccessIsReal'
  BY <1>0 DEF RemoteSuccessIsReal, Earlier, vars
<1> QED BY <1>2, <1>3, <1>4, <1>5

(* A lost request leaves a client that waits until it gives up.            *)
LEMMA LoseKeeps ==
  ASSUME RemoteTypeOK, SInv, GInv, NEW j \in Jobs, Lose(j)
  PROVE  GInv'
<1>0. /\ http[j] = "sent" /\ UNCHANGED << vars, client >>
      /\ http' = [http EXCEPT ![j] = "over"]
      /\ http \in [Jobs -> {"none", "sent", "serving", "over"}]
  BY DEF Lose, RemoteTypeOK
<1>1. PostInv'
  BY <1>0 DEF PostInv, MayAttempt, vars
<1>2. ServedInv'
  BY <1>0 DEF ServedInv, vars
<1>3. OwnFailure'
  BY <1>0, JobsAssumption DEF OwnFailure, Queued, vars
<1>4. RemoteSuccessIsReal'
  BY <1>0 DEF RemoteSuccessIsReal, vars
<1> QED BY <1>1, <1>2, <1>3, <1>4

(* A refused job was never submitted.                                      *)
LEMMA RefuseKeeps ==
  ASSUME RemoteTypeOK, SInv, GInv, NEW j \in Jobs, Refuse(j)
  PROVE  GInv'
<1>0. /\ http[j] = "sent" /\ UNCHANGED vars
      /\ http' = [http EXCEPT ![j] = "over"]
      /\ http \in [Jobs -> {"none", "sent", "serving", "over"}]
      /\ client \in [Jobs -> {"idle", "waiting"} \cup Told]
      /\ client' = [client EXCEPT ![j] = IF @ = "waiting" THEN "failed" ELSE @]
  BY DEF Refuse, RemoteTypeOK
<1>1. \A i \in Jobs : MayAttempt(i) => MayAttempt(i)'
  BY <1>0 DEF MayAttempt, Earlier
<1>2. PostInv'
  BY <1>0, <1>1 DEF PostInv, vars
<1>3. ServedInv'
  BY <1>0 DEF ServedInv, vars
<1>4. OwnFailure'
  <2>1. handler[j] = "none" /\ awaits[j] = NoJob /\ j \notin Queued
    BY <1>0, QueuedFacts, JobsAssumption DEF PostInv, SInv, SettledInv
  <2> QED BY <1>0, <2>1, JobsAssumption DEF OwnFailure, Queued, vars
<1>5. RemoteSuccessIsReal'
  BY <1>0 DEF RemoteSuccessIsReal, Earlier, vars
<1> QED BY <1>2, <1>3, <1>4, <1>5

(* The answer.  A success that is another attempt's is one that came       *)
(* before: a later attempt would have found this client told.              *)
LEMMA RespondKeeps ==
  ASSUME RemoteTypeOK, SInv, GInv, NEW j \in Jobs, Respond(j)
  PROVE  GInv'
<1>0. /\ http[j] = "serving" /\ call[j] \in Ended /\ UNCHANGED vars
      /\ http' = [http EXCEPT ![j] = "over"]
      /\ http \in [Jobs -> {"none", "sent", "serving", "over"}]
      /\ client \in [Jobs -> {"idle", "waiting"} \cup Told]
      /\ client' = [client EXCEPT ![j] = IF @ = "waiting" THEN Reply(j) ELSE @]
  BY DEF Respond, RemoteTypeOK
<1>a. /\ Reply(j) \in Told
      /\ Reply(j) = "failed" => call[j] \in {"failed", "cancelled"}
      /\ Reply(j) = "succeeded" => call[j] = "succeeded"
  BY <1>0 DEF Reply, Told, Ended
<1>1. \A i \in Jobs : MayAttempt(i) => MayAttempt(i)'
  BY <1>0 DEF MayAttempt, Earlier
<1>2. PostInv'
  BY <1>0, <1>a, <1>1 DEF PostInv, vars, Told
<1>3. ServedInv'
  BY <1>0 DEF ServedInv, vars
<1>4. OwnFailure'
  <2>1. ASSUME j \in Mutations, Reply(j) = "failed"
        PROVE  handler[j] \in {"none", "rejected", "raised"} /\ j \notin Queued
    BY <1>0, <1>a, <2>1, QueuedFacts DEF ServedInv
  <2> QED BY <1>0, <2>1, JobsAssumption DEF OwnFailure, Queued, vars
<1>5. RemoteSuccessIsReal'
  <2>1. ASSUME client[j] = "waiting", Reply(j) = "succeeded"
        PROVE  \E i \in Jobs :
                 /\ Key[i] = Key[j] /\ handler[i] = "succeeded"
                 /\ \/ i = j
                    \/ i \in Earlier(j) /\ client[i] \in {"failed", "needs_review"}
    <3>1. /\ awaits[j] \in Jobs /\ handler[awaits[j]] = "succeeded"
          /\ Key[awaits[j]] = Key[j]
      BY <1>0, <1>a, <2>1, JobsAssumption DEF ServedInv, SInv, TypeOK, KeyInv
    <3>2. CASE awaits[j] = j
      BY <3>1, <3>2
    <3>3. CASE awaits[j] # j
      <4>1. client[awaits[j]] # "idle" /\ MayAttempt(awaits[j]) /\ MayAttempt(j)
        BY <1>0, <2>1, <3>1 DEF PostInv, SInv, SettledInv
      <4>2. Attempt[awaits[j]] # Attempt[j]
        BY <3>1, <3>3, AttemptAssumption
      <4>3. j \notin Earlier(awaits[j])
        BY <2>1, <4>1 DEF MayAttempt
      <4>4. awaits[j] \in Earlier(j)
        BY <3>1, <4>2, <4>3, AttemptAssumption DEF Earlier
      <4> QED BY <3>1, <4>1, <4>4 DEF MayAttempt
    <3> QED BY <3>2, <3>3
  <2>2. \A i \in Jobs : client[i] \in {"failed", "needs_review"} =>
                          client'[i] = client[i]
    BY <1>0
  <2>3. \A i \in Jobs : client'[i] = "succeeded" =>
          \/ client[i] = "succeeded"
          \/ i = j /\ client[j] = "waiting" /\ Reply(j) = "succeeded"
    BY <1>0
  <2> QED BY <1>0, <2>1, <2>2, <2>3 DEF RemoteSuccessIsReal, Earlier, vars
<1> QED BY <1>2, <1>3, <1>4, <1>5

(* A process that ends forgets its jobs, and cuts short what it runs.      *)
LEMMA ForgetKeeps ==
  ASSUME RemoteTypeOK, SInv, GInv, ForgetEverything, client' = client
  PROVE  SInv' /\ GInv'
<1> USE JobsAssumption DEF ForgetEverything
<1>0. /\ http \in [Jobs -> {"none", "sent", "serving", "over"}]
      /\ running \in [Workers -> Jobs \cup {NoJob}]
      /\ \A w \in Workers : running[w] # NoJob => handler[running[w]] = "started"
      /\ Queued' = {}
  BY DEF SInv, TypeOK, LiveInv, RemoteTypeOK, Queued
<1>1. TypeOK'
  BY ThresholdAssumption
     DEF SInv, TypeOK, FutureState, ReconcState, CallState, Ended, HandlerState,
         Breaker, ClosedBreaker, OpenedAt
<1>2. KeyInv' /\ LiveInv' /\ OwnInv'
  BY <1>0 DEF KeyInv, LiveInv, OwnInv
<1>3. SettledInv'
  BY <1>0 DEF SInv, SettledInv, Waiting
<1>4. PostInv'
  BY <1>0 DEF PostInv, MayAttempt, Waiting
<1>5. ServedInv'
  BY <1>0 DEF ServedInv
<1>6. \A j \in Jobs : handler[j] # "started" => handler'[j] = handler[j]
  BY <1>0
<1>7. OwnFailure' /\ RemoteSuccessIsReal'
  BY <1>0, <1>6 DEF OwnFailure, RemoteSuccessIsReal
<1> QED BY <1>1, <1>2, <1>3, <1>4, <1>5, <1>7 DEF SInv

-----------------------------------------------------------------------------
(* All steps                                                               *)

(* Both deployments start with an empty service and no request.            *)
LEMMA RemoteInitInv == RemoteInit => RInv
<1> SUFFICES ASSUME RemoteInit PROVE RInv
  OBVIOUS
<1>1. IInv
  BY InitInv DEF RemoteInit
<1>2. RemoteTypeOK
  BY <1>1 DEF RemoteInit, RemoteTypeOK, IInv
<1>3. SInv
  BY <1>1 DEF RemoteInit, Init, IInv, SInv, SettledInv, OwnInv
<1>4. GInv
  BY JobsAssumption
     DEF RemoteInit, Init, PostInv, ServedInv, OwnFailure,
         RemoteSuccessIsReal
<1> QED BY <1>1, <1>2, <1>3, <1>4 DEF RemoteInit, RInv

(* The steps of a remote deployment.                                       *)
LEMMA RemoteStepInv ==
  ASSUME RemoteTypeOK, SInv, GInv, RemoteStep
  PROVE  SInv' /\ GInv'
<1> USE JobsAssumption
<1>1. ASSUME NEW j \in Jobs,
             Post(j) \/ GiveUp(j) \/ Lose(j) \/ Refuse(j) \/ Respond(j)
      PROVE  SInv' /\ GInv'
  <2>1. UNCHANGED vars
    BY <1>1 DEF Post, GiveUp, Lose, Refuse, Respond
  <2>2. SInv'
    BY <2>1 DEF SInv, TypeOK, KeyInv, LiveInv, SettledInv, OwnInv, Queued, vars
  <2> QED
    BY <1>1, <2>2, PostKeeps, GiveUpKeeps, LoseKeeps, RefuseKeeps, RespondKeeps
<1>2. ASSUME NEW j \in Jobs, Serve(j)
      PROVE  SInv' /\ GInv'
  BY <1>2, SubmitCore, ServeKeeps DEF Serve
<1>3. CASE Boot \/ StopService \/ (ServiceStep /\ UNCHANGED remoteVars)
  <2>1. PoolStep /\ UNCHANGED << http, client >>
    BY <1>3 DEF Boot, StopService, PoolStep, remoteVars
  <2> QED BY <2>1, PoolCore, PoolKeeps
<1>4. CASE Terminate
  BY <1>4
     DEF Terminate, SInv, TypeOK, KeyInv, LiveInv, SettledInv, OwnInv, Queued, vars,
         PostInv, MayAttempt, ServedInv, OwnFailure, RemoteSuccessIsReal
<1>5. CASE Exit \/ Crash
  BY <1>5, ForgetKeeps DEF Exit, Crash
<1> QED BY <1>1, <1>2, <1>3, <1>4, <1>5 DEF RemoteStep

(* The gateway's own variables keep their types.                           *)
LEMMA RemoteTypes ==
  ASSUME RemoteTypeOK, TypeOK', RemoteStep
  PROVE  RemoteTypeOK' /\ deployment' = deployment
<1>0. /\ deployment \in {"queued", "remote"}
      /\ server \in {"down", "up", "draining", "stopping"}
      /\ http \in [Jobs -> {"none", "sent", "serving", "over"}]
      /\ client \in [Jobs -> {"idle", "waiting"} \cup Told]
  BY DEF RemoteTypeOK
<1>1. ASSUME NEW j \in Jobs,
             \/ Post(j) \/ GiveUp(j) \/ Lose(j)
             \/ Refuse(j) \/ Serve(j) \/ Respond(j)
      PROVE  RemoteTypeOK' /\ deployment' = deployment
  <2>1. TransportError(j) \in Told
    BY DEF TransportError, Told
  <2>2. call[j] \in Ended => Reply(j) \in Told
    BY DEF Reply, Ended, Told
  <2> QED
    BY <1>0, <1>1, <2>1, <2>2
       DEF Post, GiveUp, Lose, Refuse, Serve, Respond, RemoteTypeOK, Told
<1>2. CASE Boot \/ Terminate \/ StopService
  BY <1>0, <1>2 DEF Boot, Terminate, StopService, RemoteTypeOK
<1>3. CASE Exit \/ Crash
  BY <1>0, <1>3 DEF Exit, Crash, ForgetEverything, RemoteTypeOK
<1>4. CASE ServiceStep /\ UNCHANGED remoteVars
  BY <1>0, <1>4 DEF remoteVars, RemoteTypeOK
<1> QED BY <1>1, <1>2, <1>3, <1>4 DEF RemoteStep

(* Every step of either deployment preserves the invariant.                *)
LEMMA RemoteNextInv == RInv /\ [RemoteNext]_allVars => RInv'
<1> SUFFICES ASSUME RInv, [RemoteNext]_allVars PROVE RInv'
  OBVIOUS
<1>1. CASE deployment = "queued" /\ Next /\ UNCHANGED remoteVars
  <2>1. IInv'
    BY <1>1, NextInv DEF RInv
  <2> QED BY <1>1, <2>1 DEF RInv, RemoteTypeOK, remoteVars, IInv
<1>2. CASE deployment = "remote" /\ RemoteStep
  <2>1. SInv' /\ GInv'
    BY <1>2, RemoteStepInv DEF RInv
  <2>2. RemoteTypeOK' /\ deployment' = deployment
    BY <1>2, <2>1, RemoteTypes DEF RInv, SInv
  <2> QED BY <1>2, <2>1, <2>2 DEF RInv
<1>3. CASE UNCHANGED allVars
  BY <1>3 DEF allVars, vars, remoteVars, RInv, RemoteTypeOK, IInv, TypeOK, KeyInv,
              LiveInv, FutureInv, CallInv, SuccessIsReal,
              UnsuccessfulMutationIsRecorded, Queued, SInv, SettledInv, OwnInv,
              PostInv, MayAttempt, ServedInv, OwnFailure,
              RemoteSuccessIsReal
<1> QED BY <1>1, <1>2, <1>3 DEF RemoteNext

-----------------------------------------------------------------------------
(* Theorems                                                                *)

(* The inductive invariant holds in every reachable state of both          *)
(* deployments.                                                            *)
THEOREM RemoteInvariance == RemoteSpec => []RInv
BY RemoteInitInv, RemoteNextInv, PTL DEF RemoteSpec

(* Every variable keeps its type, across crashes and restarts.             *)
THEOREM RemoteTypeCorrect == RemoteSpec => []RemoteTypeOK
<1>1. RInv => RemoteTypeOK
  BY DEF RInv
<1> QED BY <1>1, RemoteInvariance, PTL

(* RemoteWorkerClient.execute(): when a mutation fails plainly, no attempt *)
(* of its call has succeeded or will, but for those of an idempotent tool  *)
(* that the gateway was told to review or that it has made since.  A job   *)
(* of the same key is this one, a later one, or an earlier one; an earlier *)
(* one has been told, and was told a plain failure of its own or a review. *)
THEOREM DoubtfulAttemptsAreTold == RemoteSpec => []DoubtIsTold
<1>1. ASSUME SInv, GInv, RemoteTypeOK
      PROVE  DoubtIsTold
  <2> SUFFICES ASSUME NEW i \in Mutations, NEW j \in Mutations,
                      client[j] = "failed", Key[i] = Key[j]
               PROVE  \/ NoSuccessToCome(i)
                      \/ /\ Key[j] \in Idempotent
                         /\ client[i] = "needs_review" \/ j \in Earlier(i)
    BY DEF DoubtIsTold
  <2>0. i \in Jobs /\ j \in Jobs
    BY JobsAssumption
  <2>1. CASE client[i] = "failed"
    BY <1>1, <2>1 DEF OwnFailure, NoSuccessToCome
  <2>2. CASE client[i] = "idle"
    <3>1. http[i] = "none" /\ call[i] = "new"
      BY <1>1, <2>0, <2>2 DEF PostInv
    <3>2. handler[i] = "none" /\ awaits[i] = NoJob
      BY <1>1, <2>0, <3>1 DEF SInv, SettledInv
    <3>3. i \notin Queued
      BY <1>1, <2>0, <3>2, QueuedFacts, JobsAssumption
    <3> QED BY <3>1, <3>2, <3>3 DEF NoSuccessToCome
  <2>3. CASE client[i] \notin {"idle", "failed"}
    <3>1. Attempt[i] \in Nat /\ Attempt[j] \in Nat /\ Attempt[i] # Attempt[j]
      BY <2>0, <2>3, AttemptAssumption
    <3>2. MayAttempt(i) /\ MayAttempt(j)
      BY <1>1, <2>0, <2>3 DEF PostInv
    <3>3. CASE Attempt[i] < Attempt[j]
      BY <2>0, <2>3, <3>2, <3>3 DEF MayAttempt, Earlier
    <3>4. CASE Attempt[j] < Attempt[i]
      BY <2>0, <3>2, <3>4 DEF MayAttempt, Earlier
    <3> QED BY <3>1, <3>3, <3>4
  <2> QED BY <2>1, <2>2, <2>3
<1>2. ASSUME RemoteTypeOK, \A j \in Jobs : client[j] = "idle"
      PROVE  DoubtIsTold
  BY <1>2, JobsAssumption DEF DoubtIsTold
<1>3. RInv => DoubtIsTold
  BY <1>1, <1>2 DEF RInv, RemoteTypeOK
<1> QED BY <1>3, RemoteInvariance, PTL

(* RemoteWorkerClient.execute(): a success is the success of a handler of  *)
(* this attempt, or of an earlier one that the gateway had given up.       *)
THEOREM RealSuccess == RemoteSpec => []RemoteSuccessIsReal
<1>1. RInv => RemoteSuccessIsReal
  BY DEF RInv, RemoteTypeOK, RemoteSuccessIsReal
<1> QED BY <1>1, RemoteInvariance, PTL

(* _inflight: also behind HTTP, with jobs the gateway has given up still   *)
(* running, no two tasks execute jobs of one key at the same time.         *)
THEOREM RemoteExclusion == RemoteSpec => []NoConcurrentDuplicate
<1>1. RInv => NoConcurrentDuplicate
  BY DEF RInv, RemoteTypeOK, IInv, SInv, LiveInv, NoConcurrentDuplicate
<1> QED BY <1>1, RemoteInvariance, PTL

(* circuit.py: the breaker of either deployment has an opening time        *)
(* exactly when it counts a full threshold of failures.                    *)
THEOREM RemoteBreakerSound == RemoteSpec => []OpenExactlyAtThreshold
<1>1. RemoteInit => OpenExactlyAtThreshold
  BY ThresholdAssumption DEF RemoteInit, Init, OpenExactlyAtThreshold, ClosedBreaker
<1>2. ASSUME RemoteTypeOK, OpenExactlyAtThreshold, [RemoteNext]_allVars
      PROVE  OpenExactlyAtThreshold'
  <2>1. \/ breaker' = breaker
        \/ breaker' = allow(breaker)
        \/ breaker' = record_success(breaker)
        \/ breaker' = record_failure(breaker)
        \/ breaker' = record_failure(allow(breaker))
        \/ is_open(breaker) /\ breaker' = cool_down(breaker)
    <3>1. CASE UNCHANGED breaker
      BY <3>1
    <3>2. CASE Exit \/ Crash
      BY <3>2 DEF Exit, Crash, ForgetEverything, record_success
    <3>3. CASE Next
      BY <3>3
         DEF Next, vars, Start, Stop, StopFinish, CoolDown, WorkerExit, Interrupt,
             Take, TakeInvalid, HandlerSucceeds, HandlerRaises, Submit,
             SubmitNotRunning, SubmitCircuitOpen, SubmitForged, SubmitCompleted,
             SubmitJoin, SubmitQueueFull, SubmitEnqueue, ResumeOwner,
             ResumeJoined, TimeoutFires, ResumeTimedOut, Cancel, Reconcile
    <3> QED
      BY <1>2, <3>1, <3>2, <3>3
         DEF RemoteNext, RemoteStep, ServiceStep, Next, Post, GiveUp, Lose, Refuse,
             Serve, Respond, Boot, Terminate, StopService, allVars, vars
  <2>2. Exact(breaker')
    BY <1>2, <2>1, ExactLemma
       DEF RemoteTypeOK, TypeOK, OpenExactlyAtThreshold, Exact
  <2> QED BY <2>2 DEF Exact, OpenExactlyAtThreshold
<1> QED BY <1>1, <1>2, RemoteTypeCorrect, PTL DEF RemoteSpec

=============================================================================

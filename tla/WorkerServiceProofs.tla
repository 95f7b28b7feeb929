------------------------ MODULE WorkerServiceProofs ------------------------
(***************************************************************************)
(* Proofs about WorkerService, for every set of jobs, keys and workers,    *)
(* every queue size and every failure threshold.                           *)
(***************************************************************************)
EXTENDS WorkerService, TLAPS

-----------------------------------------------------------------------------
(* The inductive invariant                                                 *)

(* Values stored by key carry that key.                                    *)
KeyInv ==
  /\ \A k \in Keys : inflight[k] # NoJob => Key[inflight[k]] = k
  /\ \A k \in Keys :
       results[k] # NoJob => /\ Key[results[k]] = k
                             /\ handler[results[k]] = "succeeded"
  /\ \A j \in Jobs : awaits[j] # NoJob => Key[awaits[j]] = Key[j]

(* A job that waits in the queue or runs owns its key.                     *)
LiveInv ==
  /\ \A j \in Queued : /\ inflight[Key[j]] = j
                       /\ results[Key[j]] = NoJob
                       /\ handler[j] = "none"
                       /\ future[j] # "none"
  /\ \A w \in Workers :
       running[w] # NoJob => /\ inflight[Key[running[w]]] = running[w]
                             /\ results[Key[running[w]]] = NoJob
                             /\ handler[running[w]] = "started"
                             /\ w \in alive
  /\ \A v, w \in Workers : running[v] # NoJob /\ running[v] = running[w] => v = w
  /\ \A i, k \in 1 .. Len(queue) : queue[i] = queue[k] => i = k
  /\ pool = "none" => alive = {}

(* What a settled future says of the handler and of the records.           *)
FutureInv ==
  \A j \in Jobs :
    /\ future[j] = "ok" => handler[j] = "succeeded"
    /\ future[j] = "pending" => handler[j] \notin {"succeeded"}
    /\ /\ future[j] \in {"failed", "failed_review", "stop_review", "stop_error"}
       /\ j \in Mutations
       => reconc[j] # "none"
    /\ future[j] \in {"stop_review", "stop_error"} =>
         /\ j \notin Queued
         /\ handler[j] # "succeeded"
         /\ \A w \in Workers : running[w] = j => pool = "stopping"
    /\ handler[j] = "succeeded" => results[Key[j]] = j

(* What the state of a call of submit() says of the future it uses.        *)
CallInv ==
  \A j \in Jobs :
    /\ call[j] = "new" => awaits[j] = NoJob /\ future[j] = "none"
    /\ future[j] = "none" => handler[j] = "none"
    /\ call[j] \in {"waiting", "expired"} => awaits[j] = j
    /\ call[j] = "joined" => awaits[j] # NoJob

IInv == /\ TypeOK /\ KeyInv /\ LiveInv /\ FutureInv /\ CallInv
        /\ SuccessIsReal /\ UnsuccessfulMutationIsRecorded

-----------------------------------------------------------------------------
(* Lemmas about the queue                                                  *)

(* Appending a job adds it to the set of queued jobs and nothing else.     *)
LEMMA AppendLemma ==
  ASSUME NEW s \in Seq(Jobs), NEW j \in Jobs,
         \A i \in 1 .. Len(s) : s[i] # j,
         \A i, k \in 1 .. Len(s) : s[i] = s[k] => i = k
  PROVE  LET t == Append(s, j) IN
         /\ t \in Seq(Jobs)
         /\ Len(t) = Len(s) + 1
         /\ \A i \in 1 .. Len(t) : t[i] = j \/ t[i] \in {s[k] : k \in 1 .. Len(s)}
         /\ \A i, k \in 1 .. Len(t) : t[i] = t[k] => i = k
OBVIOUS

(* Taking the head of a queue without repetitions removes exactly that job.*)
LEMMA TailLemma ==
  ASSUME NEW s \in Seq(Jobs), s # << >>,
         \A i, k \in 1 .. Len(s) : s[i] = s[k] => i = k
  PROVE  LET t == Tail(s) IN
         /\ Head(s) \in Jobs
         /\ Head(s) \in {s[k] : k \in 1 .. Len(s)}
         /\ t \in Seq(Jobs)
         /\ Len(t) = Len(s) - 1
         /\ \A i \in 1 .. Len(t) :
              t[i] # Head(s) /\ t[i] \in {s[k] : k \in 1 .. Len(s)}
         /\ \A i, k \in 1 .. Len(t) : t[i] = t[k] => i = k
OBVIOUS

-----------------------------------------------------------------------------
(* The breaker's operations stay within its type.                          *)
LEMMA BreakerLemma ==
  ASSUME NEW b \in Breaker
  PROVE  /\ allow(b) \in Breaker
         /\ record_success(b) \in Breaker
         /\ record_failure(b) \in Breaker
         /\ cool_down(b) \in Breaker
BY ThresholdAssumption
   DEF Breaker, OpenedAt, ClosedBreaker, allow, record_success, record_failure,
       cool_down

(* The empty service satisfies the invariant.                              *)
LEMMA InitInv == Init => IInv
BY JobsAssumption, ThresholdAssumption
   DEF Init, IInv, TypeOK, KeyInv, LiveInv, FutureInv, CallInv, SuccessIsReal,
       UnsuccessfulMutationIsRecorded, Breaker, OpenedAt, ClosedBreaker,
       JobOrNone, FutureState, CallState, Waiting, Ended, HandlerState,
       ReconcState, Queued

-----------------------------------------------------------------------------
(* What the queue operations and the outcomes contribute to the steps      *)

USE DEF IInv, JobOrNone, poolVars, clientVars

(* Taking a job: it was live, and the others stay as they were.            *)
LEMMA TakeFacts ==
  ASSUME TypeOK, LiveInv, queue # << >>, queue' = Tail(queue)
  PROVE  /\ Head(queue) \in Jobs
         /\ Head(queue) \in Queued
         /\ queue' \in Seq(Jobs) /\ Len(queue') <= QueueSize
         /\ Queued' \subseteq Queued \ {Head(queue)}
         /\ \A i, k \in 1 .. Len(queue') : queue'[i] = queue'[k] => i = k
<1>1. /\ queue \in Seq(Jobs)
      /\ \A i, k \in 1 .. Len(queue) : queue[i] = queue[k] => i = k
  BY DEF TypeOK, LiveInv
<1>2. /\ Head(queue) \in Jobs /\ Head(queue) \in Queued
      /\ queue' \in Seq(Jobs) /\ Len(queue') = Len(queue) - 1
      /\ \A i \in 1 .. Len(queue') :
           queue'[i] # Head(queue) /\ queue'[i] \in Queued
      /\ \A i, k \in 1 .. Len(queue') : queue'[i] = queue'[k] => i = k
  BY <1>1, TailLemma DEF Queued
<1>3. Len(queue') <= QueueSize
  BY <1>1, <1>2, JobsAssumption DEF TypeOK
<1>4. Queued' \subseteq Queued \ {Head(queue)}
  BY <1>2 DEF Queued
<1> QED BY <1>2, <1>3, <1>4

(* Enqueueing a job whose key nobody holds.                                *)
LEMMA EnqueueFacts ==
  ASSUME TypeOK, LiveInv, NEW j \in Jobs, inflight[Key[j]] = NoJob,
         ~ QueueIsFull, queue' = Append(queue, j)
  PROVE  /\ queue' \in Seq(Jobs) /\ Len(queue') <= QueueSize
         /\ Queued' \subseteq Queued \cup {j}
         /\ \A i, k \in 1 .. Len(queue') : queue'[i] = queue'[k] => i = k
<1>1. /\ queue \in Seq(Jobs)
      /\ \A i, k \in 1 .. Len(queue) : queue[i] = queue[k] => i = k
  BY DEF TypeOK, LiveInv
<1>2. \A i \in 1 .. Len(queue) : queue[i] # j
  BY JobsAssumption DEF LiveInv, Queued
<1>3. QED
  BY <1>1, <1>2, AppendLemma, JobsAssumption DEF TypeOK, Queued, QueueIsFull

(* The report of a resumed call never claims more than the future says.    *)
LEMMA OutcomeFacts ==
  ASSUME NEW f \in Settled
  PROVE  /\ OwnerOutcome(f) \in Ended /\ JoinedOutcome(f) \in Ended
         /\ "succeeded" \in {OwnerOutcome(f), JoinedOutcome(f)} => f = "ok"
         /\ {OwnerOutcome(f), JoinedOutcome(f)} \cap {"failed", "needs_review"} # {}
              => f \in {"failed", "failed_review", "stop_review", "stop_error"}
BY DEF Settled, FutureState, Ended, OwnerOutcome, JoinedOutcome

-----------------------------------------------------------------------------
(* Every action preserves the invariant: one lemma per action, one step    *)
(* per conjunct.                                                           *)

(* A restarted pool finds no running job, since stop() waited for all.     *)
LEMMA StartInv ==
  ASSUME IInv, Start
  PROVE  IInv'
<1> USE JobsAssumption DEF Start
<1>0. Queued' = Queued  BY DEF Queued
<1>1. TypeOK'
  BY DEF TypeOK
<1>2. LiveInv'
  BY <1>0 DEF LiveInv
<1>3. FutureInv'
  BY <1>0 DEF FutureInv
<1>4. KeyInv' /\ CallInv' /\ SuccessIsReal' /\ UnsuccessfulMutationIsRecorded'
  BY DEF KeyInv, CallInv, SuccessIsReal, UnsuccessfulMutationIsRecorded
<1> QED BY <1>1, <1>2, <1>3, <1>4

(* stop() settles every pending future and records the mutations.          *)
LEMMA StopInv ==
  ASSUME IInv, Stop
  PROVE  IInv'
<1> USE JobsAssumption DEF Stop, Unfinished, MarkUncertain, DrainQueue
<1>1. TypeOK'
  BY DEF TypeOK, FutureState, ReconcState
<1>2. LiveInv'
  BY DEF LiveInv, Queued
<1>3. FutureInv'
  BY DEF TypeOK, LiveInv, FutureInv, Queued
<1>4. KeyInv' /\ CallInv' /\ SuccessIsReal' /\ UnsuccessfulMutationIsRecorded'
  BY DEF KeyInv, CallInv, SuccessIsReal, UnsuccessfulMutationIsRecorded
<1> QED BY <1>1, <1>2, <1>3, <1>4

(* When gather() returns no task is alive, so no job is running.           *)
LEMMA StopFinishInv ==
  ASSUME IInv, StopFinish
  PROVE  IInv'
<1> USE JobsAssumption DEF StopFinish
<1>1. TypeOK'
  BY DEF TypeOK
<1>2. LiveInv'
  BY DEF LiveInv, Queued
<1>3. FutureInv'
  BY DEF LiveInv, FutureInv, Queued
<1>4. KeyInv' /\ CallInv' /\ SuccessIsReal' /\ UnsuccessfulMutationIsRecorded'
  BY DEF KeyInv, CallInv, SuccessIsReal, UnsuccessfulMutationIsRecorded
<1> QED BY <1>1, <1>2, <1>3, <1>4

(* The clock touches nothing but the breaker.                              *)
LEMMA CoolDownInv ==
  ASSUME IInv, CoolDown
  PROVE  IInv'
<1> USE JobsAssumption DEF CoolDown
<1>1. TypeOK'
  BY BreakerLemma DEF TypeOK
<1>2. LiveInv'
  BY DEF LiveInv, Queued
<1>3. FutureInv'
  BY DEF FutureInv, Queued
<1>4. KeyInv' /\ CallInv' /\ SuccessIsReal' /\ UnsuccessfulMutationIsRecorded'
  BY DEF KeyInv, CallInv, SuccessIsReal, UnsuccessfulMutationIsRecorded
<1> QED BY <1>1, <1>2, <1>3, <1>4

(* An idle task leaves without a job.                                      *)
LEMMA WorkerExitInv ==
  ASSUME IInv, NEW w \in Workers, WorkerExit(w)
  PROVE  IInv'
<1> USE JobsAssumption DEF WorkerExit
<1>1. TypeOK'
  BY DEF TypeOK
<1>2. LiveInv'
  BY DEF LiveInv, Queued
<1>3. FutureInv'
  BY DEF FutureInv, Queued
<1>4. KeyInv' /\ CallInv' /\ SuccessIsReal' /\ UnsuccessfulMutationIsRecorded'
  BY DEF KeyInv, CallInv, SuccessIsReal, UnsuccessfulMutationIsRecorded
<1> QED BY <1>1, <1>2, <1>3, <1>4

(* An interrupted job releases a key that is its own.                      *)
LEMMA InterruptInv ==
  ASSUME IInv, NEW w \in Workers, Interrupt(w)
  PROVE  IInv'
<1> USE JobsAssumption DEF Interrupt, Release
<1>1. TypeOK'
  BY DEF TypeOK, HandlerState
<1>2. KeyInv'
  BY DEF KeyInv, LiveInv
<1>3. LiveInv'
  BY DEF TypeOK, LiveInv, Queued
<1>4. FutureInv'
  BY DEF LiveInv, FutureInv, Queued
<1>5. CallInv'
  BY DEF LiveInv, CallInv
<1>6. SuccessIsReal'
  BY DEF LiveInv, SuccessIsReal
<1>7. UnsuccessfulMutationIsRecorded'
  BY DEF UnsuccessfulMutationIsRecorded
<1> QED BY <1>1, <1>2, <1>3, <1>4, <1>5, <1>6, <1>7

(* The job taken owned its key while queued and owns it while running.     *)
LEMMA TakeInv ==
  ASSUME IInv, NEW w \in Workers, Take(w)
  PROVE  IInv'
<1> USE JobsAssumption DEF Take, Idle
<1>0. /\ Head(queue) \in Jobs /\ Head(queue) \in Queued
      /\ queue' \in Seq(Jobs) /\ Len(queue') <= QueueSize
      /\ Queued' \subseteq Queued \ {Head(queue)}
      /\ \A i, k \in 1 .. Len(queue') : queue'[i] = queue'[k] => i = k
  BY TakeFacts
<1>1. TypeOK'
  BY <1>0 DEF TypeOK, HandlerState
<1>2. KeyInv'
  BY <1>0 DEF KeyInv, LiveInv
<1>3. LiveInv'
  BY <1>0 DEF TypeOK, LiveInv
<1>4. FutureInv'
  BY <1>0 DEF LiveInv, FutureInv
<1>5. CallInv'
  BY <1>0 DEF LiveInv, CallInv
<1>6. SuccessIsReal'
  BY <1>0 DEF LiveInv, SuccessIsReal
<1>7. UnsuccessfulMutationIsRecorded'
  BY DEF UnsuccessfulMutationIsRecorded
<1> QED BY <1>1, <1>2, <1>3, <1>4, <1>5, <1>6, <1>7

(* A rejected job is settled, recorded and its key released at once.       *)
LEMMA TakeInvalidInv ==
  ASSUME IInv, NEW w \in Workers, TakeInvalid(w)
  PROVE  IInv'
<1> USE JobsAssumption DEF TakeInvalid, Idle, MarkUncertain, Resolve
<1>0. /\ Head(queue) \in Jobs /\ Head(queue) \in Queued
      /\ queue' \in Seq(Jobs) /\ Len(queue') <= QueueSize
      /\ Queued' \subseteq Queued \ {Head(queue)}
      /\ \A i, k \in 1 .. Len(queue') : queue'[i] = queue'[k] => i = k
  BY TakeFacts
<1>1. TypeOK'
  BY <1>0 DEF TypeOK, FutureState, HandlerState, ReconcState
<1>2. KeyInv'
  BY <1>0 DEF KeyInv, LiveInv
<1>3. LiveInv'
  BY <1>0 DEF LiveInv
<1>4. FutureInv'
  BY <1>0 DEF LiveInv, FutureInv
<1>5. CallInv'
  BY <1>0 DEF LiveInv, CallInv
<1>6. SuccessIsReal'
  BY <1>0 DEF LiveInv, SuccessIsReal
<1>7. UnsuccessfulMutationIsRecorded'
  BY DEF UnsuccessfulMutationIsRecorded
<1> QED BY <1>1, <1>2, <1>3, <1>4, <1>5, <1>6, <1>7

(* The key of a running job has no result yet, so this is its first.       *)
LEMMA HandlerSucceedsInv ==
  ASSUME IInv, NEW w \in Workers, HandlerSucceeds(w)
  PROVE  IInv'
<1> USE JobsAssumption DEF HandlerSucceeds, Resolve, Release
<1>0. /\ running[w] \in Jobs /\ Key[running[w]] \in Keys
      /\ Queued' = Queued
  <2>1. running[w] \in Jobs  BY DEF TypeOK
  <2>2. Queued' = Queued  BY DEF Queued
  <2>3. QED BY <2>1, <2>2
<1>1. TypeOK'
  BY <1>0 DEF TypeOK, FutureState, HandlerState
<1>2. KeyInv'
  BY <1>0 DEF TypeOK, KeyInv
<1>3. LiveInv'
  BY <1>0 DEF TypeOK, LiveInv
<1>4. FutureInv'
  <2>1. \A i \in Jobs : handler'[i] = "succeeded" => results'[Key[i]] = i
    BY <1>0 DEF TypeOK, LiveInv, FutureInv
  <2>2. \A i \in Jobs : future'[i] \in {"stop_review", "stop_error"} =>
          i # running[w] /\ future'[i] = future[i]
    BY <1>0 DEF FutureInv
  <2>3. QED BY <1>0, <2>1, <2>2 DEF TypeOK, FutureInv
<1>5. CallInv'
  BY <1>0 DEF LiveInv, CallInv
<1>6. SuccessIsReal' /\ UnsuccessfulMutationIsRecorded'
  BY DEF SuccessIsReal, UnsuccessfulMutationIsRecorded
<1> QED BY <1>1, <1>2, <1>3, <1>4, <1>5, <1>6

(* A failure is recorded before its future is settled.                     *)
LEMMA HandlerRaisesInv ==
  ASSUME IInv, NEW w \in Workers, HandlerRaises(w)
  PROVE  IInv'
<1> USE JobsAssumption DEF HandlerRaises, MarkUncertain, Resolve, Release
<1>1. TypeOK'
  <2>1. future' \in [Jobs -> FutureState]
    BY DEF TypeOK, FutureState
  <2>2. QED BY <2>1 DEF TypeOK, HandlerState, ReconcState
<1>2. KeyInv'
  BY DEF KeyInv, LiveInv
<1>3. LiveInv'
  BY DEF TypeOK, LiveInv, Queued
<1>4. FutureInv'
  BY DEF LiveInv, FutureInv, Queued
<1>5. CallInv'
  BY DEF LiveInv, CallInv
<1>6. SuccessIsReal'
  BY DEF LiveInv, SuccessIsReal
<1>7. UnsuccessfulMutationIsRecorded'
  BY DEF UnsuccessfulMutationIsRecorded
<1> QED BY <1>1, <1>2, <1>3, <1>4, <1>5, <1>6, <1>7

(* A refused submission uses no future.                                    *)
LEMMA SubmitNotRunningInv ==
  ASSUME IInv, NEW j \in Jobs, SubmitNotRunning(j)
  PROVE  IInv'
<1> USE JobsAssumption DEF SubmitNotRunning, Answer
<1>1. TypeOK'
  BY DEF TypeOK, CallState, Ended
<1>2. LiveInv'
  BY DEF LiveInv, Queued
<1>3. FutureInv'
  BY DEF FutureInv, Queued
<1>4. UnsuccessfulMutationIsRecorded'
  BY DEF CallInv, UnsuccessfulMutationIsRecorded
<1>5. KeyInv' /\ CallInv' /\ SuccessIsReal'
  BY DEF KeyInv, CallInv, SuccessIsReal
<1> QED BY <1>1, <1>2, <1>3, <1>4, <1>5

(* A submission refused by the breaker uses no future.                     *)
LEMMA SubmitCircuitOpenInv ==
  ASSUME IInv, NEW j \in Jobs, SubmitCircuitOpen(j)
  PROVE  IInv'
<1> USE JobsAssumption DEF SubmitCircuitOpen, Answer
<1>1. TypeOK'
  BY DEF TypeOK, CallState, Ended
<1>2. LiveInv'
  BY DEF LiveInv, Queued
<1>3. FutureInv'
  BY DEF FutureInv, Queued
<1>4. UnsuccessfulMutationIsRecorded'
  BY DEF CallInv, UnsuccessfulMutationIsRecorded
<1>5. KeyInv' /\ CallInv' /\ SuccessIsReal'
  BY DEF KeyInv, CallInv, SuccessIsReal
<1> QED BY <1>1, <1>2, <1>3, <1>4, <1>5

(* A submission that does not verify uses no future.                       *)
LEMMA SubmitForgedInv ==
  ASSUME IInv, NEW j \in Jobs, SubmitForged(j)
  PROVE  IInv'
<1> USE JobsAssumption DEF SubmitForged, Admitted, Answer
<1>1. TypeOK'
  BY BreakerLemma DEF TypeOK, CallState, Ended
<1>2. LiveInv'
  BY DEF LiveInv, Queued
<1>3. FutureInv'
  BY DEF FutureInv, Queued
<1>4. UnsuccessfulMutationIsRecorded'
  BY DEF CallInv, UnsuccessfulMutationIsRecorded
<1>5. KeyInv' /\ CallInv' /\ SuccessIsReal'
  BY DEF KeyInv, CallInv, SuccessIsReal
<1> QED BY <1>1, <1>2, <1>3, <1>4, <1>5

(* A stored result is one of the same key and of a success.                *)
LEMMA SubmitCompletedInv ==
  ASSUME IInv, NEW j \in Jobs, SubmitCompleted(j)
  PROVE  IInv'
<1> USE JobsAssumption DEF SubmitCompleted, Admitted, Answer
<1>0. Key[j] \in Keys /\ results[Key[j]] \in Jobs
  BY DEF TypeOK
<1>1. TypeOK'
  BY <1>0, BreakerLemma DEF TypeOK, CallState, Ended
<1>2. LiveInv'
  BY <1>0 DEF LiveInv, Queued
<1>3. FutureInv'
  BY <1>0 DEF FutureInv, Queued
<1>4. CallInv'
  BY <1>0 DEF TypeOK, CallInv
<1>5. SuccessIsReal'
  BY <1>0 DEF TypeOK, KeyInv, SuccessIsReal
<1>6. KeyInv' /\ UnsuccessfulMutationIsRecorded'
  BY DEF KeyInv, UnsuccessfulMutationIsRecorded
<1> QED BY <1>1, <1>2, <1>3, <1>4, <1>5, <1>6

(* A duplicate joins the future of a job of the same key.                  *)
LEMMA SubmitJoinInv ==
  ASSUME IInv, NEW j \in Jobs, SubmitJoin(j)
  PROVE  IInv'
<1> USE JobsAssumption DEF SubmitJoin, Admitted
<1>0. Key[j] \in Keys /\ inflight[Key[j]] \in Jobs
  BY DEF TypeOK
<1>1. TypeOK'
  BY <1>0, BreakerLemma DEF TypeOK, CallState, Waiting
<1>2. LiveInv'
  BY <1>0 DEF LiveInv, Queued
<1>3. FutureInv'
  BY <1>0 DEF FutureInv, Queued
<1>4. CallInv'
  BY <1>0 DEF TypeOK, CallInv
<1>5. KeyInv' /\ SuccessIsReal' /\ UnsuccessfulMutationIsRecorded'
  BY DEF KeyInv, SuccessIsReal, UnsuccessfulMutationIsRecorded
<1> QED BY <1>1, <1>2, <1>3, <1>4, <1>5

(* A submission refused by the full queue uses no future.                  *)
LEMMA SubmitQueueFullInv ==
  ASSUME IInv, NEW j \in Jobs, SubmitQueueFull(j)
  PROVE  IInv'
<1> USE JobsAssumption DEF SubmitQueueFull, Fresh, Admitted, Answer
<1>1. TypeOK'
  BY BreakerLemma DEF TypeOK, CallState, Ended
<1>2. LiveInv'
  BY DEF LiveInv, Queued
<1>3. FutureInv'
  BY DEF FutureInv, Queued
<1>4. UnsuccessfulMutationIsRecorded'
  BY DEF CallInv, UnsuccessfulMutationIsRecorded
<1>5. KeyInv' /\ CallInv' /\ SuccessIsReal'
  BY DEF KeyInv, CallInv, SuccessIsReal
<1> QED BY <1>1, <1>2, <1>3, <1>4, <1>5

(* The key was free, so the new job is the only live one that holds it.    *)
LEMMA SubmitEnqueueInv ==
  ASSUME IInv, NEW j \in Jobs, SubmitEnqueue(j)
  PROVE  IInv'
<1> USE JobsAssumption DEF SubmitEnqueue, Fresh, Admitted
<1>0. /\ queue' \in Seq(Jobs) /\ Len(queue') <= QueueSize
      /\ Queued' \subseteq Queued \cup {j}
      /\ \A i, k \in 1 .. Len(queue') : queue'[i] = queue'[k] => i = k
      /\ handler[j] = "none" /\ Key[j] \in Keys
  BY EnqueueFacts DEF CallInv
<1>1. TypeOK'
  BY <1>0, BreakerLemma DEF TypeOK, FutureState, CallState, Waiting
<1>2. LiveInv'
  <2>1. \A i \in Queued : Key[i] # Key[j] /\ i \in Jobs
    BY DEF LiveInv, TypeOK, Queued
  <2>2. \A v \in Workers :
          running[v] # NoJob => Key[running[v]] # Key[j] /\ running[v] \in Jobs
    BY DEF LiveInv, TypeOK
  <2>3. QED BY <1>0, <2>1, <2>2 DEF TypeOK, LiveInv
<1>3. FutureInv'
  BY <1>0 DEF FutureInv, CallInv
<1>4. CallInv'
  BY <1>0 DEF TypeOK, CallInv
<1>5. KeyInv' /\ SuccessIsReal' /\ UnsuccessfulMutationIsRecorded'
  BY DEF KeyInv, SuccessIsReal, UnsuccessfulMutationIsRecorded
<1> QED BY <1>1, <1>2, <1>3, <1>4, <1>5

(* The owner reports what its own future says.                             *)
LEMMA ResumeOwnerInv ==
  ASSUME IInv, NEW j \in Jobs, ResumeOwner(j)
  PROVE  IInv'
<1> USE JobsAssumption DEF ResumeOwner, Answer
<1>0. /\ awaits[j] = j
      /\ OwnerOutcome(future[j]) \in Ended
      /\ OwnerOutcome(future[j]) = "succeeded" => future[j] = "ok"
      /\ OwnerOutcome(future[j]) \in {"failed", "needs_review"} =>
           future[j] \in {"failed", "failed_review", "stop_review", "stop_error"}
  BY OutcomeFacts DEF CallInv
<1>1. TypeOK'
  BY <1>0, BreakerLemma DEF TypeOK, CallState
<1>2. LiveInv'
  BY <1>0 DEF LiveInv, Queued
<1>3. FutureInv'
  BY <1>0 DEF FutureInv, Queued
<1>4. CallInv'
  BY <1>0 DEF CallInv, Ended
<1>5. SuccessIsReal'
  BY <1>0 DEF FutureInv, SuccessIsReal
<1>6. UnsuccessfulMutationIsRecorded'
  BY <1>0 DEF FutureInv, UnsuccessfulMutationIsRecorded
<1>7. KeyInv'
  BY DEF KeyInv
<1> QED BY <1>1, <1>2, <1>3, <1>4, <1>5, <1>6, <1>7

(* A duplicate reports what the shared future says.                        *)
LEMMA ResumeJoinedInv ==
  ASSUME IInv, NEW j \in Jobs, ResumeJoined(j)
  PROVE  IInv'
<1> USE JobsAssumption DEF ResumeJoined, Answer
<1>0. /\ awaits[j] \in Jobs
      /\ JoinedOutcome(future[awaits[j]]) \in Ended
      /\ JoinedOutcome(future[awaits[j]]) = "succeeded" => future[awaits[j]] = "ok"
      /\ JoinedOutcome(future[awaits[j]]) \in {"failed", "needs_review"} =>
           future[awaits[j]] \in {"failed", "failed_review", "stop_review", "stop_error"}
  BY OutcomeFacts DEF CallInv, TypeOK
<1>1. TypeOK'
  BY <1>0 DEF TypeOK, CallState
<1>2. LiveInv'
  BY <1>0 DEF LiveInv, Queued
<1>3. FutureInv'
  BY <1>0 DEF FutureInv, Queued
<1>4. CallInv'
  BY <1>0 DEF CallInv, Ended
<1>5. SuccessIsReal'
  BY <1>0 DEF KeyInv, FutureInv, SuccessIsReal
<1>6. UnsuccessfulMutationIsRecorded'
  BY <1>0 DEF FutureInv, UnsuccessfulMutationIsRecorded
<1>7. KeyInv'
  BY DEF KeyInv
<1> QED BY <1>1, <1>2, <1>3, <1>4, <1>5, <1>6, <1>7

(* The timer only cancels a future that is still pending.                  *)
LEMMA TimeoutFiresInv ==
  ASSUME IInv, NEW j \in Jobs, TimeoutFires(j)
  PROVE  IInv'
<1> USE JobsAssumption DEF TimeoutFires, Resolve
<1>1. TypeOK'
  BY DEF TypeOK, FutureState, CallState, Waiting
<1>2. LiveInv'
  BY DEF LiveInv, Queued
<1>3. FutureInv'
  BY DEF FutureInv, Queued
<1>4. KeyInv' /\ CallInv' /\ SuccessIsReal' /\ UnsuccessfulMutationIsRecorded'
  BY DEF KeyInv, CallInv, SuccessIsReal, UnsuccessfulMutationIsRecorded
<1> QED BY <1>1, <1>2, <1>3, <1>4

(* The timeout of a mutation is recorded before it is reported.            *)
LEMMA ResumeTimedOutInv ==
  ASSUME IInv, NEW j \in Jobs, ResumeTimedOut(j)
  PROVE  IInv'
<1> USE JobsAssumption DEF ResumeTimedOut, MarkUncertain, Answer
<1>1. TypeOK'
  BY BreakerLemma DEF TypeOK, CallState, Ended, ReconcState
<1>2. LiveInv'
  BY DEF LiveInv, Queued
<1>3. FutureInv'
  BY DEF FutureInv, Queued
<1>4. UnsuccessfulMutationIsRecorded'
  BY DEF CallInv, UnsuccessfulMutationIsRecorded
<1>5. KeyInv' /\ CallInv' /\ SuccessIsReal'
  BY DEF KeyInv, CallInv, SuccessIsReal
<1> QED BY <1>1, <1>2, <1>3, <1>4, <1>5

(* A cancelled call cancels at most the future it awaits.                  *)
LEMMA CancelInv ==
  ASSUME IInv, NEW j \in Jobs, Cancel(j)
  PROVE  IInv'
<1> USE JobsAssumption DEF Cancel, Answer, Resolve
<1>1. TypeOK'
  BY DEF TypeOK, FutureState, CallState, Ended
<1>2. LiveInv'
  BY DEF LiveInv, Queued
<1>3. FutureInv'
  BY DEF FutureInv, Queued
<1>4. KeyInv' /\ CallInv' /\ SuccessIsReal' /\ UnsuccessfulMutationIsRecorded'
  BY DEF KeyInv, CallInv, SuccessIsReal, UnsuccessfulMutationIsRecorded
<1> QED BY <1>1, <1>2, <1>3, <1>4

(* A confirmation never removes a record.                                  *)
LEMMA ReconcileInv ==
  ASSUME IInv, NEW j \in Jobs, Reconcile(j)
  PROVE  IInv'
<1> USE JobsAssumption DEF Reconcile
<1>1. TypeOK'
  BY DEF TypeOK, ReconcState
<1>2. LiveInv'
  BY DEF LiveInv, Queued
<1>3. FutureInv'
  BY DEF FutureInv, Queued
<1>4. KeyInv' /\ CallInv' /\ SuccessIsReal' /\ UnsuccessfulMutationIsRecorded'
  BY DEF KeyInv, CallInv, SuccessIsReal, UnsuccessfulMutationIsRecorded
<1> QED BY <1>1, <1>2, <1>3, <1>4

-----------------------------------------------------------------------------
(* Every step preserves the invariant.                                     *)
LEMMA NextInv == IInv /\ [Next]_vars => IInv'
<1> SUFFICES ASSUME IInv, [Next]_vars PROVE IInv'
  OBVIOUS
<1>1. CASE Start \/ Stop \/ StopFinish \/ CoolDown
  BY <1>1, StartInv, StopInv, StopFinishInv, CoolDownInv
<1>2. ASSUME NEW w \in Workers,
             \/ WorkerExit(w) \/ Interrupt(w) \/ Take(w) \/ TakeInvalid(w)
             \/ HandlerSucceeds(w) \/ HandlerRaises(w)
      PROVE  IInv'
  BY <1>2, WorkerExitInv, InterruptInv, TakeInv, TakeInvalidInv,
     HandlerSucceedsInv, HandlerRaisesInv
<1>3. ASSUME NEW j \in Jobs, Submit(j)
      PROVE  IInv'
  BY <1>3, SubmitNotRunningInv, SubmitCircuitOpenInv, SubmitForgedInv,
     SubmitCompletedInv, SubmitJoinInv, SubmitQueueFullInv, SubmitEnqueueInv
     DEF Submit
<1>4. ASSUME NEW j \in Jobs,
             \/ ResumeOwner(j) \/ ResumeJoined(j) \/ TimeoutFires(j)
             \/ ResumeTimedOut(j) \/ Cancel(j) \/ Reconcile(j)
      PROVE  IInv'
  BY <1>4, ResumeOwnerInv, ResumeJoinedInv, TimeoutFiresInv, ResumeTimedOutInv,
     CancelInv, ReconcileInv
<1>5. CASE UNCHANGED vars
  BY <1>5 DEF vars, TypeOK, KeyInv, LiveInv, FutureInv, CallInv, SuccessIsReal,
              UnsuccessfulMutationIsRecorded, Queued
<1> QED BY <1>1, <1>2, <1>3, <1>4, <1>5 DEF Next

-----------------------------------------------------------------------------
(* Theorems                                                                *)

(* The inductive invariant holds in every reachable state.                 *)
THEOREM Invariance == Spec => []IInv
BY InitInv, NextInv, PTL DEF Spec

(* Every variable keeps its type; the queue never exceeds its size.        *)
THEOREM TypeCorrect == Spec => []TypeOK
<1>1. IInv => TypeOK  OBVIOUS
<1> QED BY <1>1, Invariance, PTL

(* Idempotency: at most one handler per key runs to success.               *)
THEOREM Idempotency == Spec => []AtMostOneSuccess
<1>1. IInv => AtMostOneSuccess
  BY DEF AtMostOneSuccess, FutureInv
<1> QED BY <1>1, Invariance, PTL

(* No two tasks of the pool execute jobs of one key at the same time.      *)
THEOREM Exclusion == Spec => []NoConcurrentDuplicate
<1>1. IInv => NoConcurrentDuplicate
  BY DEF NoConcurrentDuplicate, LiveInv
<1> QED BY <1>1, Invariance, PTL

(* A reported success is the success of a handler of the caller's key.     *)
THEOREM SoundSuccess == Spec => []SuccessIsReal
<1>1. IInv => SuccessIsReal  OBVIOUS
<1> QED BY <1>1, Invariance, PTL

(* No unsuccessful mutation is reported without a reconciliation record.   *)
THEOREM CompleteRecords == Spec => []UnsuccessfulMutationIsRecorded
<1>1. IInv => UnsuccessfulMutationIsRecorded  OBVIOUS
<1> QED BY <1>1, Invariance, PTL

(* A job that stop() answered is never completed afterwards.               *)
THEOREM StoppedForGood == Spec => []StoppedStaysStopped
<1>1. IInv => StoppedStaysStopped
  BY DEF StoppedStaysStopped, FutureInv
<1> QED BY <1>1, Invariance, PTL

(* A stored result is never replaced: only HandlerSucceeds writes results, *)
(* and the key of a running job has none.                                  *)
THEOREM StableResults == Spec => ResultsAreStable
<1> DEFINE Stable == \A k \in Keys : results[k] # NoJob => results'[k] = results[k]
<1>1. ASSUME IInv, [Next]_vars PROVE [Stable]_results
  <2>1. ASSUME NEW w \in Workers, HandlerSucceeds(w) PROVE Stable
    BY <1>1, <2>1, JobsAssumption DEF HandlerSucceeds, LiveInv, TypeOK
  <2>2. CASE \E w \in Workers : HandlerSucceeds(w)
    BY <2>1, <2>2
  <2>3. CASE ~ \E w \in Workers : HandlerSucceeds(w)
    BY <1>1, <2>3
       DEF Next, vars, Start, Stop, StopFinish, CoolDown, WorkerExit, Interrupt,
           Take, TakeInvalid, HandlerRaises, Submit, SubmitNotRunning,
           SubmitCircuitOpen, SubmitForged, SubmitCompleted, SubmitJoin,
           SubmitQueueFull, SubmitEnqueue, ResumeOwner, ResumeJoined,
           TimeoutFires, ResumeTimedOut, Cancel, Reconcile
  <2> QED BY <2>2, <2>3
<1> QED BY <1>1, Invariance, PTL DEF Spec, ResultsAreStable

-----------------------------------------------------------------------------
(* The reconciliation records                                              *)

(* A job that has a record, or whose submitter has timed out, has been     *)
(* answered: stop() takes it for finished.                                 *)
RecordInv ==
  \A j \in Jobs :
    /\ reconc[j] # "none" => future[j] \in Settled
    /\ call[j] = "expired" => future[j] \in Settled
    /\ call[j] = "waiting" => future[j] # "none"

Kept ==
  \A j \in Jobs :
    /\ reconc[j] = "confirmed"
    /\ j \notin Queued
    /\ \A w \in Workers : running[w] # j
    /\ call[j] \notin Waiting
    => reconc'[j] = "confirmed"

(* The steps that write a record or answer a future, one by one.           *)
LEMMA RecordStep ==
  ASSUME IInv, RecordInv, [Next]_vars
  PROVE  RecordInv' /\ Kept
<1> USE DEF RecordInv, Kept, Settled
<1>0. /\ future \in [Jobs -> FutureState] /\ reconc \in [Jobs -> ReconcState]
      /\ call \in [Jobs -> CallState] /\ awaits \in [Jobs -> Jobs \cup {NoJob}]
      /\ running \in [Workers -> Jobs \cup {NoJob}]
      /\ NoJob \notin Jobs
  BY JobsAssumption DEF TypeOK
<1>1. CASE Stop
  BY <1>0, <1>1 DEF Stop, MarkUncertain, Unfinished, FutureState, ReconcState
<1>2. ASSUME NEW w \in Workers, TakeInvalid(w) PROVE RecordInv' /\ Kept
  <2>1. /\ Head(queue) \in Jobs /\ Head(queue) \in Queued
        /\ future[Head(queue)] # "none"
    BY <1>2, TakeFacts DEF TakeInvalid, LiveInv
  <2> QED
    BY <1>0, <1>2, <2>1 DEF TakeInvalid, MarkUncertain, Resolve, FutureState
<1>3. ASSUME NEW w \in Workers, HandlerRaises(w) PROVE RecordInv' /\ Kept
  <2>1. running[w] \in Jobs /\ future[running[w]] # "none"
    BY <1>0, <1>3 DEF HandlerRaises, LiveInv, CallInv
  <2> QED
    BY <1>0, <1>3, <2>1 DEF HandlerRaises, MarkUncertain, Resolve, FutureState
<1>4. ASSUME NEW w \in Workers, HandlerSucceeds(w) PROVE RecordInv' /\ Kept
  BY <1>0, <1>4 DEF HandlerSucceeds, Resolve, FutureState
<1>5. ASSUME NEW j \in Jobs, SubmitEnqueue(j) PROVE RecordInv' /\ Kept
  BY <1>0, <1>5 DEF SubmitEnqueue, Fresh, Admitted, CallInv, FutureState
<1>6. ASSUME NEW j \in Jobs, TimeoutFires(j) PROVE RecordInv' /\ Kept
  BY <1>0, <1>6 DEF TimeoutFires, Resolve, FutureState
<1>7. ASSUME NEW j \in Jobs, ResumeTimedOut(j) PROVE RecordInv' /\ Kept
  BY <1>0, <1>7 DEF ResumeTimedOut, MarkUncertain, Answer, Waiting
<1>8. ASSUME NEW j \in Jobs, Cancel(j) PROVE RecordInv' /\ Kept
  BY <1>0, <1>8 DEF Cancel, Resolve, Answer, FutureState
<1>9. ASSUME NEW j \in Jobs, Reconcile(j) PROVE RecordInv' /\ Kept
  BY <1>0, <1>9 DEF Reconcile
<1>10. ASSUME NEW j \in Jobs, Submit(j), ~ SubmitEnqueue(j)
       PROVE  RecordInv' /\ Kept
  BY <1>0, <1>10
     DEF Submit, SubmitNotRunning, SubmitCircuitOpen, SubmitForged,
         SubmitCompleted, SubmitJoin, SubmitQueueFull, Answer
<1>11. ASSUME NEW j \in Jobs, ResumeOwner(j) \/ ResumeJoined(j)
       PROVE  RecordInv' /\ Kept
  <2>1. OwnerOutcome(future[j]) \notin {"waiting", "expired"} \/ ~ ResumeOwner(j)
    BY DEF ResumeOwner, OwnerOutcome, FutureState
  <2>2. JoinedOutcome(future[awaits[j]]) \notin {"waiting", "expired"} \/ ~ ResumeJoined(j)
    BY DEF ResumeJoined, JoinedOutcome, OwnerOutcome, FutureState
  <2> QED BY <1>0, <1>11, <2>1, <2>2 DEF ResumeOwner, ResumeJoined, Answer
<1>12. CASE UNCHANGED << future, reconc, call >>
  BY <1>12
<1> QED
  BY <1>1, <1>2, <1>3, <1>4, <1>5, <1>6, <1>7, <1>8, <1>9, <1>10, <1>11, <1>12
     DEF Next, vars, Start, StopFinish, CoolDown, WorkerExit, Interrupt, Take

(* An operator's confirmation is kept once the job is over: reconcile() is *)
(* undone by no later stop(), restart or duplicate.                        *)
THEOREM ConfirmationsStay == Spec => ConfirmationIsFinal
<1>1. Init => RecordInv
  BY DEF Init, RecordInv
<1>2. ASSUME IInv, RecordInv, [Next]_vars PROVE RecordInv' /\ [Kept]_vars
  BY <1>2, RecordStep
<1> QED BY <1>1, <1>2, Invariance, PTL DEF Spec, ConfirmationIsFinal, Kept

-----------------------------------------------------------------------------
(* The breaker                                                             *)

Exact(b) == b.opened_at # "none" <=> b.failures = FailureThreshold

(* Each operation keeps count and opening time in step, a late success on  *)
(* an open breaker and a failure after an elapsed cool-down included.      *)
LEMMA ExactLemma ==
  ASSUME NEW b \in Breaker, Exact(b)
  PROVE  /\ Exact(allow(b)) /\ Exact(record_success(b))
         /\ Exact(record_failure(b)) /\ Exact(record_failure(allow(b)))
         /\ is_open(b) => Exact(cool_down(b))
<1>1. Exact(ClosedBreaker)
  BY ThresholdAssumption DEF Exact, ClosedBreaker
<1>2. Exact(allow(b)) /\ Exact(record_success(b))
  BY <1>1 DEF allow, record_success
<1>3. ASSUME NEW c \in Breaker, Exact(c) PROVE Exact(record_failure(c))
  BY <1>3, ThresholdAssumption DEF Exact, record_failure, Breaker, OpenedAt
<1>4. is_open(b) => Exact(cool_down(b))
  BY DEF Exact, is_open, cool_down, Breaker
<1> QED BY <1>2, <1>3, <1>4, BreakerLemma

(* The breaker has an opening time exactly when it counts a full threshold *)
(* of failures.                                                            *)
THEOREM BreakerSound == Spec => []OpenExactlyAtThreshold
<1>1. Init => OpenExactlyAtThreshold
  BY ThresholdAssumption DEF Init, OpenExactlyAtThreshold, ClosedBreaker
<1>2. ASSUME TypeOK, OpenExactlyAtThreshold, [Next]_vars
      PROVE  OpenExactlyAtThreshold'
  <2>1. \/ breaker' = breaker
        \/ breaker' = allow(breaker)
        \/ breaker' = record_success(breaker)
        \/ breaker' = record_failure(breaker)
        \/ breaker' = record_failure(allow(breaker))
        \/ is_open(breaker) /\ breaker' = cool_down(breaker)
    BY <1>2
       DEF Next, vars, Start, Stop, StopFinish, CoolDown, WorkerExit, Interrupt,
           Take, TakeInvalid, HandlerSucceeds, HandlerRaises, Submit,
           SubmitNotRunning, SubmitCircuitOpen, SubmitForged, SubmitCompleted,
           SubmitJoin, SubmitQueueFull, SubmitEnqueue, ResumeOwner,
           ResumeJoined, TimeoutFires, ResumeTimedOut, Cancel, Reconcile
  <2>2. Exact(breaker')
    BY <1>2, <2>1, ExactLemma DEF TypeOK, OpenExactlyAtThreshold, Exact
  <2> QED BY <2>2 DEF Exact, OpenExactlyAtThreshold
<1> QED BY <1>1, <1>2, TypeCorrect, PTL DEF Spec

=============================================================================

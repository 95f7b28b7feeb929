--------------------------- MODULE WorkerService ---------------------------
(***************************************************************************)
(* gateway/workers/service.py: the queued execution worker.                *)
(*                                                                         *)
(* Gateway requests submit signed jobs; a bounded pool of asyncio tasks    *)
(* executes them; a dictionary of in-flight jobs and one of stored results *)
(* deduplicate by idempotency key; stop() and the wait timeout leave       *)
(* reconciliation records for mutations whose outcome is unknown.          *)
(*                                                                         *)
(* Granularity.  Everything runs on one event loop, so a step is the code  *)
(* between two suspension points.  No critical section of self._lock       *)
(* contains an await: the lock is never contended and a section belongs to *)
(* the step that enters it.  A submission is a member of Jobs (a job_id is *)
(* drawn fresh for each); retries of a call are Jobs with the same key.    *)
(***************************************************************************)
EXTENDS CircuitBreaker, Sequences, FiniteSets

CONSTANTS
  Jobs,        \* the submissions: one per call of submit()
  Keys,        \* idempotency keys
  Key,         \* Key[j]: the idempotency key job j carries
  Mutations,   \* the jobs whose risk class is not READ_ONLY
  Forged,      \* the jobs whose auth_token does not verify
  Workers,     \* the tasks of the pool, _max_concurrency of them
  QueueSize,   \* maxsize of the queue
  NoJob        \* "no job"

ASSUME JobsAssumption ==
  /\ Key \in [Jobs -> Keys]
  /\ Mutations \subseteq Jobs
  /\ Forged \subseteq Jobs
  /\ NoJob \notin Jobs
  /\ Workers # {}
  /\ QueueSize \in Nat \ {0}

VARIABLES
  pool,        \* _tasks: empty, running, or cancelled and being gathered
  alive,       \* the worker tasks that have not ended
  running,     \* running[w]: the job whose handler task w is awaiting
  queue,       \* _queue
  inflight,    \* _inflight, by key
  results,     \* _idempotent_results: the job whose result the key holds
  future,      \* the future created for a job, and how it was resolved
  reconc,      \* _reconciliation, by job
  breaker,     \* _breaker
  call,        \* the state of each call of submit()
  awaits,      \* the job whose future or result the call of submit() uses
  handler      \* what became of the tool handler of each job (history)

vars == << pool, alive, running, queue, inflight, results, future, reconc,
           breaker, call, awaits, handler >>

poolVars   == << pool, alive, running >>
clientVars == << call, awaits >>

-----------------------------------------------------------------------------
(* Values                                                                  *)

JobOrNone == Jobs \cup {NoJob}

(* "stop_review" and "stop_error" are the exceptions stop() sets: a        *)
(* NeedsReviewError for a mutation, a ToolExecutionError otherwise.        *)
FutureState == {"none", "pending", "ok", "failed", "failed_review",
                "stop_review", "stop_error", "cancelled"}

Settled == FutureState \ {"none", "pending"}

(* "expired": the timer of wait_for has fired, submit() has not resumed.   *)
Waiting   == {"waiting", "joined", "expired"}
Ended     == {"succeeded", "failed", "needs_review", "cancelled"}
CallState == {"new"} \cup Waiting \cup Ended

(* "rejected": the worker's own schema validation refused the arguments.   *)
HandlerState == {"none", "rejected", "started", "succeeded", "raised",
                 "interrupted"}
ReconcState  == {"none", "needs_review", "confirmed"}

TypeOK ==
  /\ pool \in {"none", "running", "stopping"}
  /\ alive \in SUBSET Workers
  /\ running \in [Workers -> JobOrNone]
  /\ queue \in Seq(Jobs) /\ Len(queue) <= QueueSize
  /\ inflight \in [Keys -> JobOrNone]
  /\ results \in [Keys -> JobOrNone]
  /\ future \in [Jobs -> FutureState]
  /\ reconc \in [Jobs -> ReconcState]
  /\ breaker \in Breaker
  /\ call \in [Jobs -> CallState]
  /\ awaits \in [Jobs -> JobOrNone]
  /\ handler \in [Jobs -> HandlerState]

Init ==
  /\ pool = "none"
  /\ alive = {}
  /\ running = [w \in Workers |-> NoJob]
  /\ queue = << >>
  /\ inflight = [k \in Keys |-> NoJob]
  /\ results = [k \in Keys |-> NoJob]
  /\ future = [j \in Jobs |-> "none"]
  /\ reconc = [j \in Jobs |-> "none"]
  /\ breaker = ClosedBreaker
  /\ call = [j \in Jobs |-> "new"]
  /\ awaits = [j \in Jobs |-> NoJob]
  /\ handler = [j \in Jobs |-> "none"]

-----------------------------------------------------------------------------
(* Helpers                                                                 *)

Queued == {queue[i] : i \in 1 .. Len(queue)}

(* put_nowait raises QueueFull.                                            *)
QueueIsFull == Len(queue) >= QueueSize

(* _queued_jobs empties the queue.  Mutant: it only copies it.             *)
DrainCopies == UNCHANGED queue
DrainQueue == queue' = << >>

(* Mutant: the record is never written.                                    *)
MarkNothing(S) == UNCHANGED reconc

(* _mark_uncertain, for every job of S that is not read-only.              *)
MarkUncertain(S) ==
  reconc' = [j \in Jobs |-> IF j \in S \cap Mutations THEN "needs_review"
                                                      ELSE reconc[j]]

(* "if not future.done(): future.set_result(...)"                          *)
Resolve(j, value) ==
  future' = [future EXCEPT ![j] = IF @ = "pending" THEN value ELSE @]

(* The finally block of _worker_loop: the key of the job is released.      *)
Release(w) ==
  inflight' = [inflight EXCEPT ![Key[running[w]]] = NoJob]

-----------------------------------------------------------------------------
(* start() and stop()                                                      *)

Start ==
  /\ pool = "none"
  /\ pool' = "running"
  /\ alive' = Workers
  /\ UNCHANGED << running, queue, inflight, results, future, reconc, breaker,
                  clientVars, handler >>

(* Mutant: the futures that are done are not skipped.                      *)
UnfinishedOrAnswered ==
  {j \in Jobs : inflight[Key[j]] = j \/ j \in Queued}

(* The jobs stop() finds unfinished: every in-flight or queued job whose   *)
(* future is still pending.                                                *)
Unfinished ==
  {j \in Jobs : (inflight[Key[j]] = j \/ j \in Queued) /\ future[j] = "pending"}

(* The critical section of stop() and the cancel() of every task.  Draining *)
(* the queue does not release the keys of the drained jobs.  stop() is     *)
(* called once, when the gateway shuts down: no second one overlaps it.    *)
Stop ==
  /\ pool # "stopping"
  /\ MarkUncertain(Unfinished)
  /\ future' = [j \in Jobs |->
                  IF j \notin Unfinished THEN future[j]
                  ELSE IF j \in Mutations THEN "stop_review" ELSE "stop_error"]
  /\ DrainQueue
  /\ pool' = IF pool = "running" THEN "stopping" ELSE pool
  /\ UNCHANGED << alive, running, inflight, results, breaker, clientVars,
                  handler >>

(* Mutant: a cancelled task first waits for the queue to be empty.        *)
WorkerExitDrained(w) ==
  /\ pool = "stopping"
  /\ w \in alive
  /\ running[w] = NoJob
  /\ queue = << >>
  /\ alive' = alive \ {w}
  /\ UNCHANGED << pool, running, queue, inflight, results, future, reconc,
                  breaker, clientVars, handler >>

(* A cancelled task ends where it awaits the queue ...                     *)
WorkerExit(w) ==
  /\ pool = "stopping"
  /\ w \in alive
  /\ running[w] = NoJob
  /\ alive' = alive \ {w}
  /\ UNCHANGED << pool, running, queue, inflight, results, future, reconc,
                  breaker, clientVars, handler >>

(* ... or where it awaits its handler: CancelledError is no Exception, so   *)
(* neither _execute nor the loop handles it and only the finally runs.     *)
Interrupt(w) ==
  /\ pool = "stopping"
  /\ w \in alive
  /\ running[w] # NoJob
  /\ handler' = [handler EXCEPT ![running[w]] = "interrupted"]
  /\ Release(w)
  /\ running' = [running EXCEPT ![w] = NoJob]
  /\ alive' = alive \ {w}
  /\ UNCHANGED << pool, queue, results, future, reconc, breaker, clientVars >>

(* gather() returns and _tasks is cleared.                                 *)
StopFinish ==
  /\ pool = "stopping"
  /\ alive = {}
  /\ pool' = "none"
  /\ UNCHANGED << alive, running, queue, inflight, results, future, reconc,
                  breaker, clientVars, handler >>

-----------------------------------------------------------------------------
(* submit(), up to its first await: each early return is an action         *)

Answer(j, outcome) == call' = [call EXCEPT ![j] = outcome]

SubmitNotRunning(j) ==
  /\ call[j] = "new"
  /\ pool = "none"
  /\ Answer(j, "failed")
  /\ UNCHANGED << poolVars, queue, inflight, results, future, reconc, breaker,
                  awaits, handler >>

SubmitCircuitOpen(j) ==
  /\ call[j] = "new"
  /\ pool # "none"
  /\ is_open(breaker)
  /\ Answer(j, "failed")
  /\ UNCHANGED << poolVars, queue, inflight, results, future, reconc, breaker,
                  awaits, handler >>

(* Past the breaker: allow() has its effect whatever follows.              *)
Admitted(j) ==
  /\ call[j] = "new"
  /\ pool # "none"
  /\ ~ is_open(breaker)

SubmitForged(j) ==
  /\ Admitted(j)
  /\ j \in Forged
  /\ breaker' = allow(breaker)
  /\ Answer(j, "failed")
  /\ UNCHANGED << poolVars, queue, inflight, results, future, reconc, awaits,
                  handler >>

SubmitCompleted(j) ==
  /\ Admitted(j)
  /\ j \notin Forged
  /\ results[Key[j]] # NoJob
  /\ breaker' = allow(breaker)
  /\ Answer(j, "succeeded")
  /\ awaits' = [awaits EXCEPT ![j] = results[Key[j]]]
  /\ UNCHANGED << poolVars, queue, inflight, results, future, reconc, handler >>

SubmitJoin(j) ==
  /\ Admitted(j)
  /\ j \notin Forged
  /\ results[Key[j]] = NoJob
  /\ inflight[Key[j]] # NoJob
  /\ breaker' = allow(breaker)
  /\ call' = [call EXCEPT ![j] = "joined"]
  /\ awaits' = [awaits EXCEPT ![j] = inflight[Key[j]]]
  /\ UNCHANGED << poolVars, queue, inflight, results, future, reconc, handler >>

(* Mutants: a stored result is not looked up; a job in flight is not.      *)
FreshForgetsResults(j) == Admitted(j) /\ j \notin Forged /\ inflight[Key[j]] = NoJob
FreshForgetsInflight(j) == Admitted(j) /\ j \notin Forged /\ results[Key[j]] = NoJob

Fresh(j) ==
  /\ Admitted(j)
  /\ j \notin Forged
  /\ results[Key[j]] = NoJob
  /\ inflight[Key[j]] = NoJob

SubmitQueueFull(j) ==
  /\ Fresh(j)
  /\ QueueIsFull
  /\ breaker' = record_failure(allow(breaker))
  /\ Answer(j, "failed")
  /\ UNCHANGED << poolVars, queue, inflight, results, future, reconc, awaits,
                  handler >>

SubmitEnqueue(j) ==
  /\ Fresh(j)
  /\ ~ QueueIsFull
  /\ breaker' = allow(breaker)
  /\ inflight' = [inflight EXCEPT ![Key[j]] = j]
  /\ queue' = Append(queue, j)
  /\ future' = [future EXCEPT ![j] = "pending"]
  /\ call' = [call EXCEPT ![j] = "waiting"]
  /\ awaits' = [awaits EXCEPT ![j] = j]
  /\ UNCHANGED << poolVars, results, reconc, handler >>

-----------------------------------------------------------------------------
(* submit(), resumed                                                       *)

(* What the owner of a future reports when it resumes with future f.       *)
OwnerOutcome(f) ==
  CASE f = "ok"                            -> "succeeded"
    [] f \in {"failed", "stop_error"}      -> "failed"
    [] f \in {"failed_review", "stop_review"} -> "needs_review"
    [] f = "cancelled"                     -> "cancelled"

(* What a duplicate reports.  submit() hands it a failed WorkerResult as   *)
(* it is; InProcessWorkerClient.execute raises a ToolExecutionError        *)
(* because the result has no output.  Mutant: it does not look.            *)
JoinedOutcomeUnchecked(f) ==
  IF f \in {"failed", "failed_review"} THEN "succeeded" ELSE OwnerOutcome(f)
JoinedOutcome(f) ==
  IF f = "failed_review" THEN "failed" ELSE OwnerOutcome(f)

(* The breaker counts the owner's results, not the exceptions of stop().   *)
ResumeOwner(j) ==
  /\ call[j] = "waiting"
  /\ future[j] \in Settled
  /\ Answer(j, OwnerOutcome(future[j]))
  /\ breaker' = CASE future[j] = "ok" -> record_success(breaker)
                  [] future[j] \in {"failed", "failed_review"} ->
                       record_failure(breaker)
                  [] OTHER -> breaker
  /\ UNCHANGED << poolVars, queue, inflight, results, future, reconc, awaits,
                  handler >>

ResumeJoined(j) ==
  /\ call[j] = "joined"
  /\ future[awaits[j]] \in Settled
  /\ Answer(j, JoinedOutcome(future[awaits[j]]))
  /\ UNCHANGED << poolVars, queue, inflight, results, future, reconc, breaker,
                  awaits, handler >>

(* Mutant: the future is shielded from the timeout.                       *)
TimeoutFiresShielded(j) ==
  /\ call[j] = "waiting"
  /\ call' = [call EXCEPT ![j] = "expired"]
  /\ UNCHANGED future
  /\ UNCHANGED << poolVars, queue, inflight, results, reconc, breaker, awaits,
                  handler >>

(* The timer of wait_for fires and cancels the task of the owner: that     *)
(* cancels the future it awaits, unless the future is done already.        *)
TimeoutFires(j) ==
  /\ call[j] = "waiting"
  /\ call' = [call EXCEPT ![j] = "expired"]
  /\ Resolve(j, "cancelled")
  /\ UNCHANGED << poolVars, queue, inflight, results, reconc, breaker, awaits,
                  handler >>

ResumeTimedOut(j) ==
  /\ call[j] = "expired"
  /\ MarkUncertain({j})
  /\ breaker' = record_failure(breaker)
  /\ Answer(j, IF j \in Mutations THEN "needs_review" ELSE "failed")
  /\ UNCHANGED << poolVars, queue, inflight, results, future, awaits, handler >>

(* The task calling submit() is cancelled from outside (an MCP cancellation *)
(* or a closed transport).  The future it awaits is not shielded: a        *)
(* duplicate cancels the future it shares with the owner.                  *)
Cancel(j) ==
  /\ call[j] \in Waiting
  /\ Answer(j, "cancelled")
  /\ Resolve(awaits[j], "cancelled")
  /\ UNCHANGED << poolVars, queue, inflight, results, reconc, breaker, awaits,
                  handler >>

-----------------------------------------------------------------------------
(* _worker_loop() and _execute()                                           *)

Idle(w) == pool = "running" /\ w \in alive /\ running[w] = NoJob

Take(w) ==
  /\ Idle(w)
  /\ queue # << >>
  /\ running' = [running EXCEPT ![w] = Head(queue)]
  /\ handler' = [handler EXCEPT ![Head(queue)] = "started"]
  /\ queue' = Tail(queue)
  /\ UNCHANGED << pool, alive, inflight, results, future, reconc, breaker,
                  clientVars >>

(* registry.validate() raises: no await between taking and finishing.      *)
TakeInvalid(w) ==
  /\ Idle(w)
  /\ queue # << >>
  /\ queue' = Tail(queue)
  /\ handler' = [handler EXCEPT ![Head(queue)] = "rejected"]
  /\ MarkUncertain({Head(queue)})
  /\ Resolve(Head(queue), "failed")
  /\ inflight' = [inflight EXCEPT ![Key[Head(queue)]] = NoJob]
  /\ UNCHANGED << poolVars, results, breaker, clientVars >>

HandlerSucceeds(w) ==
  /\ pool = "running"
  /\ running[w] # NoJob
  /\ handler' = [handler EXCEPT ![running[w]] = "succeeded"]
  /\ results' = [results EXCEPT ![Key[running[w]]] = running[w]]
  /\ Resolve(running[w], "ok")
  /\ Release(w)
  /\ running' = [running EXCEPT ![w] = NoJob]
  /\ UNCHANGED << pool, alive, queue, reconc, breaker, clientVars >>

HandlerRaises(w) ==
  /\ pool = "running"
  /\ running[w] # NoJob
  /\ handler' = [handler EXCEPT ![running[w]] = "raised"]
  /\ MarkUncertain({running[w]})
  /\ \E value \in {"failed", "failed_review"} : Resolve(running[w], value)
  /\ Release(w)
  /\ running' = [running EXCEPT ![w] = NoJob]
  /\ UNCHANGED << pool, alive, queue, results, breaker, clientVars >>

-----------------------------------------------------------------------------
(* reconcile() with a confirmed outcome, and the clock                     *)

Reconcile(j) ==
  /\ reconc[j] # "none"
  /\ reconc' = [reconc EXCEPT ![j] = "confirmed"]
  /\ UNCHANGED << poolVars, queue, inflight, results, future, breaker,
                  clientVars, handler >>

CoolDown ==
  /\ is_open(breaker)
  /\ breaker' = cool_down(breaker)
  /\ UNCHANGED << poolVars, queue, inflight, results, future, reconc,
                  clientVars, handler >>

Submit(j) ==
  \/ SubmitNotRunning(j) \/ SubmitCircuitOpen(j) \/ SubmitForged(j)
  \/ SubmitCompleted(j)  \/ SubmitJoin(j)
  \/ SubmitQueueFull(j)  \/ SubmitEnqueue(j)

Next ==
  \/ Start \/ Stop \/ StopFinish \/ CoolDown
  \/ \E w \in Workers : \/ WorkerExit(w) \/ Interrupt(w)
                        \/ Take(w) \/ TakeInvalid(w)
                        \/ HandlerSucceeds(w) \/ HandlerRaises(w)
  \/ \E j \in Jobs : \/ Submit(j)
                     \/ ResumeOwner(j) \/ ResumeJoined(j)
                     \/ TimeoutFires(j) \/ ResumeTimedOut(j)
                     \/ Cancel(j) \/ Reconcile(j)

Spec == Init /\ [][Next]_vars

(* The event loop runs every ready task, timers fire, and a cancelled task *)
(* unwinds.  Nothing is assumed of handlers, clients or operators.         *)
Fairness ==
  /\ \A j \in Jobs : /\ WF_vars(ResumeOwner(j)) /\ WF_vars(ResumeJoined(j))
                     /\ WF_vars(TimeoutFires(j)) /\ WF_vars(ResumeTimedOut(j))
  /\ \A w \in Workers : WF_vars(WorkerExit(w)) /\ WF_vars(Interrupt(w))
  /\ WF_vars(StopFinish)

FairSpec == Spec /\ Fairness

-----------------------------------------------------------------------------
(* Properties                                                              *)

(* Idempotency: of all the submissions that carry one idempotency key, at  *)
(* most one handler ever runs to success, whatever timeouts, cancellations,*)
(* retries, stops and restarts happen in between (_inflight and            *)
(* _idempotent_results of submit()).                                       *)
AtMostOneSuccess ==
  \A i, j \in Jobs :
    Key[i] = Key[j] /\ handler[i] = "succeeded" /\ handler[j] = "succeeded"
      => i = j

(* Two tasks of the pool never execute jobs of the same key at the same    *)
(* time, also when the first submission of the key was given up (line 195).*)
NoConcurrentDuplicate ==
  \A v, w \in Workers :
    /\ running[v] # NoJob
    /\ running[w] # NoJob
    /\ Key[running[v]] = Key[running[w]]
    => v = w

(* A caller is told "succeeded" only with the result of a handler that ran *)
(* to success under the caller's own key; in particular stop() and the     *)
(* timeout never turn an unknown outcome into a success.                   *)
SuccessIsReal ==
  \A j \in Jobs :
    call[j] = "succeeded" =>
      /\ awaits[j] \in Jobs
      /\ Key[awaits[j]] = Key[j]
      /\ handler[awaits[j]] = "succeeded"

(* Whoever submitted or joined a mutation and is told anything but success *)
(* finds a reconciliation record for the job that was queued: no failure,  *)
(* timeout or stop is reported without one.                                *)
UnsuccessfulMutationIsRecorded ==
  \A j \in Jobs :
    /\ awaits[j] \in Mutations
    /\ call[j] \in {"failed", "needs_review"}
    => reconc[awaits[j]] # "none"

(* A job that stop() answered with "Worker stopped" stays stopped: no task *)
(* of this or of a restarted pool completes it afterwards (the queue is    *)
(* drained in the critical section that sets the exceptions).              *)
StoppedStaysStopped ==
  \A j \in Jobs :
    future[j] \in {"stop_review", "stop_error"} => handler[j] # "succeeded"

(* The breaker has an opening time exactly when a full threshold of        *)
(* failures was counted: each cool-down and each success starts the count  *)
(* again, although late results of older jobs keep arriving in any order.  *)
OpenExactlyAtThreshold ==
  breaker.opened_at # "none" <=> breaker.failures = FailureThreshold

(* A stored result is never replaced or dropped: every later duplicate of  *)
(* the key is answered with the same result (line 193).                    *)
ResultsAreStable ==
  [][\A k \in Keys : results[k] # NoJob => results'[k] = results[k]]_results

(* The confirmation an operator gave to reconcile() is kept once the job   *)
(* is over: only its own handler, still queued or running, or its own      *)
(* submitter, still waiting, may set the record back to needs_review       *)
(* (lines 216 and 281).  No later stop(), restart or duplicate does,       *)
(* although a drained job stays in _inflight forever.                      *)
ConfirmationIsFinal ==
  [][\A j \in Jobs :
       /\ reconc[j] = "confirmed"
       /\ j \notin Queued
       /\ \A w \in Workers : running[w] # j
       /\ call[j] \notin Waiting
       => reconc'[j] = "confirmed"]_vars

(* Every call of submit() ends, even when its handler never returns, the   *)
(* pool is stopped under it, or the call only joined another one's future  *)
(* and has no timer of its own (line 211).                                 *)
SubmissionsEnd ==
  \A j \in Jobs : call[j] \in Waiting ~> call[j] \in Ended

(* stop() returns: the gather of the cancelled tasks is never kept waiting *)
(* by submissions that are still accepted while it runs.                   *)
StopTerminates ==
  pool = "stopping" ~> pool = "none"

-----------------------------------------------------------------------------
(* What the documents say and the code does not do                         *)

(* README.md:277-278: a stopped worker "creates a `needs_review`           *)
(* reconciliation record" for an uncertain mutation.  A handler that       *)
(* stop() interrupted has one, or its caller is about to write it.         *)
InterruptedMutationIsRecorded ==
  \A j \in Mutations :
    handler[j] = "interrupted" => reconc[j] # "none" \/ call[j] = "expired"

(* docs/DECISIONS.md:293-295 (ADR-0019): for mutations "a possible partial *)
(* execution returns `needs_review`".  The caller that owns a mutation     *)
(* whose handler raised is told so.                                        *)
FailedMutationNeedsReview ==
  \A j \in Mutations :
    handler[j] = "raised" /\ call[j] \in {"succeeded", "failed", "needs_review"}
      => call[j] = "needs_review"

=============================================================================

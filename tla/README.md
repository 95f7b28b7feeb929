# TLA+ verification of mcp_gateway

mcp_gateway is a policy-enforcing gateway between MCP clients and tools. A tool
call is validated, evaluated by a policy engine, approved by an operator where
the policy asks for it, executed by a queued worker in a sandbox, retried or
repaired within bounds, audited in a hash-chained log and answered. This
directory models the parts that carry its state, checks them with TLC and proves
the central ones with TLAPS.

## 1. Inventory

Paths are relative to `src/gateway/`.

| Component | State | Operations | What is hard | What makes it correct |
|---|---|---|---|---|
| Queued worker (`workers/service.py`, `models.py`) | queue, `_inflight`, `_idempotent_results`, `_reconciliation`, futures, pool tasks | `start`, `stop`, `submit`, `_worker_loop`, `reconcile` | timeouts while a handler runs, duplicates that share a future, cancellation, shutdown, restart | one success per idempotency key; no success is invented; an uncertain mutation has a record; every submission and `stop` end |
| Circuit breaker (`workers/circuit.py`) | failure count, opening time | `allow`, `is_open`, `record_success`, `record_failure` | results of old jobs arrive in any order | opens exactly at the threshold |
| Tool-call lifecycle (`server.py`, `registry.py`, `errors.py`, `models.py`) | call record, attempt counters, arguments, policy outcome | `execute_tool_call`, `execute_attempt`, `fail`, `write_audit` | any awaited service fails at any step; repairs change the arguments after the policy decision | only allowed arguments run; mutations run once; answer, record, audit and durable copy agree; the call ends |
| Repair loop (`repair/loop.py`, `diagnose.py`, `backoff.py`, `advisor.py`) | loop attempt, deadline | `RepairLoop.run`, `_can_retry`, `repair` | interaction with the counters of `execute_attempt`; the advisor fails while a failure is handled | bounded; policy failures and unsafe mutations are never retried |
| Audit log (`audit/log.py`, `audit/verify.py`, `async_utils.py`) | file, `_last_hash`, `_lock`, executor threads | `append`, `_append_sync`, `_read_last_hash`, `verify_audit_file` | a cancelled coroutine releases the lock while its thread writes; write and fsync fail; crash and power loss | the chain verifies; a returned record is durable |
| Approval queue (`hitl/queue.py`, `hitl/cli.py`) | Redis key of a request, waiting call, operators | `submit`, `wait`, `decide`, `list_pending` | read-modify-write between operators, timeout, ttl | a decision acted on was made; the wait ends |
| State store (`state/redis_store.py`) | call record in Redis or memory, session index | `create_call`, `transition`, `start_attempt`, `finish_attempt` | optimistic transactions, a timeout or a lost connection with an EXEC on its way | updates are atomic, in order, and applied once unless a connection was lost |
| Control plane (`control_plane/`) | tenants, principals, calls, attempts, approvals in PostgreSQL | `upsert_tenant`, `upsert_principal`, `upsert_tool_call`, `create_approval`, `resolve_approval` | concurrent first writes, uniqueness constraints, updates of stale rows | nothing is decided about a call that is not stored; the durable copy agrees with the record |
| Remote worker (`workers/remote.py`, `workers/http_server.py`) | none on the client; a `WorkerService` on the server | `execute`, `POST /jobs`, the lifespan | the HTTP timeout races the worker's answer; requests and the worker process are lost | an attempt in doubt is reported as such; a success is real; the process drains |
| Policy (`policy/`) | none | OPA query, decision parsing, Rego rules | rules that overlap; OPA fails | at most one rule per input; fail closed |
| Authentication (`auth.py`, the middleware of `http_server.py`) | JWKS cache, principal of the request | token verification, key refresh | stale keys, concurrent refreshes that overtake each other | only verified callers pass; a published key is found |
| Sandbox (`sandbox/`) | one container per attempt, two docker processes | `run`, `run_worker` | cancellation at every await, the cleanup included; killing `docker run` does not stop its container | no container runs after its `run()`, unless the cleanup was cut short |
| Rest of the HTTP gateway, transport, tracing, configuration, tools, evaluation harness | none that outlives a call | | | |

Interactions. `execute_tool_call` awaits the state store, the control plane, the
policy client, the approval queue, the registry's handler and the audit log, in
that order. In a worker deployment the handler is a proxy
(`create_worker_proxy_registry`) that submits a signed job to `WorkerService`
with the key `call_id:tool_name`, so all attempts of one call carry the same key.
With `worker_mode = remote` the job travels over HTTP to a worker process of its
own. Approvals cross processes through Redis, tenants and principals are shared
by all calls through PostgreSQL; everything else is in one event loop, except the
threads of `run_blocking` and the docker processes.

## 2. Modules

| Module | Models | Kind |
|---|---|---|
| `CircuitBreaker` | `workers/circuit.py` as functions on its two fields | operators |
| `WorkerService` | `workers/service.py`; extends `CircuitBreaker` | component |
| `ToolCall` | `server.py: execute_tool_call` composed with `repair/loop.py` and `diagnose.py`, and with the services by their outcomes | composition |
| `AuditLog` | `audit/log.py`, `audit/verify.py`, `async_utils.run_blocking` | component |
| `ApprovalQueue` | `hitl/queue.py` and `hitl/cli.py` | component |
| `StateStore` | the `StateStore` protocol as `InMemoryStateStore` implements it | abstract specification |
| `RedisStateStore` | `RedisStateStore._update`; implements `StateStore` | refinement |
| `RemoteWorker` | `workers/remote.py` and `workers/http_server.py`; extends `WorkerService` | composition |
| `PolicyRules` | `policy/policies/tools.rego` and `policy/client.py` | operators |
| `ControlPlane` | the upserts of `control_plane/repository.py` on the tables of `models.py` | component, without a `Next` of its own |
| `Admission` | the middleware of `http_server.py`, `auth.py`, the first writes and the policy of `execute_tool_call`; extends `PolicyRules` and `ControlPlane` | composition |
| `Sandbox` | `sandbox/runner.py`, with docker as an external actor | component |
| `MC*` | the instances TLC checks | |
| `WorkerServiceProofs`, `RemoteWorkerProofs`, `ToolCallProofs`, `AuditLogProofs`, `SandboxProofs`, `AdmissionProofs`, `ApprovalQueueProofs`, `RedisStateStoreProofs` | theorems about the modules they are named after | proofs |

How state and actions correspond to the code:

* **WorkerService.** One action per code segment between two suspension points of
  the event loop. Each early return of `submit` is an action
  (`SubmitNotRunning` ... `SubmitEnqueue`), and so is each way it resumes
  (`ResumeOwner`, `ResumeJoined`, `ResumeTimedOut`, `Cancel`). `TimeoutFires` is
  apart from `ResumeTimedOut` because `wait_for` cancels the future before
  `submit` runs again. The dictionaries are functions by key; a future is the
  state it was resolved to. The signature is abstracted to the set `Forged`.
  `handler` and `awaits` are history variables.
* **ToolCall.** `pc` names the await `execute_tool_call` stands at. An operation
  of the state store that fails was applied or not (`asyncio.timeout` around
  EXEC), and one that was repeated after a lost connection may have been applied
  twice, which shows in `start_attempt` only: a repeated transition or
  `finish_attempt` leaves the record as it is but for a second entry in its
  history. `RedisStateStore` shows that nothing worse can happen. The audit record
  is handed to a thread (`WriteAudit`), written by it (`AuditThread`) and only
  then is the client answered (`Answer`); a cancellation in between leaves the
  thread at work. `Faults` says which services may fail. Argument sets are
  numbered. The policy, the advisor,
  the tool and the operators answer with any of their outcomes. `runs`, `effect`
  and `allowed` are history variables.
* **AuditLog.** `coro` is `append()`, `thread` is `_append_sync`. A record is
  named by its call, which stands for its digest. `Written` says what an append
  does to a file whose last line is not terminated. `damage` records the faults
  that put the file and `_last_hash` out of step.
* **ApprovalQueue.** One action per Redis command of the gateway and of each run
  of the command line. `known` and `late` are history variables.
* **RedisStateStore.** WATCH, GET, EXEC and its reply are separate steps; EXEC
  may be executed after the caller has given up. redis-py raises `WatchError` not
  only for a conflict but also when the connection dies in EXEC while a key is
  watched, and the loop then repeats the update on another connection
  (`Disconnect`); the EXEC sent on the lost one may have been executed or still
  be. A record is the log of what was applied to it, by update and connection.
* **RemoteWorker.** `deployment` is `worker_mode`. For "queued" every step is one
  of `WorkerService`; for "remote" a job is one attempt of a call, `client` is
  `RemoteWorkerClient.execute`, `http` its request, `server` the worker process.
  The client may give up at any time, and what it has sent is still served.
  `Crash` and `Exit` reset every field of the service: nothing of it is
  persisted. External: the network, and uvicorn, which lets open requests end.
* **Admission.** A step is the code between two awaits of a request. A token is a
  record of its claims and of whether it verifies. The identity provider
  publishes documents in order and answers a fetch with the document of that
  moment, which may arrive later than a newer one. The upserts of `ControlPlane`
  read in one step and write in another, as at READ COMMITTED; an UPDATE writes
  the columns that differ from the row that was loaded. `since`, `unlucky`,
  `stored`, `lost` and `mixed` are history variables. The deployment has a
  control plane; without one the three writes do not happen.
* **PolicyRules.** The names are those of the Rego rules. A query or a command is
  abstracted to its first word and to which of the texts the rules look for it
  contains.
* **Sandbox.** `pc` is the await `run()` stands at, `cli` the process
  `docker run`, `reaper` the process `docker rm -f`, `ctr` the container as the
  daemon knows it. A request that a killed command line has sent is still served.

## 3. Runs

| Run | Configuration | Shows |
|---|---|---|
| `worker_safety` | 4 submissions (2 of one key, 1 forged), 2 workers, queue of 1, threshold 2 | deduplication, truthful answers, reconciliation records, confirmations that stay; the breaker counts exactly, late results included |
| `worker_deployments` | in-process and remote; 2 attempts of an idempotent mutation and a forged job that is not idempotent, 1 worker, queue of 1, threshold 2, fairness | after the plain failure of a mutation no attempt of its call is in doubt but those reported for review; a reported success is one of the key; submissions, `stop()` and the shutdown of the worker process end |
| `call_reliable` | all deployments, no service failures, 3 attempts | policy covers every argument set executed; record, audit and durable copy agree; terminal states are final; the call ends |
| `call_faulty` | the same with failing state store, control plane and audit log | what survives: the gate, single execution of mutations, agreement of answer, record and audit, also for a call cancelled while its audit record is written |
| `audit_faulty` | 3 appends, every fault | which faults can break the chain, durability, immutability, no append waits forever |
| `approval_safety` | 3 operators, expiry, failing Redis | attribution of decisions, overwrites only between overlapping operators, the wait ends |
| `store_refinement` | 2 updates, each losing up to 2 connections, timeouts, expiry | `RedisStateStore` implements `StateStore`; updates stay in the order of invocation; the conflict loop ends |
| `admission` | 2 requests, 6 tokens (2 of one subject), 3 modes, 5 inputs, 1 key rotation, empty or filled principals table | exclusive rules; what is allowed is declared read-only and its caller verified; no decision without rows; who can collide; which rows can be mixed; published keys are found |
| `sandbox_cleanup` | 2 attempts, fairness | when a container can run after `run()`; every other one is removed in the end |
| `worker_interrupted` | violation | see section 5 |
| `call_recheck` | violation | see section 5 |
| `audit_cancelled` | violation | see section 5 |

Bounds. Three submissions are the smallest set with an owner, a duplicate and a
bystander that fills the queue; a fourth has a token that does not verify. A
queue of one makes it full and empty. Two failures open the breaker, so that the
result of the third submission may arrive after it has opened. Three
attempts are the code's default (`BackoffPolicy.max_attempts`), so `ToolCall` is
not cut at all. Three appends are a cancelled one, the one that overtakes it and
one that links to either. Three operators are the one who decides, the one who
overlaps and the one who comes later. Two updates are one in doubt and the one
that follows or conflicts; two lost connections (`MaxLost`) give three EXECs of
one update, of which the first may arrive after the second. Two requests are
enough for every property of
`Admission` to fail in its mutants, since each is about one request and one that
interferes; one rotation gives documents before and after, which overtaking
refreshes can exchange. The inputs are a SELECT, a DELETE with and without WHERE,
an UPDATE and a command. Two attempts of a remote job are one in doubt and its
retry, with the worker restarted any number of times in between. The models have
no other bound: each call, append, update, request and operator acts once, which
makes the state spaces finite, and so `CHECK_DEADLOCK FALSE` is given where
everything may be over. In the runs of the worker deadlock is checked: it can
always be started and stopped. Symmetry is used for the workers and the two
attempts of `worker_safety` and for the requests of `admission`, which check
safety only.

Fairness, and why the code justifies it:

* `WorkerService`: ready tasks are run by the event loop, the timer of
  `wait_for` fires, cancelled tasks unwind. Nothing is assumed of handlers,
  clients, operators or of the idle workers.
* `ToolCall`: the state store, the policy client, the approval wait, the advisor
  and the sandbox are awaited with timeouts; the database driver and the audit
  thread are assumed to return. Operators need not decide.
* `AuditLog`: the poll of `run_blocking` and the threads of the executor go on.
  Restarts and new calls are not assumed.
* `ApprovalQueue`: only that `asyncio.timeout` fires.
* `RedisStateStore`: the server answers on connections that are not lost and the
  event loop runs. The timeout is not assumed to fire: the conflict loop ends by
  itself, when connections are lost finitely often.
* `RemoteWorker`: that of `WorkerService`, and that a request whose `submit()`
  has ended is answered and a process told to terminate goes on with its
  shutdown. Nothing is assumed of clients, the network, restarts or handlers.
* `Sandbox`: the timer of `wait_for` fires, ready tasks run, killed processes are
  reaped, the daemon starts what it was told to start and answers `docker rm`.
  The command in the container may run forever.
* `Admission` has no liveness property and no fairness.

## 4. Proofs

`WorkerServiceProofs` proves for every set of jobs, keys and workers, every queue
size and every threshold (`JobsAssumption`, `ThresholdAssumption`):

| Theorem | States |
|---|---|
| `TypeCorrect` | `TypeOK`; the queue never exceeds its size |
| `Idempotency` | at most one handler per key succeeds |
| `Exclusion` | jobs of one key never run at the same time |
| `SoundSuccess` | a reported success is a handler's success under the same key |
| `CompleteRecords` | a mutation reported as unsuccessful has a reconciliation record |
| `StoppedForGood` | a job answered by `stop()` never succeeds later |
| `StableResults` | a stored result is never replaced |
| `ConfirmationsStay` | the confirmation of an operator stays once the job is over |
| `BreakerSound` | the breaker has an opening time exactly at the threshold |

All but the last follow from one inductive invariant `IInv` (`Invariance`). None
of the properties is inductive alone: that at most one handler succeeds depends
on who may be queued or running, so

* `KeyInv`: what is stored under a key carries that key;
* `LiveInv`: a job that is queued or running owns its key in `_inflight`, its key
  has no result, it is queued once and run by one task. This is the heart of the
  argument: the key is released only where the job stops being live, or not at
  all when `stop()` drains the queue;
* `FutureInv`: a settled future tells the truth about handler and records, and a
  job whose handler succeeded is the one whose result is stored;
* `CallInv`: a call waits for a future of its own key.

Each action has a lemma that it preserves `IInv`; `NextInv` combines them.
`BreakerSound` has an invariant of its own (`ExactLemma`), which needs nothing of
the rest of the service. `ConfirmationsStay` needs `RecordInv` besides: a job that
has a record has a settled future, so the `Unfinished` of a later
`stop()` passes it by, although a drained job stays in `_inflight`.

`RemoteWorkerProofs` proves of both deployments, for every set of jobs, keys,
attempts and workers, every queue size and threshold (`JobsAssumption`,
`ThresholdAssumption`, and `AttemptAssumption`: the repair loop submits each
attempt of a call once, so two jobs of one key have different numbers):

| Theorem | States |
|---|---|
| `RemoteTypeCorrect` | `RemoteTypeOK` |
| `DoubtfulAttemptsAreTold` | after the plain failure of a mutation no attempt of its call has succeeded or will, but for those of an idempotent tool that were reported for review or made later |
| `RealSuccess` | a success is this attempt's, or that of an earlier one that was given up |
| `RemoteExclusion` | jobs of one key never run at the same time, given-up ones included |
| `RemoteBreakerSound` | the breaker counts exactly, through every restart |

In the queued deployment the invariant is `IInv` and the HTTP client is idle. The
remote one cannot use `IInv`: a crash forgets results and futures, but handlers
have run, so "a handler that succeeded is the one whose result is stored" is
false after a restart, and with it idempotency across restarts. `SInv` keeps what
speaks of one process: `KeyInv` and `LiveInv` as above, `SettledInv` (a settled
future tells the truth about the handler; a job that is new has left no trace in
any process; nobody but the timer cancels a future) and `OwnInv` (who holds a key
was submitted to this process). `GInv` relates the gateway to it: `PostInv` (a
request is posted once, after all earlier attempts were told; a job is unknown
until its request is served) and `ServedInv` (what a call that has ended and is
not yet answered says of the handlers). The argument for `RealSuccess`: the job
whose result a client gets was posted, so one of the two is the earlier attempt;
a client that still waits cannot be it, since the later one would not have been
posted. `DoubtfulAttemptsAreTold` speaks of all attempts of a call and follows from
`OwnFailure`, which speaks of the job that failed, and `PostInv`: earlier attempts
were told something, and there are none unless the tool is idempotent. Every
action of the service has a lemma for `SInv`; `PoolEffects` and
`SubmitEffects` sum up what they do to handlers and calls, and with those the
lemmas about the requests never look into the service.

`ToolCallProofs` proves for every deployment, any set of failing backends and any
number of attempts (`CallAssumption`):

| Theorem | States | Backends that must not fail |
|---|---|---|
| `TypeCorrect` | attempts, numbers, invocations and proposals stay within `max_attempts` | none |
| `Gate` | the tool runs only past the first verdict | none |
| `RunsOnce` | a mutation that is not idempotent is invoked at most once | none |
| `TruthfulAnswer` | answer and record agree | none |
| `TruthfulAudit` | at most one audit record, and it agrees with the record and with the answer, if there is one | none |
| `PolicyCoversRuns` | every argument set executed was allowed or approved | store |
| `TerminalStays` | a terminal state is never left | store |
| `Audited` | a terminal call that was answered has its audit record | store, audit log |
| `DurableCopy` | the durable row agrees with the record | store, control plane |

There are two invariants. `IInv` holds whatever fails. It follows the program
counter through `execute_tool_call`, `execute_attempt` and the repair loop:
`ErrInv` says which error is at hand where one is handled, `CountInv` how the
numbers of the loop, the attempts, the invocations and the proposals stand to each
other (this bounds them, and holds a mutation at its first attempt), `GateInv`
what the verdict was, `EndInv` that nothing is answered before the record has the
state the error calls for. `RInv` needs a state store that does not fail.
`CountedInv` is where it starts: an attempt that is repeated was counted. When the
store raises in the transition to `executing`, the loop retries with
`latest_attempt` still 1, and then neither the second policy check (`CoveredInv`;
the run `call_recheck` shows the failure) nor the distinct numbers (`NumberInv`)
nor the durable copy, which refuses duplicates (`CopiedInv`), can be relied on.
`FinalInv` says that a terminal record belongs to a call on its way out, and
`AuditedInv` that it does not end without its audit record. `call_reliable` checks
the last four with every backend reliable; the proofs show that a failing control
plane or audit log takes away no more than the table says.

`AuditLogProofs` proves for any set of calls and any combination of faults:

| Theorem | States |
|---|---|
| `TypeCorrect` | `TypeOK` |
| `ChainVerifies` | without damage the file verifies after any number of concurrent appends, kills, lost lines and restarts |
| `Durability` | a record whose `append()` returned is on disk, as long as no line was torn |
| `LinksLeadBack` | every link leads to an earlier record, as long as no line was torn |
| `Immutability` | a record on disk is never changed or lost, whatever fails |

Its inductive invariant adds to the properties: `ProcessInv` (nothing runs in a
process that is down; the holder of the lock is the coroutine that took it),
`FileInv` (how far a thread has come shows in the file, and `_last_hash` names a
line of it) and `LockInv` (without damage the only thread at work belongs to the
holder of the lock, and `_last_hash` is the last line but for the one that thread
has written). `LockInv` is what a cancelled append breaks. The only fact used
from the library is `SubSeqProperties`, for what a crash leaves of the file.

`SandboxProofs` proves for any number of attempts `TypeCorrect` and `NoOrphans`:
a container runs after its `run()` is over only when `docker rm` failed or a
cancellation hit the cleanup. Its invariant says, for every await of the finally
block, that the command line has ended or was killed, so that nothing can ask
the daemon for a start any more once `docker rm` is on its way.

`AdmissionProofs` proves for every set of calls, tokens, inputs and stored
principals and every sequence of key documents (`AdmissionAssumption`):

| Theorem | States |
|---|---|
| `TypeCorrect` | `TypeOK` |
| `NoConflict` | no input satisfies two rules of `tools.rego` |
| `VerifiedCallers` | what is allowed without a human is of a tool declared read-only, shows no text the policy takes for destructive, and comes from a verified caller |
| `PersistedFirst` | no decision about a call whose rows are not stored |
| `CollisionsAreFirst` | an upsert collides only on first contact |
| `RowsAreWhole` | a stored principal is mixed only by overlapping upserts |
| `FreshKeys` | a key published all the time of a request is found |

The properties speak of the end of a request and rest on what it has passed, so
`CallInv` says for every place of a request which checks and writes are behind
it. A step of another request keeps it because documents, tenants, calls and the
keys of principals only grow (`Carried`); the request's own steps are
`OwnAuthenticate`, `OwnPersist` and `OwnEvaluate`. `MixInv` is about the table:
keys are unique, overlapping upserts are noted, and without an overlap what an
open upsert has loaded is what is stored, so that writing the columns that differ
leaves exactly the principal that was presented (`UpdatedCurrent`).

`ApprovalQueueProofs` proves for any set of operators and any combination of
faults `DecisionsAreMade` (a call that goes on as approved or rejected acts on
what the operator named in the record decided) and `OverwritesOverlap` (a
recorded decision is replaced only by an operator whose run began before it was
recorded). The invariant adds `EntryInv` (what the key holds was written by the
operator it names), `PendingInv` (the request is pending only until a decision is
recorded, and is submitted before any operator has seen it) and `LateInv` (an
operator started after a decision never gets past the list of pending requests).

`RedisStateStoreProofs` proves for any set of updates and any number of lost
connections, with timeouts and expiry (`RedisAssumption`), `Refinement`
(`RedisStateStore` implements `StateStore!Spec`) and `OrderedUpdates`
(`InvocationOrder`). A step of the loop maps to the abstract update at the moment
the server executes an EXEC that is not aborted; all others map to the loss of a
connection, the return, the failure or a stutter. Besides where a transaction can
be (`ExecInv`), what the record holds (`AppliedInv`), that an update not yet
invoked has lost nothing (`LostInv`) and who comes before whom (`BeforeInv`), the
invariant says of a transaction whose WATCH has seen no change (`CleanInv`) that
its copy is the present record with the update appended, and that no update
invoked after it was given up has been applied: an EXEC that arrives late is
either first or aborted. Because every EXEC that is executed ends all watches, the
EXEC of a lost connection is never executed after that of a later one.

Only model-checked: liveness (`SubmissionsEnd`, `StopTerminates`, `DrainCompletes`,
`CallEnds`, `AppendsEnd`, `WaitEnds`, `UpdatesEnd`, `ContainersEnd`), since fairness
is out of the prover's reach. Every safety property of a passing run has a theorem.

## 5. Where code and documents disagree

Checked, one violation run each:

* **`worker_interrupted`** (`workers/service.py:129`). `stop()` skips jobs whose
  future is done. The future of a cancelled submitter is done although its
  handler runs: the handler is interrupted and no record is written. The
  repository's README (lines 277-278) promises a `needs_review` record.
* **`call_recheck`** (`server.py:492`). A state-store failure before the first
  attempt is handed to the repair loop with `latest_attempt` still 1. The
  repaired arguments then run without the policy evaluation that README.md:113-114
  and `docs/DECISIONS.md:225-226` promise.
* **`audit_cancelled`** (`async_utils.py:35`). A cancelled append releases the
  lock while its thread writes; the next record links to the same predecessor.
  `audit/log.py:32` promises that the chain is preserved.

Stated in the modules, reproducible by adding the definition to a configuration
of the run named:

| Definition | Configuration | What happens |
|---|---|---|
| `WorkerService!FailedMutationNeedsReview` | `WorkerService_safety` | a mutation whose handler raised is answered as a plain failure (DECISIONS.md:293-295) |
| `ToolCall!CompletedIsAudited` | `ToolCall_faulty` | a store failure inside `fail()` answers without an audit record (DECISIONS.md:198) |
| `AuditLog!FileVerifies` with `Faults = {"fsync"}` | `AuditLog_faulty` | a failed fsync forks the chain |
| `AuditLog!CanResume` | `AuditLog_faulty` | after a torn write the constructor raises at the next start |
| `ApprovalQueue!DecisionIsFinal` | `ApprovalQueue_safety` | an overlapping operator replaces a recorded decision (DECISIONS.md:152) |
| `ApprovalQueue!LateDecisionRefused` | `ApprovalQueue_safety` | a decision on a call that was already answered is reported as recorded |

Seen in the models and stated nowhere as a property:

* An unavailable repair advisor raises `ValueError` out of the handler of the
  original failure (`repair/advisor.py:110`, `LoopRaises`); README.md:433 says the
  original failure is returned.
* An applied `start_attempt` that timed out is repeated with its number, and the
  control plane refuses the copy (`DistinctAttempts`).
* Rejected and timed-out approvals stay pending in PostgreSQL
  (docs/THREAT_MODEL.md:26).
* A token with an empty `tenant_id` passes the checks of
  `_principal_from_claims` and is refused by `Principal`, outside the try block:
  the middleware answers 500 in place of 401 (`Invalid`).
* A duplicate that joined a cancelled future is answered by the remote endpoint
  with 500, which the client reports as a plain failure although the handler of the
  attempt it joined may still run and succeed. What the gateway can rely on is
  `DoubtIsTold`: that attempt had been reported for review. The call as a whole is
  then answered with the plain failure of its last attempt.
* The docstring of `_update` (`state/redis_store.py:106`) promises "one atomic
  optimistic update". When the connection dies in EXEC the update is repeated and
  may be applied twice (`Disconnect`): a second transition entry, or a second
  attempt of one number, which the control plane then refuses to copy.
* A call cancelled while its audit record is written is audited as if it had been
  answered (`AuditThread` after `Cancel`).
* `SandboxRunner.run` promises to "always attempt to reap its named container"
  (`sandbox/runner.py:52`). A cancellation that hits an await of the finally block
  before `docker rm` is spawned ends `run()` without the attempt: this is the
  second excuse of `OrphanNeedsExcuse`.
* A `DELETE` or `UPDATE` with a `WHERE` is allowed without a human when the tool is
  declared read-only. `tools_test.rego:51-61` asserts it, so it is meant;
  `AllowedAsDeclaredAndVerified` says what the policy looks at, not what the
  statement does.
* A key withdrawn by its issuer is accepted until a token with an unknown key id
  refreshes the cache (`KeyCached`).

## 6. Not modelled

* HMAC, SHA-256, JSON, prompts, spans and log text: data the properties do not
  tell apart.
* Signatures of tokens, OPA's evaluation and the docker daemon: external. A token
  is valid or not, the rules are evaluated as the language defines, the daemon
  serves every request.
* Repository methods without a caller in the gateway: `put_idempotency_key`,
  `record_policy_version`, `set_configuration`.
* The tools: one SQL statement or one command, without state of their own.
* Application set-up, health endpoints, MCP sessions, settings, tracing and the
  evaluation harness: wiring, input and output.
* The session index of the state store, which no code that changes state reads.
* `InMemoryApprovalQueue`: the transitions of the Redis queue under one lock.

## 7. Plan

Done: worker, breaker, remote worker; tool call; audit log; approvals; state store
and its refinement; authentication, policy and control plane up to the decision;
sandbox. Proofs of every safety property the runs check, and of the refinement.

1. `ToolCall` over `StateStore`: the abstract store composed with the call, so
   that the "applied or not" choice is derived and not assumed.

# A formal model of the DiagOps durable runtime

DiagOps diagnoses application incidents. A diagnosis is a *run* of an
*investigation*: a fixed sequence of phases in which language-model agents plan,
call read-only tools, criticise each other and adjudicate a root cause. What the
agents say is outside the reach of a model. What must hold whatever they say is
the job of the code around them: who may write, what survives a crash, what a
cancelled or late writer can still change, what a published diagnosis rests on,
which budget pays for it, and which run's results an investigation shows. This
directory models that code in TLA+, checks it with TLC and proves with TLAPS what thirteen
of its modules promise: the memory store and the SQLite store, the writer, the coordinator, the
manager, the event stream, the admission of runs, the ledger of the benchmark, the tool calls,
the V4 plan, the intake of results, and the V11 and V10 diagnosis.

Paths below are relative to `src/backend`.

## 1. The system's parts

| part | state | operations | what makes it correct | modules |
| --- | --- | --- | --- | --- |
| Runtime store in memory `runtime/store.py` | runs, leases, attempts, events, checkpoints, turns, frozen views | create, acquire, renew, cancel, append, commit tool / phase / terminal, audit, reject recovery | one writer at a time, atomic commits, a closed log | RuntimeStore, RuntimeStoreProofs |
| Runtime store in SQLite `runtime/sqlite_store.py`, `db/` | the same as rows of tables | the same, each split by the driver's transaction | the same although reads precede the transaction | SqliteStore, SqliteStoreProofs |
| Coordinator `runtime/coordinator.py` | one task per run: claim, local cancel flag, deadline, heartbeat | execute, resume, cancel, persist tool / model / agent events | ends every run it owns, stops when it lost the lease | RuntimeCoordinator, RunLifecycle, RuntimeCoordinatorProofs |
| Replay `runtime/replay.py`, views `runtime/diff.py` | folded log | replay, freeze | accepts exactly the logs a run can leave | RuntimeReplay |
| Writer `runtime/writer.py` | bounded queue, consumer, accepting flag | start, submit, shutdown | accepted commands run once, in order; shutdown drains | RuntimeWriter, OrderedWrites, RuntimeWriterProofs |
| Manager `runtime/manager.py`, `api/runtime_runs.py` | table of tasks, slots | start, resume, cancel, shutdown | one task per run; everything accepted happens | RuntimeManager, ServiceProofs |
| Admission `services/container.py`, `services/model_capability.py`, contracts of `diagnosis/v11_runtime.py` | the certified artifact, the frozen contract of a run, its investigation | certify, create run, create investigation, bind an attempt | a run calls what was proved, and meets no result of another kind | RunAdmission, ServiceProofs |
| Event hub and SSE `runtime/event_hub.py`, `api/events.py` | subscriptions with bounded queues | subscribe, publish, stream | each event once and in order | EventStream, ServiceProofs |
| Phase executor `runtime/phase_executor.py` | the session of an attempt | one handler per phase, rehydration | a resumed attempt decides as the lost one would have | V11Workflow, AgentsRuntime |
| V11 workflow `diagnosis/v11_runtime.py` | plan, rounds, candidates, assessments, decision | one function per phase | no conclusion without committed evidence | V11Workflow, DiagnosisProofs |
| Model calls of V11 (same file) | token and turn budgets, reservations | reserve, request, correct, settle, reconcile | the budget is the same in memory, log and at the provider | ModelCalls |
| Tool calls `diagnosis/adaptive_tools.py`, `runtime/concurrency.py` | sessions, admissions, threads | admit, query, retry, close | asked once, paid for, closed, seen only when durable | ToolSession, ExecutionProofs |
| V10 agents `diagnosis/agents_runtime.py`, `coordination_review.py` | findings, executions, review of a turn | collect, recollect, review, synthesize | nothing is published that is not whole, closed and stored | AgentsRuntime, DiagnosisProofs |
| V4 plan `diagnosis/execution_engine.py` | a plan of tasks | execute | dependencies decide who runs | TaskEngine, ExecutionProofs |
| Intake `diagnosis/orchestrator.py` | the result of a one-call runtime | check, replace, write, read back | the investigation claims only what is stored | ResultIntake, ExecutionProofs |
| RCAEval ledger `benchmarks/rcaeval/` | pair, sides, leases, anchor file | predict, freeze, evaluate, invalidate, recover, reauthorize | labels are read once, the scored set is the frozen one | PairLedger, PairLedgerProofs |
| Human transitions `domain/human_transitions.py` | decisions on actions | approve, reject, skip, complete | a decision is not lost | part of SqliteStore |
| OpenRCA benchmark `benchmarks/openrca/`, `api/benchmarks.py` | a run's directory, its copy, locators | run, evaluate, gates, API, replay lookup | nobody believes a directory that is not whole | BenchmarkBundle |
| Providers, deterministic RCA, reports, acceptance and canary services, HTTP, redaction | none that outlives a call, or external I/O | | | not modelled (section 12) |

How they interact. The API asks the manager to start or resume a run; the manager
starts a task that runs a coordinator with an owner identity of its own. The
coordinator acquires a lease and an attempt from the store and lets the phase
executor work, phase by phase. Everything durable goes through the writer's queue
into one transaction of the store, stamped with the claim (owner, lease version,
attempt); only lease renewal, model turns and the audit call the store directly.
The executor calls the V11 or the V10 diagnosis, whose model and tool calls come
back to the coordinator as durable events. The store publishes committed events to
the hub. A crash is visible only as a lease that is not renewed: the audit turns
such a run into `interrupted`, and a person may resume it. The RCAEval commands are
separate processes that share one ledger file.

Where it is hard: two owners of one run in time; commands that wait in a queue while
the world changes; whole-snapshot writes next to single-result writes; reads that
precede their transaction; cancellation against completion, failure and expiry;
time limits that fall between a change in memory and the event that records it;
threads nobody can cancel; memory that is lost with the process and decided with
afterwards; budgets charged from parallel calls, retries and recoveries. `PROJECT.json`
lists the hazards, each at the line where it bites, with the property that watches it.

## 2. How the project is put together

Every component has one module with its VARIABLES, Init, one action per operation and
its properties. Three modules compose or refine: `RuntimeReplay` folds the audit over
the logs of `RuntimeCoordinator`; `RuntimeCoordinator` implements `RunLifecycle`; and
`RuntimeWriter` implements `OrderedWrites`.

An `MC` module puts components with disjoint variables side by side. Each has a
variable `scope`, chosen in the initial state and never changed, that says what moves
in a behaviour: which component, and which kinds of trouble. What does not move keeps
its initial values. Components that share no variable commute, so their product would
show nothing that the parts do not show. Where a scope narrows one component
(for instance crashes without database errors), the MC module says what it leaves
out, and the combinations left out are bounds like any other: they are listed below
with each run. A scope restricts the environment (users, faults, crashes, new work), on
which there is no fairness, and every liveness property has a mutant that breaks it. The one
exception is scope `epochs` of `offline`, where recovery is fair but only one of the two
process slots may be used: there a command that never ended while its lease is expired
would be excluded. `CommandsEnd`, the second part of `LedgerSettles`, is therefore carried by scope `together`.

A property of a run is a conjunction of named invariants where several belong
together (`LogConsistent`, `ToolCallsConsistent`, ...); each part has its own name and
comment in its module.

| run | module | what moves |
| --- | --- | --- |
| `store_runs` | MCRuntimeStore | both stores: attempts, a rerun, retried calls; calls of two workers and of request threads; the admission of runs |
| `store_cancel_lost` | MCRuntimeStore | violated: is a cancelled run never completed? |
| `writer` | MCRuntimeWriter | replaced consumers, closing loops, time limits; or an orderly shutdown |
| `coordinator` | MCRuntimeReplay | crash and resume with open work; or cancellation, shutdown, database error |
| `service` | MCService | the manager; two streams; one stream that reconnects |
| `diagnosis` | MCDiagnosis | V11 (2 scopes), V10 (5 scopes), the V4 plan, the intake |
| `execution` | MCExecution | model calls; queries of two sessions; queries with two faults |
| `offline` | MCOffline | commands of a pair side by side, or over two epochs; an OpenRCA run with its gates, or with two strategies |
| `model_budget`, `tool_reuse` | MCExecution | violated |
| `ledger_recovery` | MCOffline | violated |
| `legacy_tool_evidence` | MCDiagnosis | violated |

`CHECK_DEADLOCK FALSE` everywhere: a finished run, a closed process and a settled
ledger stop.

## 3. RuntimeStore (run `store_runs`)

Models `runtime/store.py` with the parts of `phases.py`, `repositories.py`, `diff.py`
and `coordinator.py` that decide what it writes, for the live V11 runs of one
investigation. Every public method of the in-memory store runs under one lock, so
each is one action; the guard of an action is the conjunction of the method's
rejections.

| variable | in the code |
| --- | --- |
| `status`, `cancelAsked` | `RuntimeRun.status`, `cancel_requested_at` |
| `leaseOwner`, `leaseVersion`, `leaseLeft` | lease columns of the run; time is a countdown of `LeaseTTL` ticks |
| `attempts` | statuses of attempts 1, 2, ... |
| `events` | event log: type and attempt of each event; its length is the last sequence |
| `checkpoints` | attempt, event sequence and successful tools of each checkpoint, in phase order |
| `turns`, `tools` | `remaining_model_turns`; tool call rows |
| `projOwner`, `invStatus`, `evidence` | the investigation's active owner, status and evidence |
| `frozen` | frozen business projection of each run |
| `claims` | every (run, owner, version, attempt) ever returned to a coordinator |
| `pending` | phase commits that were built, whether or not they have been applied |

`claims` and `pending` are the environment. Any claim may act at any later time and
any built phase commit may be delivered at any later time, any number of times. This
covers crashes, pauses, commands that outlive their submitter and takeovers, without
an action for each. Two rules of the coordinator limit it: results are only committed
for calls that were started, and a coordinator does not commit a tool result while its
own phase commit is queued (`PhaseQueued`), because it awaits its agents before it
builds the commit and the queue is first-in first-out.

Abstracted: payloads, digests, tokens and wording. Evidence is the set of pairs (run,
tool call) whose results are in the projection. Events of the coordinator without an
effect of their own are one type, `work`. The instant `lease_expires_at == now` is not
represented. `transition_run`, `transition_attempt` and the locator methods have no
production caller in the run's lifecycle and are left out; so are replay runs.

Checked: `OwnershipConsistent`, `SingleWriter`, `TerminalIsFinal`, `LogConsistent`,
`ProjectionConsistent`, `ProjectionKept`. Scopes: one run with two attempts and a log
of 8; a run and its rerun with one attempt each and a log of 4; two workers, two
attempts and three calls, of which two are retries of one logical call, with a budget of
one and one model turn. Two attempts give one takeover, the only relation between
attempts the properties speak of; two phases distinguish activation from later
commits. `MaxEvents` bounds optional events only.

## 4. SqliteStore (run `store_runs`)

Models `runtime/sqlite_store.py` between threads and processes. The driver opens a
transaction at the first INSERT, UPDATE or DELETE. Every SELECT before it sees the
committed state of its own moment. A call is therefore up to three steps: what it reads
before `engine.begin()`, what it checks inside before its first write, and the write,
which is protected only by the conditions of its own statements and by the unique
indexes of `db/schema.py`. `txn` holds the store call each thread is in, with what it
has read; `claim` what each worker's coordinator got from its last acquisition; the
other variables are tables. A phase commit that meets a busy database is retried from
its reads (`SqlRetries`). A read that meets a damaged execution contract repairs the
run by writing (`row[r].contract`).

Checked: `SqlRowsConsistent` (types, dense event numbers, attempt order, one open
attempt, checkpoints, tool budget, and that an end is recorded), `SqlOutcomeStays`
(`SqlEndIsFinal`, `SqlDecisionStays`). Scopes: two workers and an audit over a takeover; tool calls of a
worker beside requests; reads that repair with two request threads; a rerun.

`SqlEndedIsFrozen` (a run that ended has a frozen view of all it committed) speaks of tables in
which no stored contract was damaged: the attempt to prove it without that condition failed
at `_repair_contract_integrity` for a reason no scope above shows (section 13). The memory
store is not shown to be refined step by step: the SQLite store reads a damaged
contract and lets decisions of a person in between, which the memory store has no
counterpart for. The same properties are stated of both instead.

## 5. RuntimeCoordinator, RunLifecycle, RuntimeReplay (run `coordinator`)

`RuntimeCoordinator` models one run in one process: `execute` and `resume` as a task,
the queue between it and the store, the heartbeat, the user's cancellation, the lease
audit, the deadline, crashes and restarts. What the coordinator does between two awaits
is one step; a durable write is put into the queue in one step and applied in a later
one. The worker's record `worker` holds its program counter, the exception it handles
and the answer it waits for. Every except clause of `_execute_owned` is an alternative
of `Handle`. The store is reduced to what this control needs. The agents' events carry
the name of their agent, one agent at a time, as in V10.

`RunLifecycle` is what a client may rely on: the transition table, checkpoints one at a
time and in order, and that no run stays `running` or `cancelling` for ever.
`ImplementsLifecycle` is the refinement, safety and liveness, with the fairness of the
event loop, the writer, the audit's timer and of restarts; leases that nobody renews
expire. Nothing is assumed of users, crashes, faults or of work inside a phase ending
well. `CompletedIsWhole`, `ChildrenEndFirst` and `CoordinatorConsistent` are about the
log and the rows a run leaves.

`RuntimeReplay` folds the audit of `replay.py` over every log of that system.
`AuditIsExact`: on a run nobody cancelled it knows at every moment who works on it, and
a completed run is blamed for its model turns and nothing else, if and only if a model
turn of a lost attempt was settled by a later one.

Bounds: two phases, two attempts, one crash, one database error, two pieces of work.
Scope `crash` has no cancellation, error or shutdown, scope `cancel` no crash and no
work in a phase.

## 6. RuntimeWriter, OrderedWrites (run `writer`)

Models `runtime/writer.py` and its caller at the end, `ServiceContainer.shutdown`. All of
it runs on one event loop, so the code between two awaits is one action. The one await
that matters inside the state lock is the put into a full queue: `lock` says who holds
the lock across it. `workers` is every `_consume` task ever created, `detached` the store
calls whose task was cancelled while their thread runs on, `accepted`, `written` and
`answered` are history.

Clients are cancelled at any await (`CancelClient`); an accepted command stays.
`LoopCloses` is the end of `asyncio.run` in a test client without lifespan, the case `start`
provides for. A queue that has waited on a closed loop refuses to wait on another
(`GetStale`). `TimeLimitExpires` is `wait_for(..., timeout=15)`: it cancels the shutdown
where it is, and a cancelled `await consumer` cancels the consumer.

`OrderedWrites` is what the writer promises: commands are accepted, then written one by one
in that order, each at most once, and only a written command is answered; a command may be
lost only at the head. `KeepsPromise` is the refinement, with `pending` mapped to the
command in the thread (`InHand`) followed by the queue without the sentinel (`Queued`). `OrderlyShutdown`: an
orderly shutdown drains the queue, answers every caller and ends.

Scopes: `faults`, two clients with two commands each, up to three consumer tasks, closing
loops and expiring limits; `orderly`, three clients with one command each at a queue of two.
Fairness: tasks that can run do run and store calls return; the state lock is first-in
first-out, hence strong fairness of those who wait for it.

## 7. RuntimeManager and EventStream (run `service`)

`RuntimeManager`: the table of tasks, the limit on concurrent runs, the API calls that
create, start, resume and cancel, and the shutdown. Everything under the manager's lock is
free of awaits, so each critical section is one step. A coordinator is reduced to the
outcomes the scheduler can see. `ManagerConsistent`: a finished shutdown leaves no task.
`ManagerProgress`: tasks end, a shutdown ends, a resume that made a task gives an attempt,
a created run is started. Fairness: an API call that was begun goes on, a task's steps
are strongly fair (slots are handed out first-in first-out), shutdown's waits return.

`EventStream`: commits and publications happen in worker threads, in any order;
deliveries are callbacks on the loop; a stream is a generator suspended at every yield. A
client's `received` runs over all its connections. `StreamConsistent`: in order, each once,
and a waiting stream is up to date. `NothingIsMissed`: a client that stays connected gets
every event, or its stream ends so that it knows.

Bounds: two runs for one slot, three tasks; queues of one notification, pages of two, four
events, three connections.

## 8. The diagnosis (run `diagnosis`)

`V11Workflow`: Lead, Investigators, Critic, publication and validation over eleven phases.
Each phase computes on `session`, a copy of the committed projection `durable`; the commit
is one step. Tool calls and their evidence are durable at once (`called`); what `V11Runtime`
keeps outside the projection is `memory` and is lost with the process. `V11Consistent`: no
committed candidate cites uncommitted evidence, supplements are linked and affordable, tool
budget and reserve hold. `VerdictIsFair`: what is published is justified, and a run whose
actors did their part is not thrown away. `ToolEvidenceStays`. Scopes: two investigators
side by side, or one with a supplemental round; one resume; four tool calls.

`AgentsRuntime`: the eight phases of the V10 profile and the SDK turns inside three of
them, with deadline, fence, token budget, failing requests and resumes.
`LegacyResultIsHonest`: who answered, what was called, what timed out and which review is
stored and shown agree, also after a resume. `LegacyTurnsClose`, `LegacyLimitsHold`.
Two specialists, one of them always plain except in scope `conflict`, where they disagree;
one resume; a budget of four requests.

`TaskEngine`: `DiagnosisExecutionEngine` on plans of three tasks with any dependencies,
unknown ones and cycles included, in any order of priority, with writes that fail anywhere
(`PlanConsistent`). `ResultIntake`: `_record_v7_coordination_async` on any result with at
most one broken contract and up to two repository calls that raise (`IntakeConsistent`).

## 9. Model and tool calls (run `execution`)

`ModelCalls`: requests reserve tokens in memory and write a started event, and settle with a
second one; one lock covers both across the wait for the write, and a time limit cancels the
coroutine wherever it waits. `TokensConsistent`: a phase that ended without a torn write
has the budget the log gives, the provider never takes more than the run's budget, the
Critic keeps its request. Two investigators and the Critic, two attempts, one correction,
one fault.

`ToolSession`: `AdaptiveToolSession`, the shared admission and the step gate. A query runs
in a thread that outlives the coroutine. Every write passes `check_execution`, whose answer
is `fence`: it raises once the deadline of the run has passed (`late`), its cancellation is
requested (`cancelling`), its lease is lost (`lost`) or the run has ended (`over`). The write that
would close a call is no exception (`coordinator.py:723`): a query that fails after any
of these leaves its row running, and the exception leaves the session (`raised`). What closes
the row then is `commit_terminal` (`RunEnds`) or `audit_expired_leases` (`RoundResumes`); both
go over the rows and need no name of an agent. The store itself looks at the status and the
lease of the run and not at the deadline (`StoreTakes`), so a start that was under way is stored. The check and
the commit of a closing write are one step of the model: a change of the fence between them
leaves what the same change would leave after the commit if the store still takes the write, and
what it would leave before the check if not.

`ToolCallsConsistent`: evidence in a session is durable, a query crosses the boundary once
(and once more after a transport error), the tool budget holds over crashes, and
`NothingLeftOpen`: when the queries have settled and the run holds, no call is running, and none is once
the run is over. Between a deadline, a cancellation or a lost lease and the end of the run or the audit,
calls may be open, and nothing is claimed of them but that it ends. Two
sessions with two and one queries and one fault, or one session with two faults; a deadline,
a cancellation and a lost lease count as faults.

`RoundSettles`: nobody waits for ever, and again and again there is a moment when the queries have
settled and no call is open. Fairness: coroutines that can run do, external calls
return (they have time limits of their own), the coordinator ends a run that is late or to be cancelled
(it meets the same check), and a run that crashed or lost its lease is audited and resumed. A process dies
while the run holds or is being cancelled only: after the deadline the resumed run asks nothing, because
`started_at` is durable.

## 10. The benchmarks (run `offline`)

`PairLedger`: the custodian's ledger of a pair and the commands on it, as processes. A write
takes the SQLite writer lock (`busy_timeout` 0: a busy lock is an error), appends to the
anchor file and commits; the lease of a command may lapse in any of its steps; the evaluator
is a child that may outlive its command; a failure that cannot reach the ledger leaves an
intent file. `LabelsReadOnce`, `LedgerConsistent`, and, with fairness of running processes and of a
custodian who recovers, `LedgerSettles` (`ExpiredConverges`, `CommandsEnd`). Torn commits are excluded here
(`TornCommits = FALSE`) because they break convergence; that is run `ledger_recovery`.
`ScoredIsFrozen` ties the set to the sides in the first epoch only; see section 13.

`BenchmarkBundle`: `run_benchmark_pair` writes the directory of an OpenRCA run file by file;
`evaluate_run` scores it in place; a person copies it, and copies the official report into it.
Any of them may die between two writes. `runner` and `eval` are program counters, `bundle`
and `manifest` the files (a digest is the content it was taken of), `locators` the column of
`runtime_runs`, `settled` history. The gates, `_load_frozen_run` and
`evaluate_persisted_prediction` are predicates over the files. `BundleConsistent`: the
release gate passes exactly the flawless runs that were evaluated to the end (`GateIsExact`),
what the other gates pass and the API shows is a run that reached its end
(`OnlyWholeRuns`), and every locator resolves (`LocatorsResolve`). The official number of 40 cases is `Cases`, two here;
thresholds of scores are left out. Scope `directory`: a deterministic run with at most one
flawed case, and one evaluation at a time; scope `strategies`: the other modes and strategies,
without evaluation. Copies and evaluations begin when the run is over, as in the
repository's README; see section 13.

## 11. RunAdmission (run `store_runs`)

Which runs the service admits, and where they may call a model. A certification command
(`certify_endpoint_async`, `write_capability_artifact`) is a process of its own: it probes
a compatible endpoint, reads the identity of the source tree, and replaces the artifact
through one temporary file that two commands may share: `certifier[c].file` says where the
file that `c` has open is by now. `create_runtime_run` and `run_investigation` read the
artifact, freeze endpoint, transport and artifact into the contract of the run, and place
it on the investigation it names, a new one or a linked copy. `Execute` is the first phase
of an attempt: `clone_for_run` and `_validate_execution_contract` compare the contract with
the process that is up, which may have been restarted with another provider.

`AdmissionConsistent`: the contract of a run on a compatible endpoint is one whole
certification of that endpoint over the transport it will use, from a committed tree; V10
and V11 results never meet in one investigation; nothing made for a V11 run is left
pending. `CertifiedStaysPut`: a certified run calls only its own endpoint and transport.

Abstracted: the identity of the source is read at once; one slot stands for one endpoint and
model; `build` stands for adapter, SDKs, role schemas, environment and parallelism;
investigations and runs are in SQLite and survive a crash; a service without its API key is
not represented. Scope `certify`: two certification commands beside changes of the tree and one
run, with observations that pass over the native transport; scope `serve`: the certified tree
is fixed, two runs, restarts with every provider, one investigation that has V10 results.

## 12. Not modelled

Prompts, model replies, provider I/O, scoring, ranking, report text, redaction patterns, the
HTTP layer and the frontend are data or external services with no protocol of their own. The
deterministic RCA, report and evaluation code computes and keeps no state. Acceptance and
canary services are scripts that drive the system under test. OpenRCA's
preparation, telemetry and scores are data. RCAEval's case execution and
statistics, verification tasks of people, trace references, locators, migrations and replay
runs are left out of their components, which are `partly` modelled for that reason.

What a next step would take up: proofs about BenchmarkBundle and, by induction over the log, about
RuntimeReplay; the verification
decisions of `human_transitions.py`.

Some definitions join or leave out what the code does in more steps:

- `SqlAuditRead` reads what `audit_expired_leases` selects in separate autocommit statements
  (`sqlite_store.py:1161-1187`): a terminal commit between them raises `RuntimeIntegrityError`,
  which ends that audit without a write. The path is left out; a later audit takes its place.
- `EventStream.Commit` publishes every commit. `_repair_contract_integrity`
  (`sqlite_store.py:1808-1820`) writes `run.failed` without a publication, and a failure to publish is
  swallowed (`sqlite_store.py:1663-1667`). `StreamConsistent` and `NothingIsMissed` speak of commits that are
  published; a client that waits learns of another one with the next publication or its next connection.
- `RunAdmission.CreateRuntimeRun` reads the record, its owner and the source tree and creates the run in
  one step; in `container.py:424-461` and `579-606` other requests can come in between.
- `PairLedger.Busy` leaves a command that waits for its child alone. In the code a
  heartbeat (`__main__.py:447`) that meets a busy lock, an intent or a broken seal kills the child and invalidates
  the pair; here the child may fail at any time, which has the same consequence.
- `PairLedger.WriteMarker` leaves out the branch of `freeze_prediction_set` for a marker with another
  content (`runner.py:1031-1050`), which invalidates the pair; `ReadRecords` reads `snapshot()` and
  `side_records()`, two connections, in one step.
- `RuntimeCoordinator` closes the tool row of an agent that ends, which the code does for the
  calls of a V10 agent only (`coordinator.py:938` compares names): `ChildrenEndFirst` is about those. Who
  closes V11 calls is in `ToolSession`.
- `LedgerSettles` is checked without torn commits (`TornCommits = FALSE`); what they do is run
  `ledger_recovery`.

## 13. Disagreements between text and code

The violated runs; `PROJECT.json` quotes the lines.

- `store_cancel_lost`: a `cancelling` run whose owner dies becomes `interrupted`, keeps
  `cancel_requested_at`, and may be resumed and completed.
- `model_budget`: a time limit that falls into the write of a model event leaves a phase with
  another budget than its log; its checkpoint is refused as an integrity error.
- `tool_reuse`: the instance id of an investigator is new after a resume, so durable successes
  of the interrupted round are not found and are charged again.
- `ledger_recovery`: a process that dies, or whose commit fails, between the anchor entry and
  the commit leaves a ledger that every operation refuses, recovery included.
- `legacy_tool_evidence`: a V10 specialist that cites evidence of its own tool call makes
  the synthesis raise, and the whole run fails.

Also seen while modelling; the model behaves like the code in these cases and no property
excludes them:

- Replay answers `illegal_model_transition` for a completed run in which a later attempt
  settled a model turn of a lost one (`coordinator.py:814`), and rejects logs of cancelled
  and timed-out runs. V11 tool events carry an instance id and agent events
  `InvestigatorAgent`, which replay does not match.
- A read that repairs a damaged contract in a run without an open attempt
  (`sqlite_store.py:1767`) writes back the record of the investigation it read before its
  transaction. If a rerun took the investigation over meanwhile, the record names the old run as its
  owner again and holds its progress, and a view frozen later need not show what its run committed.
- `append_recovery_rejection` promises the last interrupted attempt and accepts any.
- A run that meets its deadline while it is `cancelling` stays so until its lease expires.
- The 15-second limit of shutdown may expire while the consumer is awaited: accepted
  commands are then not written.
- A resume that meets the live task of the lost attempt is answered 202 and makes no attempt;
  a shutdown between creation and start leaves a created run.
- A resumed V11 run that did everything right may be failed by the validation, because
  completed rounds are only in memory (`v11_runtime.py:2885`); a dropped draft makes a run
  partial only in the process that saw it.
- A V10 run whose plan had a failed provider task ends PARTIAL if it was resumed and
  COMPLETED if not; the split path replaces the task list of the V4 plan and keeps its
  executions; v9 recollections are bound to tool attempt 1.
- A decision of a person between the report's commit and the last one is overwritten by the
  whole-record save of SQLite; `SqlDecisionStays` speaks of the last commit and later.
- `invalidate_pair` has no fence: a process of an earlier epoch can fail a later one, even
  a completed pair. A freeze that began before a failure and a reauthorization can bind the
  old set. `evaluate --reauthorization-token` burns the token and cannot succeed.
- `evaluate_run` reads the predictions before it looks for the summary: started while the run
  is still writing, it can score a part of the rows, find the summary that appears meanwhile,
  and sum files that are whole. A process that dies in the in-place write of `summary.json`
  leaves a bundle that no later evaluation can repair. The official report is copied in after
  the sums were taken, so no sum covers it unless `evaluate` is run again. The paired gate does
  not look at the sums of the baseline.
- An OPENAI run that is resumed by a service with a compatible or DeepSeek adapter passes
  `_validate_execution_contract`, which compares only the endpoint the contract names, and
  calls the adapter's endpoint; the V11 design (`docs/superpowers/specs/2026-08-02-diagops-v11-adaptive-multi-agent-rca-design.md:571`)
  wants such a run refused. `CertifiedStaysPut` therefore speaks of certified runs.
- The source identity is read after the probes: code changed meanwhile is stamped as
  certified. An older certification that publishes late replaces a newer one, and two commands
  can leave a mixed `result.json`, which is then no artifact.
- A durable V10 run on a service that has a V11 runtime fails when its session is built: its
  legacy contract is "incomplete". A run that was only created before a crash stays created, and
  blocks its investigation, until it is cancelled. A V10 request that fails leaves its new
  investigation pending.

## 14. Proofs

Every theorem holds for every value of the constants that the named assumption of its module
allows. The assumptions say that bounds are natural numbers, that distinguished values (no
run, no worker, the official URL) are not among the others, that the sides of a pair and the
tasks a plan may list are finitely many, that the id of a task ("task-" and a uuid) is not the
name of a role, and that there is at least one phase, slot and place in the queue. Only
`MaxAttempts >= 1` of `CoordinatorAssumption` is more than the code says: a model without an
attempt would only be able to create and cancel.

| module | theorem | states |
| --- | --- | --- |
| RuntimeStoreProofs | `TypeCorrect`, `Ownership`, `ExclusiveWriter`, `TerminalStays` | `TypeOK`, `OwnershipConsistent`, `SingleWriter`, `TerminalIsFinal` |
| | `ProjectionHolds`, `NothingLost`, `LogHolds` | `ProjectionConsistent`, `ProjectionKept`, `LogConsistent` |
| SqliteStoreProofs | `RowsFit`, `OutcomeStays` | `SqlRowsConsistent`, `SqlOutcomeStays` |
| RuntimeWriterProofs | `TypeCorrect`, `SerialWrites`, `SentinelIsLast` | `TypeOK`, `OneWriteAtATime`, `NothingBehindSentinel` |
| | `PromiseHolds` | `KeepsPromise`, the refinement of `OrderedWrites` |
| RuntimeCoordinatorProofs | `OwnerInCharge`, `MovesAsPromised` | `CoordinatorConsistent`; the safety part of `ImplementsLifecycle` |
| | `CompletedRunsAreWhole`, `ChildrenEnd` | `CompletedIsWhole`, `ChildrenEndFirst` |
| ServiceProofs | `StopIsComplete`, `FeedIsComplete` | `ManagerConsistent`, `StreamConsistent` |
| | `AdmissionHolds`, `CertifiedRunsStay` | `AdmissionConsistent`, `CertifiedStaysPut` |
| PairLedgerProofs | `LabelsReadOnceHolds`, `LedgerHolds` | `LabelsReadOnce`, `LedgerConsistent` |
| ExecutionProofs | `ToolCallsHold`, `PlanIsExecuted`, `IntakeIsSound` | `ToolCallsConsistent`, `PlanConsistent`, `IntakeConsistent` |
| DiagnosisProofs | `V11Holds`, `VerdictHolds`, `EvidenceHolds` | `V11Consistent`, `VerdictIsFair`, `ToolEvidenceStays` |
| | `LegacyHonest`, `LegacyCloses`, `LegacyLimited` | `LegacyResultIsHonest`, `LegacyTurnsClose`, `LegacyLimitsHold` |

So of both stores, the coordinator, the writer, the manager, the event stream, the ledger, the tool
calls, the plan, the intake, the admission and both diagnoses everything safe that the runs check
is proved.

**The fence.** `OwnershipConsistent` and `SingleWriter` are not inductive: the first does not
say that a leased run has an attempt, and the second needs to know where claims come from.
`OwnershipInv` adds three facts: claims carry the version of the lease that produced them
and no version above the current one, a version of a run was handed out once, and at most
one run is active. Two admitted claims then belong to active runs, hence to one run, hence
to its one version.

**The projection.** A phase commit is a snapshot of tool calls and evidence, taken at any earlier
time, that is written back as a whole. `CommitsAreFresh` is why that loses nothing: a commit the
store would still accept equals what the store holds now. It needs that a commit carries a
claim that was handed out and no position beyond the run's (`CommitsArePlaced`). That a rerun
leaves its predecessor's view frozen needs that the owner of a projection has a checkpoint
and that an ended owner's view is the projection (`OwnerHasCheckpoint`, `EndedOwnerIsFrozen`).

**The log.** Everything is first said of one log and of the events appended to it; `LogInv` adds
that no event speaks of an attempt to come and that a run that was never started has none.

**The SQLite store.** What a call read before its transaction may be out of date when it writes, and
`CallsFit` says of every kind of unfinished call what is still true of it then. There are two reasons why
that is enough. A worker's call carries its claim, and a claim is either still the last one of its run, and
then nobody else has moved the run on and what was read is what is there (`Live`), or a later lease
has replaced it, and then it is never valid again, because the versions of a lease only grow. Audits,
rejections and repairs have no claim; they carry numbers of events instead, and since the numbers of a log
are 1 to `next_event_sequence` and only grow, a number that is still free is the next one (`FreeIsNext`). The
rest of `SqlInv` ties the rows of a run together (`RunsFit`), allows one run that is not over to own the
investigation (`OneOpen`), and says that the record shows what its owner committed while all contracts are
sound (`ProjectionFits`); `OutcomeStays` follows from the same facts about the record in the hand of a call.

**The writer.** `TypeCorrect` needs that a busy worker holds a command, that a submission has
a number and that shutdown waits for a task that exists. `SerialWrites` is inductive with two
facts: only the current consumer is alive, and a thread outlives its task only after the time
limit, when no task is alive and none is created any more. `SentinelIsLast` is inductive with:
the queue holds no sentinel while the writer accepts or before shutdown has put it; a client
that is putting holds the lock of a writer that accepts; the container that is putting holds
the lock of one that does not. `PromiseInv` joins these with `AcceptedNumbered`: an
accepted command has a number its client has used, so a new one was never accepted before. What the promise calls pending is then well defined: at
most one command is in a thread (`WritingIs`), and taking away the sentinel takes away the last
place only (`Unended`). Every step of the writer is one step of the promise or none: a get moves
the head from the queue into the hand and changes nothing pending, and a cancelled task
that held a command loses the head.

**The coordinator.** `CoordInv` ties the task, the commands in the queue and the store together
across the awaits. `TaskOK`: a task that has the lease is of the last attempt. `PhaseOK`: the
phase it is in is the first without a checkpoint, and once the user has cancelled and the commit
on its way is applied (`Stopping`), it is in none. `EndOK`: it gives up for a cancellation
or a lost lease only if it does not own a running run. `FlagsOK`: the local cancel flag is up only
if it does not either. `CommandOK`: what the queue holds of a task that still waits, of one that
was stopped, and of the API; a phase commit behind a cancellation no longer fits the
checkpoints. `QueueShort`: every step that writes pays from `Slack`. Steps of the store that
commit no phase are `Calm`, and one lemma says what they keep. The refinement follows: a phase
is committed at the checkpoint it names, and a completion is only ever in the queue when all
phases are done.

**The log of the coordinator.** `CompletedIsWhole` and `ChildrenEndFirst` count events. No induction
over the log is needed: a count (`Tally`) grows by at most one with each event that is appended
(`TallyAppend`), and an event in the middle of the log is judged by the events up to it, which do
not change (`EndsFirstAppend`, `EndsFirstKept`). `WholeInv` says what the counts are: each phase
up to `done` has its checkpoint (`PhasesLogged`), the tool calls started and ended differ by the one that
runs (`ToolsLogged`), and while a task works, the agents and model turns it remembers are those the log
leaves open (`SpansOK`). A write that is on its way is ahead of the log, so the invariant says what would
be right after it (`LiveFits`) and what makes it right even if its task has been stopped (`WriteFits`);
there is at most one such write (`QueueFits`), which is why a completion, written after the task has
checked, still finds the log whole. The turns that a lost attempt left open count from
`_reconcile_model_reservations` on (`Settled`).

**The manager.** `StopInv`: after the shutdown has begun nothing is registered any more, a live
task is in the table, and the shutdown has cancelled it; it ends when none is left.

**The stream.** `FeedInv`: deliveries that wait on the loop and events still to be published are
together no more than the commits (`CallsAreCommits`), the cursor of a stream is the number of
events its client got (`LastIsReceived`), and a page lies ahead of the cursor and reaches the end of
the log if it is short, unless something is on its way to wake the stream (`PageIsCurrent`, `Quiet`).

**Admission.** Everything that is kept in a file or in the hand of a command was sealed for its
endpoint (`FilesInv`), a running run was bound by the process that is up (`RunsInv`), and an
unsettled run has its investigation, of its own kind, for itself (`PlacesInv`).

**The labels.** `revealed` never returns to false, the way to a label read leads through the
transaction that sets it, and that transaction wants it false. `LabelInv` says who may be on
that way: what an open transaction may commit (`TxSound`), that at most one process may read
(`OneReader`), and none after the one read (`OneRead`).

**The ledger.** `ScoreInv` says for each state of a row which leases, sides and results it may have
(`LeaseFits`, `PairFits`, `ResultFits`), for each step of a command what it holds and has read (`CommandFits`), and
for an open transaction what it would write (`CommitFits`). The heart of it: a side that is
started holds the lease of its row, so a pair that is frozen has no prediction under way; and
a set whose labels are open is never bound anew.

**Tool calls.** `ToolInv` says of each invocation where it stands with its call (`AskStands`), that a
session asks no query twice (`AskedOnce`), that the calls of this process belong to its
invocations (`RowsAsked`), and that a call that runs in the store is the one its invocation works
on, which has settled only if the run no longer holds (`OpenRows`); after the end of the run no call is open
and no write is taken any more (`OverIsClosed`). The budget is over `Paid`, the calls that were started or admitted, and not over
the rows: a wait for admission that is cancelled writes a call that was never admitted.

**The plan.** `EngineDecides`: who ran had its dependencies when it ran, and who was skipped can
never get them (`NotReady`). The end of a pass is the argument of interest: the tasks a pass
without progress leaves all wait for one that is pending, so each of them is in a cycle or
behind one, and skipping them all is right.

**The intake.** `IntakeInv`: what is at hand is the result as it was received or one that the
orchestrator made (`AtHand`), only a valid one is kept (`Kept`), and before the first write nothing is stored,
after the last everything (`NothingWritten`, `ResultWritten`).

**The V11 diagnosis.** The copy a phase works on and the committed projection satisfy the same
formula, `Stage(p, d, n)`: what a projection `p` holds after `d` phases with `n` calls of first
tasks. A phase takes its copy from stage `d` to stage `d + 1`, and the commit makes it durable.
`V11Inv` adds what the lost memory knew: in a run that was never resumed it agrees with the
projection (`Remembers`), which is why validation can only refuse such a run when an actor failed. That
resumed runs decide without it is what the verdict has to survive, and the stage says why: everything a
conclusion rests on is in the projection. `BudgetFits` is about calls: while a phase works, the
calls made are those of its copy and those it has admitted, hence capacity is what is left; calls of
a task are numbered one by one, so the first round makes at most
`RoundToolLimit(1)` per task, of which there are at most `MaxInvestigators`, and the reserve of the
supplemental round is untouched.

**The V10 diagnosis.** Here too one formula, `Reached(s, n)`, holds of the committed result and of the
copy in the memory of an attempt. Up to the synthesis no review of the specialists is published or stored, so
none has to be taken back; and each specialist has a finding or a failure on record (`Accounted`), so a
synthesis without failures has everyone's finding behind it. A timeout on record stays there, because executions
are only added or replaced by the one failure of a rejected synthesis, which publishes nothing. The review in memory is the stored one
(`ShowsStored`), also when the phase that stored it is run again by a later attempt, hence the report can show nothing
else. Between turns, what is still open was left by a turn whose deadline passed or whose fence was lost
(`TurnFits`, `BetweenTurnsFits`), and such a turn publishes nothing. `TokensFit` bounds the token budget by what
is spent in the durable events and what the runtime still has in hand, so an attempt that begins with what the events tell
cannot have tokens that an earlier one used.

Five of these proofs changed a model. The one about SqliteStore found a property that does not hold
(`SqlEndedIsFrozen`, section 4), and its calls now carry the worker's claim as a whole (`by`). A ledger command that reads in a step of
its own has no open write transaction (`Reads`). The answers to a refused command
in `RuntimeCoordinator` are looked at in the order of the code (`Refused`), which a CASE with
overlapping guards does not say. `Pending` of `RuntimeWriter` is written as two parts, and
`WorkflowAssumption` says of the ids of tasks what `_new_task_id` guarantees.

Model-checked only: liveness (`OrderlyShutdown`, `ManagerProgress`, `NothingIsMissed`,
`RoundSettles`, `LedgerSettles`, the second half of `ImplementsLifecycle`),
which is out of the prover's reach; properties of folds over a log (`AuditIsExact`, and
`TokensConsistent`, where the budget is a fold over the events), where each proof would be an induction
over the log; and, as no proof has been attempted, `BundleConsistent` of BenchmarkBundle.

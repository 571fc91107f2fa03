------------------------- MODULE RuntimeCoordinator -------------------------
(***************************************************************************)
(* One run in one process: RuntimeCoordinator.execute and resume as a task *)
(* of the manager, the writer's queue between it and the store, the        *)
(* heartbeat, the user's cancellation, the lease audit of the container,   *)
(* the deadline, crashes and restarts.                                     *)
(*                                                                         *)
(* The coordinator runs on an event loop: what it does between two awaits  *)
(* is one step.  Every durable write is an await: the command is put into  *)
(* the writer's queue in one step and applied to the store in a later one, *)
(* and anything may happen in between.  The store is reduced to what this  *)
(* control needs (RuntimeStore is its full model).  Attempt n is also the  *)
(* lease owner and the lease version of the n-th ownership period.         *)
(***************************************************************************)
EXTENDS Naturals, Sequences, FiniteSets

CONSTANTS
    NPhases,      \* number of phases of the execution profile
    MaxAttempts,  \* bound of the model: ownership periods
    MaxCrashes,   \* bound of the model: crashes of the process
    MaxFaults,    \* bound of the model: persistence errors of the database
    MaxWork,      \* bound of the model: agents, model turns and tools started
    Cancels,      \* whether the user cancels
    Shutdowns     \* whether the manager cancels the task at shutdown

ASSUME CoordinatorAssumption ==
    /\ NPhases \in Nat \ {0}
    /\ MaxAttempts \in Nat \ {0} /\ MaxCrashes \in Nat /\ MaxFaults \in Nat /\ MaxWork \in Nat
    /\ Cancels \in BOOLEAN /\ Shutdowns \in BOOLEAN

VARIABLES
    status,      \* RuntimeRun.status
    category,    \* RuntimeRun.failure_category
    asked,       \* RuntimeRun.cancel_requested_at is set
    lease,       \* attempt that holds the lease, 0: none
    fresh,       \* lease_expires_at lies in the future
    attempts,    \* status of attempt 1, 2, ...
    done,        \* phases with a checkpoint
    invFailed,   \* the investigation's status is failed
    toolRow,     \* status of the tool call row of each phase
    log,         \* the durable event log
    late,        \* started_at + timeout_seconds has passed
    up,          \* the process runs
    queue,       \* commands in the writer, head first
    locked,      \* request_cancel holds _state_lock while it awaits the writer
    worker,      \* the task of the manager, see Worker
    heart,       \* the renew loop of the registered attempt runs
    cancelFlag,  \* _local_cancel of the registered attempt is set
    atCancel,    \* history: value of done when the user cancelled
    crashes, faults, work   \* counters of the bounds

storeVars == <<status, category, asked, lease, fresh, attempts, done, invFailed,
               toolRow, log>>
localVars == <<worker, heart, cancelFlag, locked>>
counters  == <<crashes, faults, work>>
vars == <<storeVars, late, up, queue, localVars, atCancel, counters>>

-----------------------------------------------------------------------------
(* Vocabulary *)

Terminal == {"completed", "failed", "cancelled"}
Leased   == {"running", "cancelling"}
Status   == Leased \cup Terminal \cup {"created", "interrupted"}
Category == {"none", "timeout", "model", "persistence", "unknown", "cancelled"}
Phases   == 1..NPhases

\* Why the body of _execute_owned ended: its except clauses.
Reason == {"none", "cancel", "deadline", "stopped", "leaseLost", "persistence",
           "error", "failed"}

\* pc: idle: no task. starting, resuming: the task waits for a slot. checked:
\* resume() validated the run. owned: the lease is taken, _state_lock is not.
\* Then where the body of _execute_owned is, or sent: it awaits the writer.
PC == {"idle", "starting", "resuming", "checked", "owned", "emit", "reconcile",
       "loop", "started", "executing", "executed", "merge", "committed",
       "complete", "except", "afterCancel", "exit", "sent"}

\* Events that an attempt begins with.
StartTypes == {"run.started", "attempt.started", "recovery.started", "recovery.completed"}

\* next: where the body continues when the awaited command was applied.
\* agent, model: an agent or model span that this attempt has opened.
Worker == [pc: PC, next: PC, me: 0..MaxAttempts, recovery: BOOLEAN,
           phase: 0..NPhases, todo: Seq(StartTypes), why: Reason,
           agent: BOOLEAN, model: BOOLEAN, failedPhase: BOOLEAN]

NoTask == [pc |-> "idle", next |-> "idle", me |-> 0, recovery |-> FALSE, phase |-> 0,
           todo |-> <<>>, why |-> "none", agent |-> FALSE, model |-> FALSE,
           failedPhase |-> FALSE]

Event(type, n, p) == [type |-> type, attempt |-> n, phase |-> p]
Events(types, n, p) == [i \in DOMAIN types |-> Event(types[i], n, p)]

\* A command of the writer. from: who awaits it (none: its submitter is gone).
Command(op, n, p, types, target, base) ==
    [op |-> op, attempt |-> n, phase |-> p, types |-> types, target |-> target,
     base |-> base, category |-> "none", from |-> "worker"]
EventCommand(n, p, type) == Command("event", n, p, <<type>>, "none", 0)

-----------------------------------------------------------------------------
(* The store, as far as the coordinator drives it *)

Fenced(n) ==
    /\ status \in Leased
    /\ lease = n
    /\ fresh
    /\ n \in DOMAIN attempts
    /\ attempts[n] = "running"

\* A completion and a failure expect running, a cancellation cancelling.
Expected(target) == IF target = "cancelled" THEN "cancelling" ELSE "running"

\* Mutant: the fence is not compared.
AcceptsUnfenced(c) ==
    /\ c.op = "phase" => c.base = done
    /\ c.op = "terminal" => c.attempt \in DOMAIN attempts

Accepts(c) ==
    /\ Fenced(c.attempt)
    /\ c.op = "phase" => c.base = done
    /\ c.op = "terminal" => status = Expected(c.target)

\* Tool calls in flight are interrupted when their run stops.
StopTools == [p \in Phases |-> IF toolRow[p] = "running" THEN "interrupted" ELSE toolRow[p]]

ToolEvents == {"tool.started", "tool.completed", "tool.failed"}

ApplyEvent(c) ==
    /\ toolRow' = CASE c.types[1] = "tool.started"   -> [toolRow EXCEPT ![c.phase] = "running"]
                    [] c.types[1] = "tool.completed" -> [toolRow EXCEPT ![c.phase] = "success"]
                    [] c.types[1] = "tool.failed"    -> [toolRow EXCEPT ![c.phase] = "interrupted"]
                    [] OTHER                         -> toolRow
    /\ UNCHANGED <<status, category, asked, lease, fresh, attempts, done, invFailed>>

ApplyPhase(c) ==
    /\ done' = done + 1
    /\ invFailed' = (c.target = "failed")
    /\ UNCHANGED <<status, category, asked, lease, fresh, attempts, toolRow>>

ApplyTerminal(c) ==
    /\ status' = c.target
    /\ category' = c.category
    /\ attempts' = [attempts EXCEPT ![c.attempt] = c.target]
    /\ lease' = 0
    /\ fresh' = FALSE
    /\ toolRow' = StopTools
    /\ UNCHANGED <<asked, done, invFailed>>

Apply(c) ==
    /\ log' = log \o Events(c.types, c.attempt, c.phase)
    /\ CASE c.op = "event"    -> ApplyEvent(c)
         [] c.op = "phase"    -> ApplyPhase(c)
         [] c.op = "terminal" -> ApplyTerminal(c)

-----------------------------------------------------------------------------
(* Steps of the task *)

Goto(pc)    == [worker EXCEPT !.pc = pc]
Raise(why)  == [worker EXCEPT !.pc = "except", !.next = "idle", !.why = why]
Put(c)      == queue' = Append(queue, c)
Send(c, pc) == Put(c) /\ worker' = [worker EXCEPT !.pc = "sent", !.next = pc]

NoSend    == UNCHANGED queue
StoreKept == UNCHANGED <<storeVars, late, up, atCancel, counters>>
OnlyTask  == StoreKept /\ UNCHANGED <<heart, cancelFlag, locked>>

\* Mutant: the run as it was acquired is looked at, not the stored one.
CancelForgotten == FALSE

\* _cancel_if_requested
CancelSeen == status = "cancelling" \/ cancelFlag

\* check_execution: the deadline is looked at first, then the lease, then the
\* cancellation.
CheckExecution ==
    IF late THEN "deadline"
    ELSE IF ~(status \in Leased /\ lease = worker.me /\ fresh) THEN "leaseLost"
    ELSE IF CancelSeen THEN "cancel"
    ELSE "none"

\* RuntimeManager.start and resume: a task that is alive is returned as it is.
ManagerStart ==
    /\ up /\ worker.pc = "idle" /\ status = "created"
    /\ worker' = [NoTask EXCEPT !.pc = "starting"]
    /\ NoSend /\ OnlyTask

ManagerResume ==
    /\ up /\ worker.pc = "idle" /\ status = "interrupted"
    /\ Len(attempts) < MaxAttempts
    /\ worker' = [NoTask EXCEPT !.pc = "resuming", !.recovery = TRUE]
    /\ NoSend /\ OnlyTask

\* resume() reads the run and validates its checkpoint.
ResumeChecks ==
    /\ worker.pc = "resuming"
    /\ worker' = IF status = "interrupted" THEN Goto("checked") ELSE NoTask
    /\ NoSend /\ OnlyTask

\* acquire_lease_and_create_attempt, a compare-and-set on the status.
Acquire ==
    /\ worker.pc \in {"starting", "checked"}
    /\ IF status = (IF worker.recovery THEN "interrupted" ELSE "created")
       THEN /\ status' = "running"
            /\ attempts' = Append(attempts, "running")
            /\ lease' = Len(attempts) + 1
            /\ fresh' = TRUE
            /\ worker' = [worker EXCEPT !.pc = "owned", !.me = Len(attempts) + 1]
       ELSE worker' = NoTask /\ UNCHANGED <<status, attempts, lease, fresh>>
    /\ UNCHANGED <<category, asked, done, invFailed, toolRow, log, late, up, queue,
                   heart, cancelFlag, locked, atCancel, counters>>

StartEvents(recovery) ==
    <<"run.started", "attempt.started">> \o
    (IF recovery THEN <<"recovery.started", "recovery.completed">> ELSE <<>>)

\* The task registers itself, starts the heartbeat and checks the fence.
Register ==
    /\ worker.pc = "owned" /\ ~locked
    /\ heart' = TRUE
    /\ cancelFlag' = FALSE
    /\ worker' = IF CheckExecution = "none"
                 THEN [worker EXCEPT !.pc = "emit", !.todo = StartEvents(worker.recovery)]
                 ELSE Raise(CheckExecution)
    /\ UNCHANGED locked /\ NoSend /\ StoreKept

\* _emit_start, _emit_recovery_events
Emit ==
    /\ worker.pc = "emit"
    /\ IF worker.todo = <<>>
       THEN /\ worker' = [worker EXCEPT !.pc = IF worker.recovery THEN "reconcile" ELSE "loop",
                                        !.phase = done]
            /\ NoSend
       ELSE /\ Put(EventCommand(worker.me, 0, Head(worker.todo)))
            /\ worker' = [worker EXCEPT !.pc = "sent", !.next = "emit", !.todo = Tail(@)]
    /\ OnlyTask

Count(type) == Cardinality({i \in DOMAIN log : log[i].type = type})

\* Model turns with a reservation and no outcome in the log.
Reserved == Count("model.started") > Count("model.completed") + Count("model.failed")

\* _reconcile_model_reservations: the reservation of a turn that was cut off by a
\* crash is closed with a model.failed event of the new attempt.
Reconcile ==
    /\ worker.pc = "reconcile"
    /\ IF ~Reserved THEN worker' = Goto("loop") /\ NoSend
       ELSE IF CheckExecution # "none" THEN worker' = Raise(CheckExecution) /\ NoSend
       ELSE Send(EventCommand(worker.me, done, "model.failed"), "reconcile")
    /\ OnlyTask

\* The top of the phase loop.
BeginPhase ==
    /\ worker.pc = "loop"
    /\ IF worker.phase = NPhases
       THEN worker' = (IF invFailed THEN Raise("failed") ELSE Goto("complete")) /\ NoSend
       ELSE IF CancelSeen
       THEN worker' = [Raise("cancel") EXCEPT !.phase = @ + 1] /\ NoSend
       ELSE /\ Put(EventCommand(worker.me, worker.phase + 1, "phase.started"))
            /\ worker' = [worker EXCEPT !.pc = "sent", !.next = "started", !.phase = @ + 1]
    /\ OnlyTask

\* The check after phase.started, and the one after execute_phase.
Checked(from, to) ==
    /\ worker.pc = from
    /\ worker' = IF CheckExecution = "none" THEN Goto(to) ELSE Raise(CheckExecution)
    /\ NoSend /\ OnlyTask

(* execute_phase, as far as its callbacks reach the store.  An agent closes
   its model turn before it ends; the phase may end with an agent open.     *)

Working(event) ==
    /\ worker.pc = "executing"
    /\ Put(EventCommand(worker.me, worker.phase, event))
    /\ UNCHANGED <<storeVars, late, up, atCancel, heart, cancelFlag, locked>>

StartWork == work < MaxWork /\ work' = work + 1 /\ UNCHANGED <<crashes, faults>>

AgentStarts ==
    /\ ~worker.agent
    /\ worker' = [worker EXCEPT !.pc = "sent", !.next = "executing", !.agent = TRUE]
    /\ Working("agent.started") /\ StartWork

ModelStarts ==
    /\ worker.agent /\ ~worker.model
    /\ Fenced(worker.me)                    \* reserve_model_turn
    /\ worker' = [worker EXCEPT !.pc = "sent", !.next = "executing", !.model = TRUE]
    /\ Working("model.started") /\ StartWork

ModelEnds ==
    /\ worker.model
    /\ \E outcome \in {"model.completed", "model.failed"} : Working(outcome)
    /\ worker' = [worker EXCEPT !.pc = "sent", !.next = "executing", !.model = FALSE]
    /\ UNCHANGED counters

\* _persist_tool_start; a call that already succeeded is not made again.
ToolStarts ==
    /\ worker.pc = "executing" /\ worker.agent /\ ~worker.model
    /\ toolRow[worker.phase] \notin {"running", "success"}
    /\ CheckExecution = "none"
    /\ worker' = [worker EXCEPT !.pc = "sent", !.next = "executing"]
    /\ Working("tool.started") /\ StartWork

\* _persist_tool_result
ToolEnds ==
    /\ worker.pc = "executing"
    /\ toolRow[worker.phase] = "running"
    /\ CheckExecution = "none"
    /\ worker' = [worker EXCEPT !.pc = "sent", !.next = "executing"]
    /\ Working("tool.completed")
    /\ UNCHANGED counters

\* Mutant: an agent ends over a running tool call.
AgentEndsOverTool ==
    /\ worker.pc = "executing" /\ worker.agent /\ ~worker.model
    /\ worker' = [worker EXCEPT !.pc = "sent", !.next = "executing", !.agent = FALSE]
    /\ Working("agent.completed")
    /\ UNCHANGED counters

\* _persist_agent_event first closes the tool calls the agent left running.
AgentEnds ==
    /\ worker.pc = "executing" /\ worker.agent /\ ~worker.model
    /\ IF toolRow[worker.phase] = "running"
       THEN /\ CheckExecution = "none"
            /\ worker' = [worker EXCEPT !.pc = "sent", !.next = "executing"]
            /\ Working("tool.failed")
       ELSE /\ worker' = [worker EXCEPT !.pc = "sent", !.next = "executing", !.agent = FALSE]
            /\ Working("agent.completed")
    /\ UNCHANGED counters

\* Mutant: the phase after a failed one reports success.
PhaseReturnsAfresh ==
    /\ worker.pc = "executing" /\ ~worker.model
    /\ \E failed \in BOOLEAN :
         worker' = [worker EXCEPT !.pc = "executed", !.failedPhase = failed]
    /\ NoSend /\ OnlyTask

\* The phase works on the stored record: once that is failed, so is the phase.
PhaseReturns ==
    /\ worker.pc = "executing" /\ ~worker.model
    /\ \E failed \in {TRUE, invFailed} :
         worker' = [worker EXCEPT !.pc = "executed", !.failedPhase = failed]
    /\ NoSend /\ OnlyTask

\* A callback raises what check_execution finds, or the phase raises by itself.
PhaseRaises ==
    /\ worker.pc = "executing"
    /\ worker' = Raise(IF CheckExecution # "none" THEN CheckExecution ELSE "error")
    /\ NoSend /\ OnlyTask

\* _close_open_phase_agents, then the PhaseCommit with the checkpoint it expects.
Merge ==
    /\ worker.pc = "merge"
    /\ IF worker.agent
       THEN IF toolRow[worker.phase] = "running"
            THEN IF CheckExecution # "none"
                 THEN worker' = Raise(CheckExecution) /\ NoSend
                 ELSE Send(EventCommand(worker.me, worker.phase, "tool.failed"), "merge")
            ELSE /\ Put(EventCommand(worker.me, worker.phase, "agent.failed"))
                 /\ worker' = [worker EXCEPT !.pc = "sent", !.next = "merge", !.agent = FALSE]
       ELSE Send(Command("phase", worker.me, worker.phase,
                     <<IF worker.failedPhase THEN "phase.failed" ELSE "phase.completed",
                       "checkpoint.created">>,
                     IF worker.failedPhase THEN "failed" ELSE "none", done), "committed")
    /\ OnlyTask

\* A failed investigation ends the run at once.
AfterCommit ==
    /\ worker.pc = "committed"
    /\ worker' = IF invFailed THEN Raise("failed") ELSE Goto("loop")
    /\ NoSend /\ OnlyTask

Terminate(target, cat, types, pc) ==
    Send([Command("terminal", worker.me, IF Len(types) = 2 THEN worker.phase ELSE 0,
                  types, target, 0) EXCEPT !.category = cat], pc)

\* _complete
Complete ==
    /\ worker.pc = "complete"
    /\ IF CancelSeen THEN worker' = Raise("cancel") /\ NoSend
       ELSE Terminate("completed", "none", <<"attempt.completed", "run.completed">>, "exit")
    /\ OnlyTask

\* _fail_if_owned.  A failure inside a phase whose commit did not record it
\* writes phase.failed as well; after the loop there is no active phase.
InPhase == worker.why # "failed" /\ worker.phase > done
Fail(cat) ==
    IF status = "running"
    THEN Terminate("failed", cat,
             (IF InPhase THEN <<"phase.failed">> ELSE <<>>) \o <<"run.failed">>, "exit")
    ELSE worker' = Goto("exit") /\ NoSend

FailCategory ==
    CASE worker.why = "deadline"    -> "timeout"
      [] worker.why = "persistence" -> "persistence"
      [] worker.why = "failed"      -> "model"
      [] OTHER                      -> "unknown"

\* The except clauses of _execute_owned.
Handle ==
    /\ worker.pc = "except"
    /\ CASE worker.why \in {"cancel", "stopped", "deadline"} /\ status = "cancelling" ->
              Terminate("cancelled", "cancelled", <<"run.cancelled">>, "afterCancel")
         [] worker.why \in {"deadline", "persistence", "error", "failed"}
            /\ status = "running" -> Fail(FailCategory)
         [] OTHER -> worker' = Goto("exit") /\ NoSend
    /\ OnlyTask

\* After the cancellation of a run that is past its deadline, _fail_if_owned.
AfterCancel ==
    /\ worker.pc = "afterCancel"
    /\ IF worker.why = "deadline" THEN Fail("timeout") ELSE worker' = Goto("exit") /\ NoSend
    /\ OnlyTask

\* The finally clause: the heartbeat stops and the task is forgotten.  It waits
\* for _state_lock.
Exit ==
    /\ worker.pc = "exit" /\ ~locked
    /\ worker' = NoTask
    /\ heart' = FALSE
    /\ cancelFlag' = FALSE
    /\ UNCHANGED locked /\ NoSend /\ StoreKept

-----------------------------------------------------------------------------
(* The writer applies the commands in order *)

\* Where an awaited command that the store refused leaves the task: handlers
\* suppress the refusal, a completion that lost against a cancellation is one,
\* a lost lease ends the task, any other conflict is an error.
Refused(c) ==
    IF worker.next \in {"exit", "afterCancel"} /\ worker.why # "none" THEN Goto(worker.next)
    ELSE IF c.target = "completed" /\ status = "cancelling" THEN Raise("cancel")
    ELSE IF ~Fenced(c.attempt) THEN Raise("leaseLost")
    ELSE Raise("error")

Answer(c, w) ==
    CASE c.from = "worker" -> worker' = w /\ UNCHANGED locked
      [] c.from = "api"    -> locked' = FALSE /\ UNCHANGED worker
      [] OTHER             -> UNCHANGED <<worker, locked>>

WriterApplies ==
    /\ up /\ queue # <<>>
    /\ queue' = Tail(queue)
    /\ LET c == Head(queue) IN
         IF Accepts(c) THEN Apply(c) /\ Answer(c, Goto(worker.next))
                       ELSE UNCHANGED storeVars /\ Answer(c, Refused(c))
    /\ UNCHANGED <<late, up, heart, cancelFlag, atCancel, counters>>

\* The database fails: the submitter gets a RuntimePersistenceError, which a
\* handler lets through and request_cancel too.
WriterFails ==
    /\ up /\ queue # <<>> /\ faults < MaxFaults
    /\ faults' = faults + 1
    /\ queue' = Tail(queue)
    /\ Answer(Head(queue), IF worker.why # "none" THEN Goto("exit") ELSE Raise("persistence"))
    /\ UNCHANGED <<storeVars, late, up, heart, cancelFlag, atCancel, crashes, work>>

-----------------------------------------------------------------------------
(* The user, the clock, the audit, the manager's shutdown, crashes *)

Registered == worker.pc \notin {"idle", "starting", "resuming", "checked", "owned"}

\* request_cancel under _state_lock.  Only the first request for a run whose
\* worker is registered here writes an event.
RequestCancel ==
    /\ Cancels /\ up /\ ~locked
    /\ status \in {"created", "running", "cancelling"}
    /\ status' = IF status = "created" THEN "cancelled" ELSE "cancelling"
    /\ category' = IF status = "created" THEN "cancelled" ELSE category
    /\ asked' = TRUE
    /\ atCancel' = IF status = "running" THEN done ELSE atCancel
    /\ cancelFlag' = Registered
    /\ IF ~asked /\ status = "running" /\ Registered
       THEN /\ Put([EventCommand(lease, 0, "run.cancel_requested") EXCEPT !.from = "api"])
            /\ locked' = TRUE
       ELSE UNCHANGED <<queue, locked>>
    /\ UNCHANGED <<lease, fresh, attempts, done, invFailed, toolRow, log, late, up,
                   worker, heart, counters>>

\* The renew loop finds the lease gone and sets the event it shares with the
\* cancellation.  (A renewal that succeeds changes nothing here.)
HeartbeatStops ==
    /\ up /\ heart
    /\ ~(status \in Leased /\ lease = worker.me /\ fresh)
    /\ heart' = FALSE
    /\ cancelFlag' = TRUE
    /\ UNCHANGED <<storeVars, late, up, queue, worker, locked, atCancel, counters>>

\* Nobody renewed the lease in time.
LeaseExpires ==
    /\ fresh
    /\ fresh' = FALSE
    /\ UNCHANGED <<status, category, asked, lease, attempts, done, invFailed, toolRow,
                   log, late, up, queue, localVars, atCancel, counters>>

DeadlinePasses ==
    /\ ~late /\ attempts # <<>>
    /\ late' = TRUE
    /\ UNCHANGED <<storeVars, up, queue, localVars, atCancel, counters>>

\* audit_expired_leases, at startup and then every heartbeat interval.
Audit ==
    /\ up /\ status \in Leased /\ ~fresh
    /\ status' = "interrupted"
    /\ attempts' = [attempts EXCEPT ![lease] = "interrupted"]
    /\ lease' = 0
    /\ toolRow' = StopTools
    /\ log' = log \o Events(<<"run.interrupted", "attempt.interrupted">>, lease, 0)
    /\ UNCHANGED <<category, asked, fresh, done, invFailed, late, up, queue, localVars,
                   atCancel, counters>>

\* RuntimeManager.shutdown cancels the task: the await it is in raises
\* CancelledError, its command stays in the queue.
Orphaned == [i \in DOMAIN queue |->
    IF queue[i].from = "worker" THEN [queue[i] EXCEPT !.from = "none"] ELSE queue[i]]

StopTask ==
    /\ Shutdowns /\ up /\ worker.pc \in {"sent", "executing"}
    /\ worker' = IF worker.why # "none" THEN [Goto("exit") EXCEPT !.why = "stopped"]
                                      ELSE Raise("stopped")
    /\ queue' = Orphaned
    /\ OnlyTask

Crash ==
    /\ up /\ crashes < MaxCrashes
    /\ crashes' = crashes + 1
    /\ up' = FALSE
    /\ queue' = <<>>
    /\ worker' = NoTask
    /\ heart' = FALSE /\ cancelFlag' = FALSE /\ locked' = FALSE
    /\ UNCHANGED <<storeVars, late, atCancel, faults, work>>

Restart ==
    /\ ~up /\ up' = TRUE
    /\ UNCHANGED <<storeVars, late, queue, localVars, atCancel, counters>>

-----------------------------------------------------------------------------
Init ==
    /\ status = "created" /\ category = "none" /\ asked = FALSE
    /\ lease = 0 /\ fresh = FALSE /\ attempts = <<>>
    /\ done = 0 /\ invFailed = FALSE
    /\ toolRow = [p \in Phases |-> "none"]
    /\ log = <<>>
    /\ late = FALSE /\ up = TRUE /\ queue = <<>>
    /\ locked = FALSE /\ worker = NoTask /\ heart = FALSE /\ cancelFlag = FALSE
    /\ atCancel = 0 /\ crashes = 0 /\ faults = 0 /\ work = 0

Body ==
    \/ ResumeChecks \/ Acquire \/ Register \/ Emit \/ Reconcile \/ BeginPhase
    \/ Checked("started", "executing") \/ PhaseReturns \/ PhaseRaises
    \/ Checked("executed", "merge") \/ Merge \/ AfterCommit \/ Complete
    \/ Handle \/ AfterCancel \/ Exit

PhaseWork == AgentStarts \/ ModelStarts \/ ModelEnds \/ ToolStarts \/ ToolEnds \/ AgentEnds

Next ==
    \/ ManagerStart \/ ManagerResume \/ Body \/ PhaseWork
    \/ WriterApplies \/ WriterFails
    \/ RequestCancel \/ HeartbeatStops \/ LeaseExpires \/ DeadlinePasses \/ Audit
    \/ StopTask \/ Crash \/ Restart

\* The event loop runs what can run, the writer's consumer never stops, the audit
\* loop never stops, and the lease of a run nobody works on is not renewed.  A
\* phase returns: its calls are bounded by the run's deadline.  Nothing obliges
\* the user to resume.
Fairness ==
    /\ WF_vars(Body)
    /\ WF_vars(WriterApplies)
    /\ WF_vars(Audit)
    /\ WF_vars(Restart)
    /\ WF_vars(LeaseExpires /\ ~heart)

Spec == Init /\ [][Next]_vars /\ Fairness

-----------------------------------------------------------------------------
(* Properties *)

\* Every variable stays in its domain.
TypeOK ==
    /\ status \in Status /\ category \in Category
    /\ lease \in 0..MaxAttempts
    /\ attempts \in Seq({"running", "interrupted"} \cup Terminal)
    /\ done \in 0..NPhases
    /\ toolRow \in [Phases -> {"none", "running", "success", "interrupted"}]
    /\ worker \in Worker
    /\ {asked, fresh, invFailed, late, up, locked, heart, cancelFlag} \subseteq BOOLEAN
    /\ Len(queue) <= 3 * MaxAttempts

\* What the API promises of a run (RunLifecycle): only legal transitions, one
\* checkpoint at a time, and no run stays running or cancelling for ever, whatever
\* crashes, expires, fails or is cancelled on the way.
Lifecycle == INSTANCE RunLifecycle WITH runStatus <- status
ImplementsLifecycle == Lifecycle!Spec

Occurs(type, p) == Cardinality({i \in DOMAIN log : log[i].type = type /\ log[i].phase = p})

\* A completed run executed every phase: over all its attempts each phase has
\* one completion and one checkpoint in the log, no model turn lacks its outcome
\* and no tool call is open (_execute_owned, _reconcile_model_reservations).
CompletedIsWhole ==
    status = "completed" =>
        /\ \A p \in Phases : Occurs("phase.completed", p) = 1 /\ Occurs("checkpoint.created", p) = 1
        /\ ~invFailed
        /\ ~Reserved
        /\ \A p \in Phases : toolRow[p] # "running"

\* After the user's cancellation at most the commit that is already on its way
\* is applied; no second phase is run to its end (check_execution,
\* _cancel_if_requested).
CancelStopsTheRun == status = "cancelling" => done <= atCancel + 1

\* The coordinator gives a run up only when it is settled: a worker that leaves
\* while it still owns a running run was cancelled itself or met a database error
\* (the except clauses of _execute_owned).
LeavesNothingRunning ==
    worker.pc = "exit" /\ Fenced(worker.me) /\ status = "running" =>
        faults > 0 \/ worker.why = "stopped"

\* An agent is never reported finished while one of its tool calls is running
\* (_close_running_agent_tools), nor is a phase while an agent is open
\* (_close_open_phase_agents): counted over the log of one attempt.
ChildrenEndFirst ==
    \A i \in DOMAIN log :
      LET n == log[i].attempt
          Upto(types) == Cardinality({j \in 1..i : log[j].attempt = n /\ log[j].type \in types})
      IN  /\ log[i].type \in {"agent.completed", "agent.failed"} =>
               Upto({"tool.started"}) = Upto({"tool.completed", "tool.failed"})
          /\ log[i].type = "checkpoint.created" =>
               Upto({"agent.started"}) = Upto({"agent.completed", "agent.failed"})

\* The owner of a run stays in charge of it: it obeys the cancellation and leaves
\* nothing running behind (check_execution, _execute_owned).
CoordinatorConsistent == TypeOK /\ CancelStopsTheRun /\ LeavesNothingRunning
=============================================================================

---------------------------- MODULE RuntimeManager ----------------------------
(***************************************************************************)
(* The scheduler of the process: the manager's table of tasks, the limit   *)
(* on concurrent runs, the API calls that create, start, resume and cancel *)
(* runs, and the manager's shutdown.                                       *)
(*                                                                         *)
(* Everything under the manager's lock is free of awaits, so each critical *)
(* section is one step.  What a coordinator does with its run is reduced   *)
(* to the outcomes the scheduler can see; RuntimeCoordinator has the rest. *)
(***************************************************************************)
EXTENDS Naturals, Sequences, FiniteSets

CONSTANTS
    Runs,          \* runtime runs
    Limit,         \* max_concurrent_runs
    MaxTasks,      \* bound of the model: tasks created
    MaxAttempts,   \* bound of the model: ownership periods of a run
    MayStop        \* whether the process is shut down

ASSUME ManagerAssumption ==
    /\ Limit \in Nat \ {0} /\ MaxTasks \in Nat /\ MaxAttempts \in Nat /\ MayStop \in BOOLEAN

VARIABLES
    status,     \* RuntimeRun.status, by run
    attempts,   \* number of attempts of the run; the last one may hold the lease
    tasks,      \* every task ever created
    table,      \* _tasks: the task registered for the run, 0: none
    accepting,  \* _accepting
    call,       \* the API call under way for the run
    promised,   \* a resume that made a task promised this attempt
    stopping    \* shutdown(): off, wait, gather or done

managerVars == <<status, attempts, tasks, table, accepting, call, promised, stopping>>

Leased == {"running", "cancelling"}
Status == Leased \cup {"none", "created", "interrupted", "terminal"}

\* pc: waiting for a slot, holding one, executing the run, leaving (the slot is
\* given back, _forget follows), done.  own: the attempt the task acquired.
Task == [run: Runs, resume: BOOLEAN, own: 0..MaxAttempts, cancelled: BOOLEAN,
         pc: {"waiting", "slot", "executing", "leaving", "done"}]

Alive(t)  == tasks[t].pc # "done"
Busy      == {t \in DOMAIN tasks : tasks[t].pc \in {"slot", "executing"}}
Owns(t)   == LET k == tasks[t] IN status[k.run] \in Leased /\ attempts[k.run] = k.own

Step(t, pc) == tasks' = [tasks EXCEPT ![t].pc = pc]

-----------------------------------------------------------------------------
(* API calls *)

\* create_runtime_run: the record and the run are durable before the scheduler
\* hears of them; starting the writer is an await in between.
CreateRun(r) ==
    /\ status[r] = "none" /\ call[r] = "none"
    /\ status' = [status EXCEPT ![r] = "created"]
    /\ call' = [call EXCEPT ![r] = "start"]
    /\ UNCHANGED <<attempts, tasks, table, accepting, promised, stopping>>

NewTask(r, resume) ==
    IF table[r] # 0 /\ Alive(table[r]) THEN UNCHANGED <<tasks, table>>
    ELSE /\ tasks' = Append(tasks, [run |-> r, resume |-> resume, own |-> 0,
                                    cancelled |-> FALSE, pc |-> "waiting"])
         /\ table' = [table EXCEPT ![r] = Len(tasks) + 1]

Answered(r) == call' = [call EXCEPT ![r] = "none"]

\* RuntimeManager.start: once the shutdown began it raises, and the run stays as
\* it is.
Start(r) ==
    /\ call[r] = "start" /\ Len(tasks) < MaxTasks
    /\ IF accepting
       THEN NewTask(r, FALSE)
       ELSE UNCHANGED <<tasks, table>>
    /\ Answered(r)
    /\ UNCHANGED <<status, attempts, accepting, promised, stopping>>

\* resume_runtime_run reads the status before it awaits the writer and the lock.
AskResume(r) ==
    /\ status[r] = "interrupted" /\ call[r] = "none" /\ attempts[r] < MaxAttempts
    /\ call' = [call EXCEPT ![r] = "resume"]
    /\ UNCHANGED <<status, attempts, tasks, table, accepting, promised, stopping>>

\* RuntimeManager.resume: a task that is still alive is the answer.
Resume(r) ==
    /\ call[r] = "resume" /\ Len(tasks) < MaxTasks
    /\ IF accepting
       THEN /\ NewTask(r, TRUE)
            /\ promised' = IF tasks' # tasks THEN [promised EXCEPT ![r] = attempts[r] + 1]
                                             ELSE promised
       ELSE UNCHANGED <<tasks, table, promised>>
    /\ Answered(r)
    /\ UNCHANGED <<status, attempts, accepting, stopping>>

\* RuntimeManager.cancel, with the registered coordinator or a fresh one.
Cancel(r) ==
    /\ status[r] \in {"created", "running"}
    /\ status' = [status EXCEPT ![r] = IF @ = "created" THEN "terminal" ELSE "cancelling"]
    /\ UNCHANGED <<attempts, tasks, table, accepting, call, promised, stopping>>

-----------------------------------------------------------------------------
(* Tasks: _run and _run_resume *)

TaskKept == UNCHANGED <<status, attempts, table, accepting, call, promised, stopping>>

\* The semaphore.
TakeSlot(t) ==
    /\ tasks[t].pc = "waiting" /\ ~tasks[t].cancelled
    /\ Cardinality(Busy) < Limit
    /\ Step(t, "slot") /\ TaskKept

\* execute() or resume(): the lease is taken from a run in the expected status, or
\* the conflict ends the task.
TakeLease(t) ==
    LET k == tasks[t] IN
    /\ k.pc = "slot"
    /\ IF ~k.cancelled /\ status[k.run] = (IF k.resume THEN "interrupted" ELSE "created")
          /\ attempts[k.run] < MaxAttempts
       THEN /\ status' = [status EXCEPT ![k.run] = "running"]
            /\ attempts' = [attempts EXCEPT ![k.run] = @ + 1]
            /\ tasks' = [tasks EXCEPT ![t].pc = "executing", ![t].own = attempts[k.run] + 1]
       ELSE Step(t, "leaving") /\ UNCHANGED <<status, attempts>>
    /\ UNCHANGED <<table, accepting, call, promised, stopping>>

\* The coordinator returns: it settled the run if it still owns it.  A cancelled
\* task settles only a run that is cancelling.
Returns(t) ==
    /\ tasks[t].pc = "executing"
    /\ status' = IF Owns(t) /\ (tasks[t].cancelled => status[tasks[t].run] = "cancelling")
                 THEN [status EXCEPT ![tasks[t].run] = "terminal"] ELSE status
    /\ Step(t, "leaving")
    /\ UNCHANGED <<attempts, table, accepting, call, promised, stopping>>

CancelledWaiting(t) ==
    /\ tasks[t].pc = "waiting" /\ tasks[t].cancelled
    /\ Step(t, "leaving") /\ TaskKept

\* _forget: only the registered task removes the entry.
Forget(t) ==
    /\ tasks[t].pc = "leaving"
    /\ Step(t, "done")
    /\ table' = IF table[tasks[t].run] = t THEN [table EXCEPT ![tasks[t].run] = 0] ELSE table
    /\ UNCHANGED <<status, attempts, accepting, call, promised, stopping>>

\* The lease audit: the owner stalled, or is gone.
Audit(r) ==
    /\ status[r] \in Leased
    /\ status' = [status EXCEPT ![r] = "interrupted"]
    /\ UNCHANGED <<attempts, tasks, table, accepting, call, promised, stopping>>

-----------------------------------------------------------------------------
(* shutdown *)

Registered == {t \in DOMAIN tasks : \E r \in Runs : table[r] = t}

BeginStop ==
    /\ MayStop /\ stopping = "off"
    /\ accepting' = FALSE
    /\ stopping' = "wait"
    /\ UNCHANGED <<status, attempts, tasks, table, call, promised>>

\* asyncio.wait ends with every task done, or the timeout cancels the rest.
StopWaited ==
    /\ stopping = "wait"
    /\ stopping' = "gather"
    /\ tasks' = [t \in DOMAIN tasks |->
         IF t \in Registered /\ Alive(t) THEN [tasks[t] EXCEPT !.cancelled = TRUE] ELSE tasks[t]]
    /\ UNCHANGED <<status, attempts, table, accepting, call, promised>>

\* Mutant: the cancelled tasks are not awaited.
EndStopAtOnce ==
    /\ stopping = "gather"
    /\ stopping' = "done"
    /\ table' = [r \in Runs |-> 0]
    /\ UNCHANGED <<status, attempts, tasks, accepting, call, promised>>

\* gather, then the coordinators' shutdown, then the tables are cleared.
EndStop ==
    /\ stopping = "gather"
    /\ \A t \in DOMAIN tasks : tasks[t].cancelled => ~Alive(t)
    /\ stopping' = "done"
    /\ table' = [r \in Runs |-> 0]
    /\ UNCHANGED <<status, attempts, tasks, accepting, call, promised>>

-----------------------------------------------------------------------------
ManagerInit ==
    /\ status = [r \in Runs |-> "none"]
    /\ attempts = [r \in Runs |-> 0]
    /\ tasks = <<>>
    /\ table = [r \in Runs |-> 0]
    /\ accepting = TRUE
    /\ call = [r \in Runs |-> "none"]
    /\ promised = [r \in Runs |-> 0]
    /\ stopping = "off"

\* Mutant: the slot is kept when the lease is refused.
TaskStepKeepsSlot(t) == TakeSlot(t) \/ (TakeLease(t) /\ tasks'[t].pc = "executing")
                          \/ Returns(t) \/ CancelledWaiting(t) \/ Forget(t)

TaskStep(t) == TakeSlot(t) \/ TakeLease(t) \/ Returns(t) \/ CancelledWaiting(t) \/ Forget(t)

ManagerNext ==
    \/ \E r \in Runs : CreateRun(r) \/ Start(r) \/ AskResume(r) \/ Resume(r) \/ Cancel(r) \/ Audit(r)
    \/ \E t \in DOMAIN tasks : TaskStep(t)
    \/ BeginStop \/ StopWaited \/ EndStop

\* Calls under way and tasks go on; a phase ends by its deadline at the latest; a
\* shutdown that began goes on.  The semaphore is fair to its waiters.
ManagerFairness ==
    /\ \A r \in Runs : WF_managerVars(Start(r) \/ Resume(r))
    /\ \A t \in 1..MaxTasks : SF_managerVars(t \in DOMAIN tasks /\ TaskStep(t))
    /\ WF_managerVars(StopWaited) /\ WF_managerVars(EndStop)

ManagerSpec == ManagerInit /\ [][ManagerNext]_managerVars /\ ManagerFairness

-----------------------------------------------------------------------------
(* Properties *)

\* Every variable stays in its domain.
ManagerTypeOK ==
    /\ status \in [Runs -> Status] /\ attempts \in [Runs -> 0..MaxAttempts]
    /\ tasks \in Seq(Task) /\ Len(tasks) <= MaxTasks
    /\ table \in [Runs -> 0..Len(tasks)]
    /\ accepting \in BOOLEAN /\ stopping \in {"off", "wait", "gather", "done"}
    /\ call \in [Runs -> {"none", "start", "resume"}]
    /\ promised \in [Runs -> 0..(MaxAttempts + 1)]

\* A finished shutdown leaves no task behind, whichever calls were under way when
\* it began and whatever the tasks were doing (shutdown, start, _forget).
StopLeavesNoTask == stopping = "done" => \A t \in DOMAIN tasks : ~Alive(t)

\* Every task ends and leaves the table, so that a run can be started or resumed
\* again and a shutdown can end (_run, _run_resume, _forget).
EveryTaskEnds == \A t \in 1..MaxTasks : (t \in DOMAIN tasks) ~> (t \in DOMAIN tasks /\ ~Alive(t))
StopEnds == stopping = "wait" ~> stopping = "done"

\* A resume that made a task ends in a new attempt, unless something else changed
\* the run or the process stops.  (A resume that met the live task of the lost
\* attempt promises nothing, though the endpoint answers 202 for it as well.)
ResumeTakesEffect ==
    \A r \in Runs : \A n \in 1..MaxAttempts :
        promised[r] = n ~> (attempts[r] >= n \/ status[r] # "interrupted" \/ stopping # "off")

\* A run that was created is started or cancelled, however the slots are used,
\* unless the process stops between its creation and its start.
CreatedIsStarted ==
    \A r \in Runs :
        status[r] = "created" ~> (status[r] # "created" \/ stopping # "off" \/ Len(tasks) = MaxTasks)

\* The table of tasks is well formed and a finished shutdown leaves no task behind.
ManagerConsistent == ManagerTypeOK /\ StopLeavesNoTask

\* What the scheduler accepted happens: tasks end, a shutdown ends, a resume gives an
\* attempt and a created run is started (start, resume, _run, _forget, shutdown).
ManagerProgress == EveryTaskEnds /\ StopEnds /\ ResumeTakesEffect /\ CreatedIsStarted
=============================================================================

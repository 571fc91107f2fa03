------------------------------ MODULE TaskEngine ------------------------------
(***************************************************************************)
(* DiagnosisExecutionEngine: the V4 plan of an investigation, executed     *)
(* task by task on the provider results.  Tasks wait for the tasks they    *)
(* depend on; a task whose dependency is missing, failed or was skipped is *)
(* skipped, and so are the tasks of a cycle.  Every write may fail, which  *)
(* ends the engine: _record_v4_execution only logs it.                     *)
(***************************************************************************)
EXTENDS Naturals, Sequences

CONSTANT PlanSize       \* number of tasks of the plan

ASSUME EngineAssumption == PlanSize \in Nat

\* Tasks by their place in the order of priority, tasks without dependencies
\* first; priorities are free, so every order is possible.
PlanTasks == 1..PlanSize
Unplanned == PlanSize + 1      \* an id no task of the plan has
Ended4    == {"completed", "failed", "skipped"}

VARIABLES
    dependsOn,    \* depends_on of every task
    taskStatus,   \* the engine's list of tasks
    visiting,     \* pending tasks the pass under way has still to look at
    progress,     \* did the pass end a task
    engine,       \* start, scan, tasks, execution, fact, cycle, finish, done or broken
    task,         \* the task whose end is being written
    results4,     \* did the task run, and did it find evidence
    planSaved,    \* statuses in the repository
    execSaved,    \* executions in the repository, by task
    factSaved,    \* context facts in the repository, by task
    callSaved     \* tasks with a saved tool call

engineVars == <<dependsOn, taskStatus, visiting, progress, engine, task, results4, planSaved,
                execSaved, factSaved, callSaved>>

Pending4 == {t \in PlanTasks : taskStatus[t] = "pending"}
NoTask   == 0
NoResult == [ran |-> FALSE, evidence |-> FALSE]

(***************************************************************************)
(* Decisions.                                                              *)
(***************************************************************************)

\* _blocked_reason, with status_by_id and the ids of the plan.
StatusOf(d) == IF d \in PlanTasks THEN taskStatus[d] ELSE "missing"
BlockedByPending(t) == \E d \in dependsOn[t] : StatusOf(d) \in {"missing", "failed", "skipped", "pending"}
Blocked(t) == \E d \in dependsOn[t] : StatusOf(d) \in {"missing", "failed", "skipped"}

\* _dependencies_completed.
DependenciesCompleted(t) == \A d \in dependsOn[t] : StatusOf(d) = "completed"

\* _provider_tool_call: the status of a call by what its providers returned;
\* without a result the call failed.
ProviderStatus == {"success", "partial", "skipped", "failed"}
CallStatus(returned, evidence) ==
    IF returned = {} \/ "failed" \in returned THEN "failed"
    ELSE IF evidence \/ "success" \in returned THEN "completed" ELSE "skipped"

(***************************************************************************)
(* The engine.                                                             *)
(***************************************************************************)

\* The pass looks at the pending tasks it found when it started, in order.
First4 == CHOOSE t \in visiting : \A u \in visiting : t <= u

StartEngine ==
    /\ engine = "start" /\ engine' = "scan"
    /\ planSaved' = taskStatus
    /\ visiting' = PlanTasks /\ progress' = FALSE
    /\ UNCHANGED <<dependsOn, taskStatus, task, results4, execSaved, factSaved, callSaved>>

Ends(t, status, r) ==
    /\ taskStatus' = [taskStatus EXCEPT ![t] = status]
    /\ visiting' = visiting \ {t} /\ task' = t /\ results4' = r

\* A task that has to wait is left for the next pass.
Postpone ==
    /\ engine = "scan" /\ visiting # {}
    /\ ~Blocked(First4) /\ ~DependenciesCompleted(First4)
    /\ visiting' = visiting \ {First4}
    /\ UNCHANGED <<dependsOn, taskStatus, progress, engine, task, results4, planSaved, execSaved,
                   factSaved, callSaved>>

SkipBlocked ==
    /\ engine = "scan" /\ visiting # {} /\ Blocked(First4)
    /\ Ends(First4, "skipped", NoResult) /\ progress' = TRUE /\ engine' = "tasks"
    /\ UNCHANGED <<dependsOn, planSaved, execSaved, factSaved, callSaved>>

\* _run_task; a task without a tool completes.
RunTask ==
    /\ engine = "scan" /\ visiting # {}
    /\ ~Blocked(First4) /\ DependenciesCompleted(First4)
    /\ \/ \E returned \in SUBSET ProviderStatus, evidence \in BOOLEAN :
             /\ evidence => returned # {}
             /\ Ends(First4, CallStatus(returned, evidence), [ran |-> TRUE, evidence |-> evidence])
             /\ callSaved' = callSaved \cup {First4}
       \/ Ends(First4, "completed", [ran |-> TRUE, evidence |-> FALSE]) /\ UNCHANGED callSaved
    /\ progress' = TRUE /\ engine' = "tasks"
    /\ UNCHANGED <<dependsOn, planSaved, execSaved, factSaved>>

\* A pass that ended no task leaves a cycle; otherwise there is another pass.
Leftover == Pending4
PassEnds ==
    /\ engine = "scan" /\ visiting = {}
    /\ IF Pending4 = {}
       THEN engine' = "finish" /\ UNCHANGED <<visiting, progress>>
       ELSE IF progress
       THEN engine' = "scan" /\ visiting' = Pending4 /\ progress' = FALSE
       ELSE engine' = "cycle" /\ visiting' = Leftover /\ UNCHANGED progress
    /\ UNCHANGED <<dependsOn, taskStatus, task, results4, planSaved, execSaved, factSaved, callSaved>>

SkipCycle ==
    /\ engine = "cycle"
    /\ IF visiting = {} THEN engine' = "finish" /\ UNCHANGED <<taskStatus, visiting, task, results4>>
       ELSE engine' = "tasks" /\ Ends(First4, "skipped", NoResult)
    /\ UNCHANGED <<dependsOn, progress, planSaved, execSaved, factSaved, callSaved>>

\* The three writes after a task ended.
SaveTasks ==
    /\ engine = "tasks" /\ engine' = "execution" /\ planSaved' = taskStatus
    /\ UNCHANGED <<dependsOn, taskStatus, visiting, progress, task, results4, execSaved, factSaved,
                   callSaved>>
SaveExecution ==
    /\ engine = "execution" /\ engine' = "fact"
    /\ execSaved' = [execSaved EXCEPT ![task] =
                        Append(@, [status |-> taskStatus[task], ran |-> results4.ran])]
    /\ UNCHANGED <<dependsOn, taskStatus, visiting, progress, task, results4, planSaved, factSaved,
                   callSaved>>
SaveContextFact ==
    /\ engine = "fact" /\ engine' = IF progress THEN "scan" ELSE "cycle"
    /\ factSaved' = IF results4.evidence THEN factSaved \cup {task} ELSE factSaved
    /\ task' = NoTask /\ results4' = NoResult
    /\ UNCHANGED <<dependsOn, taskStatus, visiting, progress, planSaved, execSaved, callSaved>>

FinishEngine ==
    /\ engine = "finish" /\ engine' = "done" /\ planSaved' = taskStatus
    /\ UNCHANGED <<dependsOn, taskStatus, visiting, progress, task, results4, execSaved, factSaved,
                   callSaved>>

\* A write raises; so may the second write of a tool call, whose first failure
\* only turns the call into a failed one.
WriteFails ==
    /\ \/ engine \in {"start", "tasks", "execution", "finish"}
       \/ engine = "fact" /\ results4.evidence
       \/ engine = "scan" /\ visiting # {} /\ ~Blocked(First4) /\ DependenciesCompleted(First4)
    /\ engine' = "broken"
    /\ UNCHANGED <<dependsOn, taskStatus, visiting, progress, task, results4, planSaved, execSaved,
                   factSaved, callSaved>>

EngineInit ==
    /\ dependsOn \in [PlanTasks -> SUBSET (PlanTasks \cup {Unplanned})]
    /\ taskStatus = [t \in PlanTasks |-> "pending"]
    /\ visiting = {} /\ progress = FALSE /\ engine = "start" /\ task = NoTask /\ results4 = NoResult
    /\ planSaved = [t \in PlanTasks |-> "none"] /\ execSaved = [t \in PlanTasks |-> <<>>]
    /\ factSaved = {} /\ callSaved = {}
EngineNext == \/ StartEngine \/ Postpone \/ SkipBlocked \/ RunTask \/ PassEnds \/ SkipCycle
              \/ SaveTasks \/ SaveExecution \/ SaveContextFact \/ FinishEngine \/ WriteFails
EngineSpec == EngineInit /\ [][EngineNext]_engineVars

(***************************************************************************)
(* Properties.                                                             *)
(***************************************************************************)

\* Type invariant of the engine.
EngineTypeOK ==
    /\ dependsOn \in [PlanTasks -> SUBSET (PlanTasks \cup {Unplanned})]
    /\ taskStatus \in [PlanTasks -> {"pending"} \cup Ended4]
    /\ visiting \subseteq PlanTasks /\ progress \in BOOLEAN
    /\ engine \in {"start", "scan", "tasks", "execution", "fact", "cycle", "finish", "done", "broken"}
    /\ task \in PlanTasks \cup {NoTask} /\ results4 \in [ran: BOOLEAN, evidence: BOOLEAN]
    /\ planSaved \in [PlanTasks -> {"none", "pending"} \cup Ended4]
    /\ execSaved \in [PlanTasks -> Seq([status: Ended4, ran: BOOLEAN])]
    /\ factSaved \subseteq PlanTasks /\ callSaved \subseteq PlanTasks

\* The order of priorities does not decide who runs: once the engine is through,
\* a task ran exactly if every task it depends on completed.
RanIffReady ==
    engine = "done" =>
        \A t \in PlanTasks : execSaved[t][1].ran <=> DependenciesCompleted(t)

\* The engine leaves no task behind, whatever the dependencies look like: every
\* task ended, with one execution that says the same.
EngineLeavesNothing ==
    engine = "done" =>
        \A t \in PlanTasks : /\ taskStatus[t] \in Ended4 /\ planSaved[t] = taskStatus[t]
                             /\ Len(execSaved[t]) = 1 /\ execSaved[t][1].status = taskStatus[t]

\* Wherever a write fails, what is stored fits together: an execution agrees with
\* the stored task and a fact has its execution.
StoredPlanFits ==
    \A t \in PlanTasks : /\ execSaved[t] # <<>> => planSaved[t] = execSaved[t][1].status
                         /\ t \in factSaved => execSaved[t] # <<>>

\* The plan is executed as its dependencies say, whatever the priorities, the failures
\* and the writes that fail (DiagnosisExecutionEngine.execute).
PlanConsistent == EngineTypeOK /\ RanIffReady /\ EngineLeavesNothing /\ StoredPlanFits
=============================================================================

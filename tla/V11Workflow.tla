----------------------------- MODULE V11Workflow -----------------------------
(***************************************************************************)
(* The V11 diagnosis of one run: Lead, Investigators, Critic, publication  *)
(* and validation, driven phase by phase through the phase executor.       *)
(*                                                                         *)
(* Each phase computes on the session, a copy of the durable projection    *)
(* held by one attempt; the coordinator commits the copy with the          *)
(* checkpoint.  Tool calls and their evidence are durable at once.  What   *)
(* V11Runtime only keeps in memory is lost with the process.               *)
(***************************************************************************)
EXTENDS Naturals, Sequences, FiniteSets

CONSTANTS
    FirstTasks,        \* task ids of the Lead's plan
    ExtraTasks,        \* task ids of the Critic's supplemental batch
    MaxInvestigators,  \* limits.max_investigators
    ToolBudget,        \* tool_budget of the execution contract
    PerTask,           \* limits.max_tool_calls_per_specialist
    MaxResumes         \* bound of the model: resumes of the run

\* A plan lists its tasks; their ids are made of "task-" and a random number, so
\* none is the name of another actor.
ASSUME WorkflowAssumption ==
    /\ MaxInvestigators \in 1..3 /\ ToolBudget \in Nat \ {0} /\ PerTask \in Nat \ {0}
    /\ MaxResumes \in Nat /\ FirstTasks \cap ExtraTasks = {}
    /\ IsFiniteSet(FirstTasks) /\ IsFiniteSet(ExtraTasks)
    /\ (FirstTasks \cup ExtraTasks) \cap {"critic", "lead", "validator"} = {}

VARIABLES
    durable,    \* the committed projection of the investigation
    phases,     \* number of phases with a checkpoint
    called,     \* durable tool calls by logical id
    runState,   \* running, interrupted, completed or failed
    resumes,    \* number of resumes so far
    session,    \* the attempt's copy of the projection
    memory,     \* what V11Runtime remembers outside the projection
    work,       \* the investigators of the phase under way
    step        \* idle, phase, round or output: where the phase stands

v11Vars == <<durable, phases, called, runState, resumes, session, memory, work, step>>

AllTasks == FirstTasks \cup ExtraTasks
Calls    == AllTasks \X (1..PerTask)
Seed     == <<>>                 \* what the providers report before the agents start
Evidence == {Seed} \cup Calls

Order == <<"intake", "evidence_collection", "lead_planning", "investigator_round_1",
           "critic_review", "investigator_round_2", "critic_reconciliation",
           "lead_adjudication", "result_validation", "report_generation", "finalize">>

Executions == [actor: AllTasks \cup {"critic", "lead", "validator"}, round: 1..2,
               attempt: 1..2, status: {"completed", "failed"}]
Candidates == [task: AllTasks, support: SUBSET Evidence]
\* "doubt" accepts a candidate although a check of its mechanism is unknown.
Verdicts   == {"accept", "doubt", "reject", "needs"}
Undecided  == [action |-> "none", published |-> {}, unsure |-> FALSE]
Decisions  == [action: {"none", "conclude", "inconclusive"}, published: SUBSET AllTasks,
               unsure: BOOLEAN]
Diagnosis  == {"none", "complete", "partial", "inconclusive"}

\* A candidate is named by the task that brought it up (one per task here), an
\* assessment by its candidate.  owner: the assessment a supplemental task
\* belongs to.  summary: multi_agent_run.
Projections == [status: {"running", "completed", "failed"}, plan: {"none", "investigate", "stop"},
                tasks: SUBSET AllTasks, owner: UNION {[X -> AllTasks] : X \in SUBSET ExtraTasks},
                evidence: SUBSET Evidence, calls: SUBSET Calls, candidates: SUBSET Candidates,
                verdicts: UNION {[X -> Verdicts] : X \in SUBSET AllTasks}, reviewRound: 0..2,
                decision: Decisions, diagnosis: Diagnosis, review: {"none", "open", "failed"},
                executions: SUBSET Executions, report: BOOLEAN,
                summary: {"none", "completed", "partial", "failed"}]

Fresh == [status |-> "running", plan |-> "none", tasks |-> {}, owner |-> <<>>, evidence |-> {},
          calls |-> {}, candidates |-> {}, verdicts |-> <<>>, reviewRound |-> 0,
          decision |-> Undecided, diagnosis |-> "none", review |-> "none",
          executions |-> {}, report |-> FALSE, summary |-> "none"]

\* _failures as the texts it was given (noted) and the executions restored into
\* it, _terminal_failure, _completed_rounds, _tool_admissions.
NoMemory == [noted |-> FALSE, failures |-> {}, terminal |-> FALSE, rounds |-> 0, admitted |-> {}]

Phase     == Order[phases + 1]
Names(p)  == {c.task : c \in p.candidates}
Round(k)  == {t \in session.tasks : (t \in ExtraTasks) = (k = 2)}
Exec(a, k, n, s) == [actor |-> a, round |-> k, attempt |-> n, status |-> s]
SmallerOf(a, b)  == IF a < b THEN a ELSE b
LargerOf(a, b)   == IF a < b THEN b ELSE a

-----------------------------------------------------------------------------
(* Failure memory and the summary *)

\* _resolved_execution_ids: a completed attempt of the same action, not an
\* earlier one, resolves a failure.
Resolved(execs) ==
    {e \in execs : /\ e.status = "failed"
                   /\ \E c \in execs : /\ c.status = "completed" /\ c.attempt >= e.attempt
                                       /\ c.actor = e.actor /\ c.round = e.round}

\* _restore_failure_memory
Restored(m, p) ==
    LET failed == {e \in p.executions : e.status = "failed"}
        old    == Resolved(p.executions)
    IN  [m EXCEPT !.failures = (@ \ old) \cup (failed \ old)]

Failing(m) == m.noted \/ m.failures # {}
Noted(m)   == [m EXCEPT !.noted = TRUE]

\* _update_summary, after it restored the memory
Summarised(p, m) ==
    [p EXCEPT !.summary =
        CASE m.terminal -> "failed"
          [] ~m.terminal /\ (\/ p.diagnosis = "partial"
                             \/ Failing(m) /\ p.diagnosis # "inconclusive") -> "partial"
          [] OTHER -> "completed"]

\* _mark_terminal_failure: the record fails, nothing stays published; an actor
\* after the Investigators leaves the candidates for the audit.
Terminal(p, preserve) ==
    [p EXCEPT !.status = "failed", !.decision = Undecided, !.diagnosis = "none",
              !.review = IF @ = "none" THEN @ ELSE "failed",
              !.candidates = IF preserve THEN @ ELSE {},
              !.verdicts = IF preserve THEN @ ELSE <<>>]

TerminalMemory(m) == [m EXCEPT !.noted = TRUE, !.terminal = TRUE]

\* The end of a handler: memory m and projection p, summarised; the phase waits
\* for its commit.
Done(p, m) ==
    LET mm == Restored(m, p)
    IN  /\ session' = Summarised(p, mm)
        /\ memory' = mm
        /\ step' = "output"
        /\ UNCHANGED <<durable, phases, called, runState, resumes, work>>

Fails(p, preserve) == Done(Terminal(p, preserve), TerminalMemory(memory))

\* A handler that leaves the projection alone.
Passes ==
    /\ step' = "output"
    /\ UNCHANGED <<durable, phases, called, runState, resumes, session, memory, work>>

\* run_phase is entered for this phase.
At(ph) == runState = "running" /\ step = "phase" /\ Phase = ph

-----------------------------------------------------------------------------
(* Tool budget *)

\* _round_tool_limit: the first round leaves a quarter of the budget.
RoundToolLimit(k) ==
    IF k # 1 \/ MaxInvestigators < 2 THEN PerTask
    ELSE LET reserve == SmallerOf(2 * MaxInvestigators, ToolBudget \div 4)
         IN  SmallerOf(PerTask, LargerOf(1, (ToolBudget - reserve) \div MaxInvestigators))

\* Mutant: calls that siblings were just admitted for are not counted.
BudgetedForgetsAdmissions == session.calls

\* _budgeted_tool_calls: the calls of the session's projection and the ones
\* admitted since.
Budgeted == session.calls \cup memory.admitted

RemainingTools == LargerOf(0, ToolBudget - Cardinality(Budgeted))

\* _task_tool_capacity
Capacity(t, k) ==
    LargerOf(0, SmallerOf(RoundToolLimit(k) - Cardinality({c \in Budgeted : c[1] = t}), RemainingTools))

-----------------------------------------------------------------------------
(* Sessions and commits: the phase executor *)

\* execute_phase: the record, its evidence and the tool calls are read again
\* from the durable projection before a V11 phase.
Begin ==
    /\ runState = "running" /\ step = "idle"
    /\ session' = [session EXCEPT !.status = durable.status, !.evidence = durable.evidence,
                                  !.calls = durable.calls, !.summary = durable.summary,
                                  !.report = durable.report]
    /\ step' = "phase"
    /\ UNCHANGED <<durable, phases, called, runState, resumes, memory, work>>

\* Mutant: the phase's copy replaces what tools committed meanwhile.
MergedWithoutTools == session

\* _merge_committed_tools: a phase never takes back a committed tool result.
Merged == [session EXCEPT !.evidence = @ \cup durable.evidence, !.calls = @ \cup durable.calls]

\* The coordinator commits the output; a failed phase fails the run, the last
\* phase completes it.  INTAKE activates the projection and does not merge.
Commit ==
    /\ runState = "running" /\ step = "output"
    /\ durable' = IF Phase = "intake" THEN session ELSE Merged
    /\ session' = session
    /\ phases' = phases + 1
    /\ runState' = CASE session.status = "failed"    -> "failed"
                     [] Phase = "finalize" /\ session.status # "failed" -> "completed"
                     [] OTHER                        -> "running"
    /\ step' = "idle"
    /\ work' = <<>>
    /\ UNCHANGED <<called, resumes, memory>>

\* An exception leaves the phase, or the deadline passes: run_phase clears the
\* session's projection, which nobody commits, and the run fails.
Raises ==
    /\ runState = "running" /\ step # "idle"
    /\ runState' = "failed"
    /\ durable' = [durable EXCEPT !.status = "failed"]
    /\ session' = Fresh /\ memory' = NoMemory /\ work' = <<>> /\ step' = "idle"
    /\ UNCHANGED <<phases, called, resumes>>

\* The process dies: session and memory are gone, and so is what tools were
\* about to answer.
Crash ==
    /\ runState = "running" /\ resumes < MaxResumes
    /\ runState' = "interrupted"
    /\ called' = [c \in Calls |-> IF called[c] = "running" THEN "interrupted" ELSE called[c]]
    /\ session' = Fresh /\ memory' = NoMemory /\ work' = <<>> /\ step' = "idle"
    /\ UNCHANGED <<durable, phases, resumes>>

\* _build_durable_session and clone_for_run: the projection is copied, the
\* memory starts empty.
Resume ==
    /\ runState = "interrupted"
    /\ runState' = "running" /\ resumes' = resumes + 1
    /\ session' = durable
    /\ UNCHANGED <<durable, phases, called, memory, work, step>>

-----------------------------------------------------------------------------
(* Intake, evidence and the plan *)

\* _v11_intake: the projection of an earlier run is cleared.
Intake ==
    /\ At("intake")
    /\ session' = Fresh
    /\ step' = "output"
    /\ UNCHANGED <<durable, phases, called, runState, resumes, memory, work>>

\* _v11_evidence_collection
CollectEvidence ==
    /\ At("evidence_collection")
    /\ session' = [session EXCEPT !.evidence = @ \cup {Seed}]
    /\ step' = "output"
    /\ UNCHANGED <<durable, phases, called, runState, resumes, memory, work>>

\* _build_plan: one to max_investigators tasks, or none to stop.  A plan that
\* breaks the contract raises.
Plans == {chosen \in SUBSET FirstTasks : Cardinality(chosen) <= MaxInvestigators}

PlanLead ==
    /\ At("lead_planning") /\ RemainingTools > 0
    /\ \E chosen \in Plans :
        Done([session EXCEPT !.plan = IF chosen = {} THEN "stop" ELSE "investigate",
                               !.tasks = chosen], memory)

Stopped == session.plan = "stop"

\* _dispatch_phase after an inconclusive plan: the review is written once and
\* the later phases return it.
StopInconclusive ==
    /\ runState = "running" /\ step = "phase" /\ Stopped
    /\ Phase \in {"investigator_round_1", "critic_review", "investigator_round_2",
                  "critic_reconciliation", "lead_adjudication", "result_validation"}
    /\ IF session.review # "none" THEN Passes
       ELSE Done([session EXCEPT !.review = "open", !.diagnosis = "inconclusive",
                                 !.decision = [Undecided EXCEPT !.action = "inconclusive"]], memory)

-----------------------------------------------------------------------------
(* Investigators *)

RoundOf == IF Phase = "investigator_round_1" THEN 1 ELSE 2

\* A task's investigator: what its tools returned, and what came of it.
Idle == [pc |-> "run", got |-> {}, draft |-> {}, dropped |-> FALSE]

\* investigator_round_1 and investigator_round_2 pick their tasks; a
\* supplemental task without its assessment fails the run.
StartRound ==
    /\ runState = "running" /\ step = "phase" /\ ~Stopped
    /\ Phase \in {"investigator_round_1", "investigator_round_2"}
    /\ \/ /\ Round(RoundOf) = {}
          /\ Passes
       \/ /\ Round(RoundOf) # {} /\ \A t \in Round(2) : session.owner[t] \in DOMAIN session.verdicts
          /\ work' = [t \in Round(RoundOf) |-> Idle]
          /\ step' = "round"
          /\ UNCHANGED <<durable, phases, called, runState, resumes, session, memory>>
       \/ /\ Phase = "investigator_round_2"
          /\ \E t \in Round(2) : session.owner[t] \notin DOMAIN session.verdicts
          /\ Fails(session, FALSE)

Working(t) == runState = "running" /\ step = "round" /\ t \in DOMAIN work /\ work[t].pc = "run"

\* admit_tool, under the admission lock: a call needs capacity, and its start is
\* durable before the tool runs.  A resumed investigator is a new instance: what
\* it asks are new calls, and those of the old one keep their charge.
AdmitTool(c) ==
    /\ Working(c[1]) /\ called[c] = "none"
    /\ \A n \in 1..(c[2] - 1) : called[<<c[1], n>>] # "none"
    /\ Capacity(c[1], RoundOf) > 0
    /\ called' = [called EXCEPT ![c] = "running"]
    /\ durable' = [durable EXCEPT !.calls = @ \cup {c}]
    /\ memory' = [memory EXCEPT !.admitted = @ \cup {c}]
    /\ UNCHANGED <<phases, runState, resumes, session, work, step>>

\* The result and its evidence are one transaction; it also lands when the
\* model call that wanted it has been given up.
ToolReturns(c) ==
    /\ runState = "running" /\ called[c] = "running"
    /\ \E ok \in BOOLEAN :
        /\ called' = [called EXCEPT ![c] = IF ok THEN "success" ELSE "failed"]
        /\ durable' = [durable EXCEPT !.evidence = IF ok THEN @ \cup {c} ELSE @]
        /\ work' = IF ok /\ Working(c[1]) THEN [work EXCEPT ![c[1]].got = @ \cup {c}] ELSE work
    /\ UNCHANGED <<phases, runState, resumes, session, memory, step>>

\* _commit_session: evidence and calls enter the projection before anything
\* refers to them.
Committed(t) ==
    [session EXCEPT !.evidence = @ \cup work[t].got,
                    !.calls = @ \cup {c \in Calls : c[1] = t /\ called[c] \notin {"none", "running"}}]

\* _admit_candidates: a draft that cites anything else is dropped.
AdmitCandidates(draft, p) == IF draft \subseteq p.evidence THEN draft ELSE {}

\* The model call of t failed, or every draft it returned was rejected.
InvestigatorFails(t) ==
    /\ Working(t)
    /\ \E pc \in {"failed", "rejected"} : work' = [work EXCEPT ![t].pc = pc]
    /\ session' = Committed(t)
    /\ memory' = Noted(memory)
    /\ UNCHANGED <<durable, phases, called, runState, resumes, step>>

\* The drafts an investigator may return: no candidate, or one that cites the
\* first evidence and perhaps a tool result.
Drafts == {{}, {Seed}} \cup {{Seed, <<t, 1>>} : t \in {u \in AllTasks : called[<<u, 1>>] # "none"}}

\* _run_investigator returns; findings that break the contract are dropped one
\* by one, and every drop is noted.
InvestigatorReturns(t) ==
    /\ Working(t)
    /\ \E draft \in Drafts, other \in BOOLEAN :
        LET kept    == AdmitCandidates(draft, Committed(t))
            dropped == other \/ kept # draft
        IN  /\ work' = [work EXCEPT ![t].pc = "done", ![t].draft = kept, ![t].dropped = dropped]
            /\ memory' = IF dropped THEN Noted(memory) ELSE memory
    /\ session' = Committed(t)
    /\ UNCHANGED <<durable, phases, called, runState, resumes, step>>

\* The executions a result adds: the model's own, and the audit of what was
\* rejected (a first attempt of the same action).
ResultExecutions(t) ==
    LET done == IF work[t].pc = "failed" THEN {} ELSE {Exec(t, RoundOf, 1, "completed")}
        lost == IF work[t].pc = "done" /\ ~work[t].dropped THEN {} ELSE {Exec(t, RoundOf, 1, "failed")}
    IN  done \cup lost

\* The first round needs one result, the second needs all.
RoundFailed(k) ==
    IF k = 1 THEN \A t \in DOMAIN work : work[t].pc # "done"
             ELSE \E t \in DOMAIN work : work[t].pc # "done"

\* After the gather: the results are merged into the projection, in task order
\* (_persist_investigator_result), and the round is judged.
EndRound ==
    /\ runState = "running" /\ step = "round" /\ \A t \in DOMAIN work : work[t].pc # "run"
    /\ LET found == {[task |-> t, support |-> work[t].draft] :
                        t \in {u \in DOMAIN work : work[u].pc = "done" /\ work[u].draft # {}}}
           p == [session EXCEPT !.executions = @ \cup UNION {ResultExecutions(t) : t \in DOMAIN work},
                                !.candidates = @ \cup found,
                                !.review = IF @ = "none" /\ found # {} THEN "open" ELSE @]
       IN  IF RoundFailed(RoundOf) THEN Fails(p, FALSE)
           ELSE Done(p, [memory EXCEPT !.rounds = LargerOf(@, RoundOf)])

-----------------------------------------------------------------------------
(* Critic *)

\* _normalize_final_decision: a conclusion names accepted candidates, a doubt
\* about the mechanism must be declared, and a run that lost something (or is
\* not sure) publishes only what two pieces of evidence support.
Publishable(p, m, verdicts, d) ==
    CASE d.action = "conclude" ->
           /\ d.published # {}
           /\ \A t \in d.published : \/ verdicts[t] = "accept"
                                     \/ verdicts[t] = "doubt" /\ d.unsure
           /\ Failing(m) \/ d.unsure =>
                \A c \in p.candidates : c.task \in d.published =>
                    Cardinality(c.support) >= 2 /\ c.support \subseteq p.evidence
      [] d.action = "inconclusive" -> d.published = {} /\ ~d.unsure
      [] OTHER -> FALSE

CriticExecutions(k, retried) ==
    IF retried THEN {Exec("critic", k, 1, "failed"), Exec("critic", k, 2, "completed")}
               ELSE {Exec("critic", k, 1, "completed")}

\* _supplemental_tasks and _bound_supplemental_work: every candidate that needs
\* evidence gets a task of its own, and the batch fits the tool budget.
SupplementalBatch(needs) ==
    {o \in UNION {[X -> needs] : X \in SUBSET ExtraTasks} :
        /\ needs = {o[t] : t \in DOMAIN o}
        /\ Cardinality(DOMAIN o) <= SmallerOf(3, RemainingTools)}

SupplementedBy(p, o) == [p EXCEPT !.tasks = @ \cup DOMAIN o, !.owner = o]

\* _normalize_assessments: every candidate exactly once; the reconciliation
\* cannot ask for evidence again.
Assessments(k) == [Names(session) -> IF k = 1 THEN Verdicts ELSE Verdicts \ {"needs"}]

\* The Critic assesses every candidate exactly once: it asks for evidence and
\* leaves the decision open, or decides.  An invalid answer is corrected within
\* the call, which ends in an answer here or in CriticFails.
CriticReview ==
    /\ At("critic_review") /\ ~Stopped
    /\ LET m == Restored(memory, session)
       IN  \E verdicts \in Assessments(1), retried \in BOOLEAN :
            LET needs == {t \in Names(session) : verdicts[t] = "needs"}
                p == [session EXCEPT !.verdicts = verdicts, !.reviewRound = 1, !.review = "open",
                                     !.executions = @ \cup CriticExecutions(1, retried)]
            IN  \/ /\ needs # {}
                   /\ \E o \in SupplementalBatch(needs) :
                        Done(SupplementedBy(p, o), m)
                \/ /\ needs = {}
                   /\ \E d \in [action: {"conclude", "inconclusive"}, published: SUBSET Names(session),
                                unsure: BOOLEAN] :
                        /\ Publishable(session, m, verdicts, d)
                        /\ Done([p EXCEPT !.decision = d], m)

\* Corrections and retries are used up, or the batch does not fit.
CriticFails ==
    /\ At("critic_review") /\ ~Stopped
    /\ Fails([session EXCEPT !.verdicts = <<>>, !.review = "open",
                             !.executions = @ \cup {Exec("critic", 1, 1, "failed")}], TRUE)

Supplemented == Round(2) # {}

\* critic_reconciliation: old and new candidates, and no third round.
CriticReconciles ==
    /\ At("critic_reconciliation") /\ ~Stopped
    /\ LET m == Restored(memory, session)
       IN  \/ ~Supplemented /\ Passes
           \/ /\ Supplemented
              /\ \E verdicts \in Assessments(2), retried \in BOOLEAN,
                    d \in [action: {"conclude", "inconclusive"}, published: SUBSET Names(session),
                           unsure: BOOLEAN] :
                    /\ Publishable(session, m, verdicts, d)
                    /\ Done([session EXCEPT !.verdicts = verdicts, !.reviewRound = 2, !.decision = d,
                                !.executions = @ \cup CriticExecutions(2, retried)], m)

ReconciliationFails ==
    /\ At("critic_reconciliation") /\ ~Stopped /\ Supplemented
    /\ Fails([session EXCEPT !.executions = @ \cup {Exec("critic", 2, 1, "failed")}], TRUE)

-----------------------------------------------------------------------------
(* Publication *)

ValidatorRejects(p) ==
    Fails([p EXCEPT !.executions = @ \cup {Exec("validator", 1, 1, "failed")}], TRUE)

\* Mutant: the failures of earlier phases are not looked at.
DiagnosticStatusBlind(m, d) ==
    IF d.action = "conclude" THEN IF d.unsure THEN "partial" ELSE "complete" ELSE "inconclusive"

\* _diagnostic_status, and lead_adjudication's rule for an unsure conclusion.
DiagnosticStatus(m, d) ==
    CASE d.action = "conclude" /\ (Failing(m) \/ d.unsure) -> "partial"
      [] d.action = "conclude" /\ ~Failing(m) /\ ~d.unsure -> "complete"
      [] OTHER -> "inconclusive"

\* lead_adjudication publishes the Critic's decision; the round it writes down
\* is the one V11Runtime remembers.
LeadAdjudication ==
    /\ At("lead_adjudication") /\ ~Stopped
    /\ LET m == Restored(memory, session)
           round == IF m.rounds = 2 THEN 2 ELSE 1
       IN  IF session.decision.action = "none" THEN ValidatorRejects(session)
           ELSE Done([session EXCEPT !.diagnosis = DiagnosticStatus(m, session.decision),
                                     !.executions = @ \cup {Exec("lead", round, 1, "completed")}], m)

\* CoordinationReview's own validation.
ReviewConsistent(p) ==
    /\ p.diagnosis # "none" => p.decision.action # "none"
    /\ DOMAIN p.verdicts \subseteq Names(p) /\ p.decision.published \subseteq Names(p)
    /\ \A t \in p.decision.published : p.verdicts[t] \in {"accept", "doubt"}

\* _validate_assessments and _validate_supplemental_tasks
AssessmentsValid(p) == DOMAIN p.verdicts = Names(p)
SupplementLinked(p) ==
    \A t \in p.tasks \cap ExtraTasks :
        /\ t \in DOMAIN p.owner /\ p.owner[t] \in DOMAIN p.verdicts
        /\ p.verdicts[p.owner[t]] # "needs" => p.reviewRound = 2

\* _validate_final_execution_coverage, for the round of the last tasks.
Covered(p) ==
    LET final == IF p.tasks \cap ExtraTasks # {} THEN 2 ELSE 1
    IN  \A actor \in {"critic", "lead"} :
            \E e \in p.executions : e.actor = actor /\ e.round = final /\ e.status = "completed"

\* validate_v11_result
ValidResult(p) ==
    /\ \A c \in p.candidates : c.support \subseteq p.evidence
    /\ p.review = "open" /\ ReviewConsistent(p) /\ AssessmentsValid(p) /\ SupplementLinked(p)
    /\ p.decision.unsure => p.diagnosis = "partial"
    /\ \A t \in p.decision.published : p.verdicts[t] = "doubt" => p.decision.unsure
    /\ p.diagnosis \in {"complete", "partial"} => p.decision.action = "conclude" /\ Covered(p)
    /\ p.diagnosis = "partial" =>
        \A c \in p.candidates : c.task \in p.decision.published => Cardinality(c.support) >= 2

ResultValidation ==
    /\ At("result_validation") /\ ~Stopped
    /\ IF ValidResult(session) THEN Done(session, memory) ELSE ValidatorRejects(session)

\* _v11_report_generation
GenerateReport ==
    /\ At("report_generation")
    /\ session' = [session EXCEPT !.report = session.review # "none" /\ session.summary # "none"]
    /\ step' = "output"
    /\ UNCHANGED <<durable, phases, called, runState, resumes, memory, work>>

\* _v11_finalize: the record completes if there is a diagnosis, and fails
\* otherwise.
Finalize ==
    /\ At("finalize")
    /\ session' = [session EXCEPT !.status = IF session.diagnosis # "none" THEN "completed" ELSE "failed"]
    /\ step' = "output"
    /\ UNCHANGED <<durable, phases, called, runState, resumes, memory, work>>

-----------------------------------------------------------------------------
(* Specification *)

WorkflowInit ==
    /\ durable = Fresh /\ session = Fresh /\ memory = NoMemory /\ work = <<>>
    /\ phases = 0 /\ resumes = 0 /\ runState = "running" /\ step = "idle"
    /\ called = [c \in Calls |-> "none"]

Handler ==
    \/ Intake \/ CollectEvidence \/ PlanLead \/ StopInconclusive
    \/ StartRound \/ EndRound
    \/ \E t \in AllTasks : InvestigatorFails(t) \/ InvestigatorReturns(t)
    \/ CriticReview \/ CriticFails \/ CriticReconciles \/ ReconciliationFails
    \/ LeadAdjudication \/ ResultValidation \/ GenerateReport \/ Finalize

Tool == \E c \in Calls : AdmitTool(c) \/ ToolReturns(c)

WorkflowNext == Begin \/ Commit \/ Handler \/ Tool \/ Raises \/ Crash \/ Resume

WorkflowSpec == WorkflowInit /\ [][WorkflowNext]_v11Vars

-----------------------------------------------------------------------------
(* Properties *)

\* Type invariant of the V11 run.
WorkflowTypeOK ==
    /\ durable \in Projections /\ session \in Projections
    /\ phases \in 0..Len(Order) /\ resumes \in 0..MaxResumes
    /\ runState \in {"running", "interrupted", "completed", "failed"}
    /\ step \in {"idle", "phase", "round", "output"}
    /\ called \in [Calls -> {"none", "running", "success", "failed", "interrupted"}]
    /\ memory.failures \subseteq Executions /\ memory.admitted \subseteq Calls

\* What a completed run publishes can be followed to committed facts, however
\* often it was resumed: accepted candidates, evidence that is durable, two
\* pieces of it when the run lost something; and "complete" hides no failed
\* action.
PublishedIsJustified ==
    runState = "completed" =>
        /\ durable.diagnosis # "none" /\ durable.status = "completed"
        /\ \A c \in durable.candidates : c.task \in durable.decision.published =>
            /\ durable.verdicts[c.task] \in {"accept", "doubt"}
            /\ c.support \subseteq durable.evidence
            /\ durable.diagnosis = "partial" => Cardinality(c.support) >= 2
        /\ durable.diagnosis = "complete" =>
            \A e \in durable.executions : e.status = "failed" =>
                \E x \in durable.executions : /\ x.status = "completed" /\ x.attempt >= e.attempt
                                              /\ x.actor = e.actor /\ x.round = e.round

\* A committed candidate never cites evidence that is not committed, although
\* siblings commit theirs while it is written and crashes drop whole sessions.
EvidenceBeforeCitation ==
    \A c \in durable.candidates : c.support \subseteq durable.evidence

\* Investigators that share the budget, retries of interrupted calls and resumes
\* never spend more tool calls than the contract allows, in all or per task.
ToolBudgetHolds ==
    LET spent == {c \in Calls : called[c] # "none"}
    IN  /\ Cardinality(spent) <= ToolBudget
        /\ \A t \in AllTasks : Cardinality({c \in spent : c[1] = t}) <= PerTask

\* The first round leaves the reserve of the second: a quarter of the budget.
ReserveIsKept ==
    LET first == {c \in Calls : called[c] # "none" /\ c[1] \in FirstTasks}
    IN  MaxInvestigators >= 2 =>
        Cardinality(first) <= ToolBudget - SmallerOf(2 * MaxInvestigators, ToolBudget \div 4)

\* The supplemental batch is one batch the Critic asked for and the budget can
\* pay: each task belongs to an assessment of a candidate, and while the batch
\* is open nothing is published.
SupplementIsOwned ==
    LET extra == durable.tasks \cap ExtraTasks
    IN  durable.status = "running" /\ extra # {} =>
        /\ extra = DOMAIN durable.owner
        /\ \A t \in extra : durable.owner[t] \in Names(durable) \cap DOMAIN durable.verdicts
        /\ durable.reviewRound = 1 => durable.decision = Undecided
        /\ Cardinality(extra) <= ToolBudget - Cardinality({c \in FirstTasks \X (1..PerTask) : called[c] # "none"})

\* Evidence of a tool that returned stays: no commit of a phase that started
\* from an older copy takes it back.
ToolEvidenceStays ==
    [][phases > 0 => durable.evidence \subseteq durable'.evidence]_v11Vars

\* A run whose actors all did their part is not thrown away by the validation
\* (the run was not resumed).
CleanRunIsPublished ==
    resumes = 0 /\ durable.status = "failed" /\ phases >= 9 =>
        \/ \E e \in durable.executions : e.status = "failed" /\ e.actor # "validator"
        \/ \A e \in durable.executions : e.actor # "validator"

\* The committed projection of a V11 run fits together over parallel investigators,
\* supplements, lost sessions and resumes: citations, links and budgets.
V11Consistent ==
    /\ WorkflowTypeOK /\ EvidenceBeforeCitation /\ SupplementIsOwned
    /\ ToolBudgetHolds /\ ReserveIsKept

\* The validation of a run is fair: what is published is justified, and a run whose
\* actors did their part is published (RESULT_VALIDATION).
VerdictIsFair == PublishedIsJustified /\ CleanRunIsPublished
=============================================================================

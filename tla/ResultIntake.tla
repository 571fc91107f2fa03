----------------------------- MODULE ResultIntake -----------------------------
(***************************************************************************)
(* _record_v7_coordination_async: how the orchestrator takes in the result *)
(* of an agents runtime that does its work in one call.  The runtime is an *)
(* extension point, so its result is anything: it is checked, replaced     *)
(* when it breaks a contract, written in several steps each of which may   *)
(* fail, and read back before it counts.                                   *)
(***************************************************************************)
EXTENDS Naturals

CONSTANT IntakeFaults     \* bound of the model: repository calls that raise

ASSUME IntakeAssumption == IntakeFaults \in Nat

VARIABLES
    intake,      \* the step that comes next
    output,      \* the result at hand
    received,    \* the result the runtime returned
    repo,        \* what the repository holds of it
    returned,    \* what the phase gets; NoOutput for None
    multiRun,    \* status in multi_agent_run of the investigation
    faultsLeft   \* repository calls that may still raise

intakeVars == <<intake, output, received, repo, returned, multiRun, faultsLeft>>

\* A Coordinator task, the collection task of a specialist and its second
\* attempt, and a task whose id the plan already has.
OutputTasks == {{}, {"coord"}, {"coord", "first"}, {"coord", "first", "again"}, {"coord", "plan"}}
\* The second finding revises the first; a stray one cites unknown evidence.
OutputFindings == (SUBSET {"f1", "f2"}) \cup {{"f1", "stray"}}
\* An unfounded review makes its reconstruction raise; a broken one differs from
\* it; a semantic one leans on failed evidence.
OutputReviews == {"none", "sound", "unattributed", "unfounded", "broken", "semantic"}
MultiStatus   == {"completed", "partial", "failed", "skipped"}
Artifacts     == {"none", "new", "conflict"}

AnyOutput == [tasks: OutputTasks, executed: BOOLEAN,
              coord: {"completed", "failed", "skipped"}, first: {"completed", "failed", "missing"},
              again: {"completed", "failed"}, findings: OutputFindings, review: OutputReviews,
              status: MultiStatus, artifacts: Artifacts, origin: {"runtime"}]
Outputs == {o \in AnyOutput : /\ "coord" \in o.tasks \/ o.coord = "completed"
                              /\ "first" \in o.tasks \/ o.first = "completed"
                              /\ "again" \in o.tasks \/ o.again = "completed"}

\* AgentsRcaRuntimeResult.failed and validation_failed, with the artifacts of the
\* result they stand for; the record of a failed write has no task.
Fallback(o, origin) ==
    [o EXCEPT !.tasks = {"coord"}, !.executed = TRUE, !.coord = "failed", !.findings = {},
              !.review = "none", !.status = "failed", !.origin = origin]
NoOutput == [origin |-> "none"]
Origins  == {"runtime", "failure", "validation", "persistence", "plan", "earlier"}

(***************************************************************************)
(* _validate_v7_result.                                                    *)
(***************************************************************************)

\* A failed first attempt counts no more once the second brought the specialist in.
Outcome(o, t) == CASE t = "coord" -> o.coord
                   [] t = "first" -> IF o.first = "missing" THEN "failed" ELSE o.first
                   [] t = "again" -> o.again
MadeUp(o)   == IF o.first = "missing" /\ "again" \in o.tasks /\ o.again = "completed"
               THEN {"first"} ELSE {}
Statuses(o) == {Outcome(o, t) : t \in o.tasks \ MadeUp(o)}

ValidRun(o) ==
    CASE o.status = "completed" -> o.review # "none" /\ Statuses(o) = {"completed"} /\ o.findings # {}
      [] o.status = "partial"   -> o.review # "none" /\ Statuses(o) = {"completed", "failed"} /\ o.findings # {}
      [] o.status = "failed"    -> /\ o.review = "none" /\ "failed" \in Statuses(o)
                                   /\ Statuses(o) \subseteq {"completed", "failed"}
      [] o.status = "skipped"   -> o.review = "none" /\ Statuses(o) = {"skipped"} /\ o.findings = {}

\* What the review of a result breaks: it is rebuilt from the findings and
\* compared, and its references are checked against usable evidence.
ReviewVerdict(o) ==
    IF o.review = "unattributed" THEN "attribution"
    ELSE IF o.review = "unfounded" THEN "raised"
    ELSE IF o.review = "broken" \/ (o.review # "none" /\ o.status \notin {"completed", "partial"})
    THEN "review"
    ELSE IF o.review = "semantic" THEN "semantic" ELSE "valid"

\* The first contract a result breaks.
Verdict(o) ==
    IF o.tasks = {} \/ "plan" \in o.tasks THEN "task"
    ELSE IF ~o.executed THEN "execution"
    ELSE IF "stray" \in o.findings THEN "finding"
    ELSE IF "f2" \in o.findings /\ "f1" \notin o.findings THEN "revision"
    ELSE IF ReviewVerdict(o) # "valid" THEN ReviewVerdict(o)
    ELSE IF ~ValidRun(o) THEN "status" ELSE "valid"

Checked(o) ==
    IF Verdict(o) = "valid" THEN o
    ELSE Fallback(o, IF Verdict(o) = "raised" THEN "failure" ELSE "validation")

(***************************************************************************)
(* The steps.                                                              *)
(***************************************************************************)

Step(from) == intake = from
Raises7    == faultsLeft > 0 /\ faultsLeft' = faultsLeft - 1

\* The runtime answers with anything; if it, or a read before it, raises, a
\* failed result takes its place.
RuntimeAnswers ==
    /\ Step("run") /\ intake' = "artifacts"
    /\ \E o \in Outputs :
          /\ received' = o
          /\ output' \in {o, [Fallback(o, "failure") EXCEPT !.artifacts = "none"]}
    /\ UNCHANGED <<repo, returned, multiRun, faultsLeft>>

\* _persist_adaptive_artifacts: the record with the evidence, then the calls.
PersistArtifacts ==
    /\ Step("artifacts") /\ output.artifacts # "conflict"
    /\ intake' = "validate"
    /\ repo' = [repo EXCEPT !.evidence = @ \/ output.artifacts = "new",
                            !.calls = @ \/ output.artifacts = "new"]
    /\ UNCHANGED <<output, received, returned, multiRun, faultsLeft>>
ArtifactsRefused ==
    /\ Step("artifacts") /\ intake' = "recover"
    /\ \/ output.artifacts = "conflict" /\ UNCHANGED <<repo, faultsLeft>>
       \/ /\ output.artifacts # "conflict" /\ Raises7
          /\ repo' \in {repo, [repo EXCEPT !.evidence = @ \/ output.artifacts = "new"]}
    /\ UNCHANGED <<output, received, returned, multiRun>>

ValidateResult ==
    /\ Step("validate") /\ intake' = "tasks" /\ output' = Checked(output)
    /\ UNCHANGED <<received, repo, returned, multiRun, faultsLeft>>

\* _persist_v7_result: the tasks join the stored ones, then the result replaces
\* that of the SDK layer.
StoredTask(o, t) == <<o.origin, t>>
ReplacedKeepsReview(r, o) ==
    [r EXCEPT !.findings = {<<o.origin, f>> : f \in o.findings},
              !.executions = {StoredTask(o, t) : t \in o.tasks},
              !.review = IF o.review # "none" THEN "new" ELSE @]
Replaced(r, o) ==
    [r EXCEPT !.findings = {<<o.origin, f>> : f \in o.findings},
              !.executions = {StoredTask(o, t) : t \in o.tasks},
              !.review = IF o.review # "none" THEN "new" ELSE IF @ = "earlier" THEN "none" ELSE @]

PersistTasks ==
    /\ Step("tasks") /\ intake' = "result"
    /\ repo' = [repo EXCEPT !.tasks = @ \cup {StoredTask(output, t) : t \in output.tasks}]
    /\ UNCHANGED <<output, received, returned, multiRun, faultsLeft>>
PersistResult ==
    /\ Step("result") /\ intake' = "reload"
    /\ repo' = Replaced(repo, output)
    /\ UNCHANGED <<output, received, returned, multiRun, faultsLeft>>
PersistRaises ==
    /\ intake \in {"tasks", "result"} /\ intake' = "recover" /\ Raises7
    /\ UNCHANGED <<output, received, repo, returned, multiRun>>

\* _record_v7_persistence_failure.
Recovery(o) == [Fallback(o, "persistence") EXCEPT !.tasks = {}]
RecordPersistenceFailure ==
    /\ Step("recover")
    /\ \/ /\ intake' = "reload" /\ output' = Recovery(output)
          /\ repo' = [Replaced(repo, Recovery(output)) EXCEPT !.executions = {<<"persistence", "coord">>}]
          /\ UNCHANGED <<returned, faultsLeft>>
       \/ Raises7 /\ intake' = "summary" /\ returned' = NoOutput /\ UNCHANGED <<output, repo>>
    /\ UNCHANGED <<received, multiRun>>

\* _reload_v7_result: what is stored has to be what was written, and a result
\* without a review needs a Coordinator that failed or was skipped.
Agrees(r, o) ==
    /\ \A t \in o.tasks : StoredTask(o, t) \in r.tasks \cap r.executions
    /\ \A f \in o.findings : <<o.origin, f>> \in r.findings
    /\ IF o.review = "none"
       THEN (o.origin = "persistence" \/ "coord" \in o.tasks) /\ o.coord \in {"failed", "skipped"}
       ELSE r.review = "new"
ReloadResult ==
    /\ Step("reload") /\ intake' = "summary"
    /\ \/ Agrees(repo, output) /\ UNCHANGED faultsLeft
          /\ returned' = IF output.review = "none" THEN [output EXCEPT !.status = output.coord] ELSE output
       \/ ~Agrees(repo, output) /\ UNCHANGED faultsLeft /\ returned' = NoOutput
       \/ Raises7 /\ returned' = NoOutput
    /\ UNCHANGED <<output, received, repo, multiRun>>

\* _resolved_run_summary; an adaptive run without a result counts as skipped.
Summary(r, adaptive) == IF r # NoOutput THEN r.status ELSE IF adaptive THEN "skipped" ELSE "none"
ResolveSummary ==
    /\ Step("summary") /\ intake' = "done"
    /\ \E adaptive \in BOOLEAN : multiRun' = Summary(returned, adaptive)
    /\ UNCHANGED <<output, received, repo, returned, faultsLeft>>

\* The deterministic review, or the SDK review of an earlier run, is stored.
IntakeInit ==
    /\ intake = "run" /\ output = NoOutput /\ received = NoOutput /\ returned = NoOutput
    /\ multiRun = "none" /\ faultsLeft = IntakeFaults
    /\ \E old \in {"none", "v5", "earlier"} :
          repo = [tasks |-> {<<"plan", "coord">>}, review |-> old, evidence |-> FALSE, calls |-> FALSE,
                  executions |-> IF old = "earlier" THEN {<<"earlier", "coord">>} ELSE {},
                  findings |-> IF old = "earlier" THEN {<<"earlier", "f1">>} ELSE {}]
IntakeNext == \/ RuntimeAnswers \/ PersistArtifacts \/ ArtifactsRefused \/ ValidateResult
              \/ PersistTasks \/ PersistResult \/ PersistRaises \/ RecordPersistenceFailure
              \/ ReloadResult \/ ResolveSummary
IntakeSpec == IntakeInit /\ [][IntakeNext]_intakeVars

(***************************************************************************)
(* Properties.                                                             *)
(***************************************************************************)

\* Type invariant of the intake.
IntakeTypeOK ==
    /\ intake \in {"run", "artifacts", "validate", "tasks", "result", "recover", "reload", "summary", "done"}
    /\ repo.review \in {"none", "v5", "earlier", "new"} /\ repo.evidence \in BOOLEAN /\ repo.calls \in BOOLEAN
    /\ repo.tasks \subseteq Origins \X {"coord", "first", "again"}
    /\ repo.executions \subseteq Origins \X {"coord", "first", "again"}
    /\ repo.findings \subseteq Origins \X {"f1", "f2"}
    /\ multiRun \in MultiStatus \cup {"none"} /\ faultsLeft \in 0..IntakeFaults

\* What the phase goes on with is what the repository holds: no finding, execution
\* or SDK review beyond it, that of an earlier run included.
ReturnedIsStored ==
    returned # NoOutput =>
        /\ repo.findings = {<<returned.origin, f>> : f \in returned.findings}
        /\ returned.origin # "persistence" => repo.executions = {StoredTask(returned, t) : t \in returned.tasks}
        /\ IF returned.review = "none" THEN repo.review \in {"none", "v5"} ELSE repo.review = "new"

\* Of a result that breaks a contract nothing but its artifacts is ever stored.
RejectedLeavesNoTrace ==
    received # NoOutput /\ Verdict(received) # "valid" =>
        /\ repo.review # "new"
        /\ \A x \in repo.executions \cup repo.tasks : x[1] # "runtime"
        /\ \A f \in repo.findings : f[1] = "earlier"

\* An investigation that says its agents completed, or did so partly, has their
\* review and findings in the store, whichever write failed on the way.
SummaryIsBacked ==
    multiRun \in {"completed", "partial"} => repo.review = "new" /\ repo.findings # {}

\* What the run goes on with and what the investigation says of its agents is stored,
\* and only if it kept the contract (_record_v7_coordination_async).
IntakeConsistent ==
    IntakeTypeOK /\ ReturnedIsStored /\ RejectedLeavesNoTrace /\ SummaryIsBacked
=============================================================================

----------------------------- MODULE MCDiagnosis -----------------------------
(***************************************************************************)
(* The diagnosis of one run, one question per scope.  V11: two             *)
(* investigators that work side by side and are interrupted, and one       *)
(* investigator followed by a supplemental round, interrupted anywhere.    *)
(* V10: specialists that disagree, specialists and attempts that fail,     *)
(* specialists with tools, a token budget, and no model at all.  The V4    *)
(* plan of three tasks with any dependencies, and the intake of a result   *)
(* with at most one defect.  In a scope the variables of the others stay   *)
(* as they start.                                                          *)
(***************************************************************************)
EXTENDS V11Workflow, AgentsRuntime, TaskEngine, ResultIntake

VARIABLE scope

V11Scopes == {"parallel", "supplement"}
V10Scopes == {"conflict", "failing", "tools", "budget", "unconfigured"}
SmallScopes == {"engine", "intake"}

OneTask == CHOOSE t \in FirstTasks : TRUE

\* The supplemental round needs no second first-round task, no failing tool and
\* one call per task; the parallel round no retried Critic and no crash after
\* its commit.
V11Narrow ==
    /\ scope = "parallel" => /\ session'.tasks \cap ExtraTasks = {}
                             /\ \A e \in session'.executions : e.attempt = 1
                             /\ runState' = "interrupted" => phases <= 4
    /\ scope = "supplement" => /\ session'.tasks \cap FirstTasks \subseteq {OneTask}
                               /\ \A c \in Calls : called'[c] # "failed"
                               /\ \A t \in ExtraTasks, n \in 2..PerTask : called'[<<t, n>>] = "none"

\* One specialist always answers with a plain draft, except where they disagree.
Steady == CHOOSE a \in Specialists : TRUE
Plain  == [claim |-> "base", ref |-> "seed"]

DraftsIn(a) ==
    IF scope = "conflict" THEN {Plain, [Plain EXCEPT !.claim = "other"]}
    ELSE IF a = Steady THEN {Plain}
    ELSE IF scope = "tools" THEN {Plain, [Plain EXCEPT !.ref = "tool"]}
    ELSE {d \in SpecialistDrafts : d.ref # "tool"}
Unfailing(a) == scope = "conflict" \/ a = Steady

TurnNarrow(t) ==
    /\ \A a \in Specialists :
          /\ t.drafts[a] \in DraftsIn(a) \cup {NoDraft}
          /\ Unfailing(a) /\ t.calls[a] = "done" => t.drafts[a] # NoDraft
          /\ Unfailing(a) /\ t.stage \in {"synth", "return"} /\ a \in t.names => a \in t.picked
    /\ scope = "conflict" => t.outcome \in {"none", "proposal"}

\* Attempts are lost between phases, in the middle of a turn only where tools
\* leave something behind; the fence only where specialists fail.
V10Narrow ==
    /\ legacyPhase = 2 => scope = "conflict" \/ state'.baseline = "none"
    /\ scope # "tools" /\ legacyRun' = "interrupted" /\ Running10 => handler = "idle" \/ ~fence
    /\ turn'.stage # "none" => TurnNarrow(turn')
    /\ fence' = FALSE => scope = "failing"

\* A result breaks one contract at a time.
Defects(o) ==
    (IF o.executed THEN {} ELSE {"executed"})
        \cup (IF o.tasks = {} \/ "plan" \in o.tasks THEN {"tasks"} ELSE {})
        \cup (IF "stray" \in o.findings \/ o.findings = {"f2"} THEN {"findings"} ELSE {})
        \cup (IF o.review \in {"none", "sound"} THEN {} ELSE {"review"})
        \cup (IF o.artifacts = "conflict" THEN {"artifacts"} ELSE {})
IntakeNarrow == received' # NoOutput => Cardinality(Defects(received')) <= 1

MCInit ==
    /\ WorkflowInit /\ LegacyInit /\ EngineInit /\ IntakeInit
    /\ scope \in V11Scopes \cup V10Scopes \cup SmallScopes
    /\ setting.configured = (scope # "unconfigured")
    /\ setting.adaptive = (scope = "tools")
    /\ setting.metered = (scope = "budget")
    /\ saved.stored # "none" => scope \in {"failing", "unconfigured"}
    /\ scope \notin V10Scopes => setting.prompt = "v9"
    /\ scope # "engine" => \A t \in PlanTasks : dependsOn[t] = {}
    /\ scope # "intake" => repo.review = "none"
MCNext ==
    /\ UNCHANGED scope
    /\ \/ /\ scope \in V11Scopes /\ WorkflowNext /\ V11Narrow
          /\ UNCHANGED <<legacyVars, engineVars, intakeVars>>
       \/ /\ scope \in V10Scopes /\ LegacyNext /\ V10Narrow
          /\ UNCHANGED <<v11Vars, engineVars, intakeVars>>
       \/ /\ scope = "engine" /\ EngineNext
          /\ UNCHANGED <<v11Vars, legacyVars, intakeVars>>
       \/ /\ scope = "intake" /\ IntakeNext /\ IntakeNarrow
          /\ UNCHANGED <<v11Vars, legacyVars, engineVars>>
MCSpec == MCInit /\ [][MCNext]_<<v11Vars, legacyVars, engineVars, intakeVars, scope>>
=============================================================================

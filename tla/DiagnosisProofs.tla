---------------------------- MODULE DiagnosisProofs ----------------------------
(***************************************************************************)
(* Proofs about the two diagnosis workflows, V11Workflow and, at the end,  *)
(* AgentsRuntime, its predecessor.                                         *)
(*                                                                         *)
(* About V11Workflow: for any tasks, any budget and any number of          *)
(* resumes, what a run commits fits together, its tool calls stay within   *)
(* the budget, what it publishes is justified, and the validation throws   *)
(* away no run whose actors did their part.                                *)
(*                                                                         *)
(* The argument: Stage says what a projection holds after so many phases,  *)
(* of the committed projection and of the copy a phase works on alike; a   *)
(* run that was never resumed also remembers (Remembers) every loss the    *)
(* projection tells of, and which round was the last.  The two make the    *)
(* validation pass unless an actor failed.  While a phase works, the calls *)
(* that were made are those of the copy and those admitted since, so the   *)
(* capacity of a task is what is really left; calls of a task are numbered *)
(* one by one, so none of the first round is beyond the limit of its round.*)
(*                                                                         *)
(* The argument about the V10 run: Reached says what a result holds after  *)
(* so many phases, of the committed one and of the copy in memory alike;   *)
(* until the synthesis nothing is published, and every specialist has a    *)
(* finding or a failure on record.  What a turn opened belongs to its      *)
(* members unless the deadline passed or the fence was lost, and the       *)
(* tokens a turn counted are in the durable events.                        *)
(***************************************************************************)
EXTENDS V11Workflow, AgentsRuntime, FiniteSetTheorems, TLAPS

-----------------------------------------------------------------------------
(* Typing *)

Memories == [noted: BOOLEAN, failures: SUBSET Executions, terminal: BOOLEAN, rounds: 0..2,
             admitted: SUBSET Calls]
Workers  == [pc: {"run", "failed", "rejected", "done"}, got: SUBSET Calls, draft: SUBSET Evidence,
             dropped: BOOLEAN]
Owners   == UNION {[X -> AllTasks] : X \in SUBSET ExtraTasks}
Rulings  == UNION {[X -> Verdicts] : X \in SUBSET AllTasks}
Crews    == UNION {[X -> Workers] : X \in SUBSET AllTasks}

WorkflowTyped == WorkflowTypeOK /\ memory \in Memories /\ work \in Crews

-----------------------------------------------------------------------------
(* The inductive invariant *)

Spent      == {c \in Calls : called[c] # "none"}
FirstSpent == {c \in Spent : c[1] \in FirstTasks}
Extra(p)   == p.tasks \cap ExtraTasks
Planned(p) == p.tasks \cap FirstTasks
Grounded(p, evidence) == \A c \in p.candidates : c.support \subseteq evidence

\* Every failure is made good by a later attempt; some actor failed.
Mended(p) ==
    \A e \in p.executions : e.status = "failed" =>
        \E x \in p.executions : /\ x.status = "completed" /\ x.attempt >= e.attempt
                                /\ x.actor = e.actor /\ x.round = e.round
Faulty(p) == \E e \in p.executions : e.status = "failed" /\ e.actor # "validator"
Unvalidated(p) == \A e \in p.executions : e.actor # "validator"

LastRound(p) == IF Extra(p) # {} THEN 2 ELSE 1
Ran(p, actor) ==
    \E e \in p.executions : e.actor = actor /\ e.status = "completed" /\ e.round = LastRound(p)

\* The Critic's decision about all candidates.
Decided(p) ==
    /\ DOMAIN p.verdicts = Names(p) /\ p.decision.published \subseteq Names(p)
    /\ p.decision.action \in {"conclude", "inconclusive"}
    /\ p.decision.action = "inconclusive" => p.decision.published = {} /\ ~p.decision.unsure
    /\ \A t \in p.decision.published :
         p.verdicts[t] = "accept" \/ (p.verdicts[t] = "doubt" /\ p.decision.unsure)
    /\ p.decision.unsure =>
         \A c \in p.candidates : c.task \in p.decision.published => Cardinality(c.support) >= 2
    /\ Ran(p, "critic")

\* What the validation has let pass.
Justified(p) ==
    \A c \in p.candidates : c.task \in p.decision.published =>
        /\ p.verdicts[c.task] \in {"accept", "doubt"}
        /\ p.diagnosis = "partial" => Cardinality(c.support) >= 2

\* The supplemental batch of projection p, after n calls of the first round.
BatchFits(p, n) ==
    /\ Extra(p) = DOMAIN p.owner
    /\ \A t \in DOMAIN p.owner : p.owner[t] \in Names(p) \cap DOMAIN p.verdicts
    /\ Extra(p) # {} => /\ p.reviewRound = 1 => p.decision = Undecided
                        /\ Cardinality(Extra(p)) <= ToolBudget - n

\* The Critic has decided: at once, or after the supplemental round.
CriticStands(p, d) ==
    p.plan # "stop" /\ d >= 5 =>
         /\ p.review = "open"
         /\ (Extra(p) = {} \/ d >= 7) => Decided(p)
         /\ Extra(p) # {} /\ d >= 7 => p.reviewRound = 2

\* The plan and the diagnosis, after d phases.
PlanStands(p, d) ==
    /\ d <= 2 => p.plan = "none" /\ p.tasks = {}
    /\ d <= 4 => Extra(p) = {} /\ (p.plan = "stop" \/ p.decision = Undecided)
    /\ p.plan = "stop" =>
         p.tasks = {} /\ p.decision.published = {} /\ p.diagnosis \in {"none", "inconclusive"}

DiagnosisStands(p, d) ==
    /\ p.plan # "stop" /\ d <= 7 => p.diagnosis = "none"
    /\ p.plan # "stop" /\ d >= 8 =>
         /\ p.decision.unsure => p.diagnosis = "partial"
         /\ p.diagnosis \in {"complete", "partial"} => p.decision.action = "conclude"
    /\ p.diagnosis = "complete" => Mended(p)
    /\ d >= 9 => Justified(p)

\* Projection p of a run that has not failed, after d phases and n first calls.
Stage(p, d, n) ==
    /\ Unvalidated(p) /\ BatchFits(p, n) /\ PlanStands(p, d) /\ CriticStands(p, d)
    /\ DiagnosisStands(p, d)

\* An investigator of whom an execution record will tell a failure.
Troubled(k) == k.pc \in {"failed", "rejected"} \/ (k.pc = "done" /\ k.dropped)
InTrouble   == step = "round" /\ \E t \in DOMAIN work : Troubled(work[t])

\* What a run that was never resumed remembers of projection p after d phases.
Remembers(p, m, d, trouble) ==
    /\ m.failures \subseteq {e \in p.executions : e.status = "failed"}
    /\ m.noted => Faulty(p) \/ trouble
    /\ m.rounds = 2 <=> (d >= 6 /\ Extra(p) # {})
    /\ p.plan # "stop" /\ d >= 8 =>
         /\ Ran(p, "lead")
         /\ p.diagnosis = "partial" => Faulty(p) \/ p.decision.unsure

Applied == IF step = "output" THEN phases + 1 ELSE phases
FirstCount == Cardinality(FirstSpent)
PlanFits(p) == IsFiniteSet(Planned(p)) /\ Cardinality(Planned(p)) <= MaxInvestigators

\* Where the run stands.
ControlFits ==
    /\ runState \in {"running", "interrupted"} => phases <= 10
    /\ runState # "running" => step = "idle"
    /\ runState = "interrupted" => resumes < MaxResumes
    /\ step = "round" => /\ phases \in {3, 5} /\ DOMAIN work = Round(RoundOf)
                         /\ DOMAIN work # {} /\ session.plan # "stop"
    /\ phases = 0 => memory = NoMemory
    /\ phases <= 2 => Spent = {}

\* The committed projection.
DurableFits ==
    /\ (durable.status = "running") <=> runState \in {"running", "interrupted"}
    /\ durable.status = "running" => Stage(durable, phases, FirstCount)
    /\ runState = "completed" =>
         /\ durable.status = "completed" /\ durable.diagnosis # "none" /\ Justified(durable)
         /\ durable.diagnosis = "complete" => Mended(durable)
    /\ resumes = 0 /\ phases >= 9 => Faulty(durable) \/ Unvalidated(durable)
    /\ Grounded(durable, durable.evidence)
    /\ PlanFits(durable)

\* The attempt's copy, while its run is under way.
CopyFits ==
    /\ session.status # "failed" =>
         /\ Stage(session, Applied, FirstCount)
         /\ resumes = 0 => Remembers(session, memory, Applied, InTrouble)
         /\ session.status = "completed" <=> Applied = 11
         /\ session.status = "completed" => session.diagnosis # "none"
    /\ session.status = "failed" =>
         /\ step = "output"
         /\ resumes = 0 /\ phases >= 8 => Faulty(session) \/ Unvalidated(session)
    /\ Grounded(session, IF step = "idle" THEN durable.evidence ELSE session.evidence)
    /\ PlanFits(session)
    /\ phases >= 3 => Planned(session) = Planned(durable)
    /\ step = "round" =>
         \A t \in DOMAIN work : work[t].pc = "done" => work[t].draft \subseteq session.evidence
SessionFits == runState = "running" => CopyFits

\* Calls and their budget.
BudgetFits ==
    /\ IsFiniteSet(Spent) /\ Cardinality(Spent) <= ToolBudget
    /\ Spent = durable.calls /\ session.calls \subseteq Spent /\ memory.admitted \subseteq Spent
    /\ step # "idle" => Spent \subseteq session.calls \cup memory.admitted
    /\ FirstSpent \subseteq Planned(durable) \X (1..RoundToolLimit(1))

V11Inv == WorkflowTyped /\ ControlFits /\ DurableFits /\ SessionFits /\ BudgetFits

-----------------------------------------------------------------------------
(* What the steps share *)

\* Order names the phase that follows.
LEMMA PhaseIs ==
    ASSUME phases \in 0..10
    PROVE  /\ Phase = "intake" <=> phases = 0
           /\ Phase = "evidence_collection" <=> phases = 1
           /\ Phase = "lead_planning" <=> phases = 2
           /\ Phase = "investigator_round_1" <=> phases = 3
           /\ Phase = "critic_review" <=> phases = 4
           /\ Phase = "investigator_round_2" <=> phases = 5
           /\ Phase = "critic_reconciliation" <=> phases = 6
           /\ Phase = "lead_adjudication" <=> phases = 7
           /\ Phase = "result_validation" <=> phases = 8
           /\ Phase = "report_generation" <=> phases = 9
           /\ Phase = "finalize" <=> phases = 10
<1>1. CASE phases = 0 BY <1>1 DEF Phase, Order
<1>2. CASE phases = 1 BY <1>2 DEF Phase, Order
<1>3. CASE phases = 2 BY <1>3 DEF Phase, Order
<1>4. CASE phases = 3 BY <1>4 DEF Phase, Order
<1>5. CASE phases = 4 BY <1>5 DEF Phase, Order
<1>6. CASE phases = 5 BY <1>6 DEF Phase, Order
<1>7. CASE phases = 6 BY <1>7 DEF Phase, Order
<1>8. CASE phases = 7 BY <1>8 DEF Phase, Order
<1>9. CASE phases = 8 BY <1>9 DEF Phase, Order
<1>10. CASE phases = 9 BY <1>10 DEF Phase, Order
<1>11. CASE phases = 10 BY <1>11 DEF Phase, Order
<1> QED BY <1>1, <1>2, <1>3, <1>4, <1>5, <1>6, <1>7, <1>8, <1>9, <1>10, <1>11

\* What a phase reads before it starts and what an attempt copies back leave
\* the parts of a projection that the stages are about.
SameWork(p, q) ==
    /\ q.plan = p.plan /\ q.tasks = p.tasks /\ q.owner = p.owner
    /\ q.candidates = p.candidates /\ q.verdicts = p.verdicts
    /\ q.reviewRound = p.reviewRound /\ q.decision = p.decision
    /\ q.diagnosis = p.diagnosis /\ q.review = p.review /\ q.executions = p.executions

LEMMA SameStage ==
    ASSUME NEW p, NEW q, NEW d, NEW n, SameWork(p, q), Stage(p, d, n)
    PROVE  Stage(q, d, n)
<1>1. Unvalidated(q) /\ BatchFits(q, n) /\ PlanStands(q, d)
  BY DEF SameWork, Stage, Unvalidated, BatchFits, PlanStands, Extra, Names
<1>2. CriticStands(q, d)
  BY DEF SameWork, Stage, CriticStands, Decided, Extra, Names, Ran, LastRound
<1>3. DiagnosisStands(q, d)
  BY DEF SameWork, Stage, DiagnosisStands, Justified, Mended
<1> QED BY <1>1, <1>2, <1>3 DEF Stage

LEMMA SameMemory ==
    ASSUME NEW p, NEW q, NEW m, NEW d, NEW b, SameWork(p, q), Remembers(p, m, d, b)
    PROVE  Remembers(q, m, d, b)
BY DEF SameWork, Remembers, Faulty, Ran, LastRound, Extra

LEMMA SameParts ==
    ASSUME NEW p, NEW q, SameWork(p, q)
    PROVE  /\ Planned(q) = Planned(p) /\ Extra(q) = Extra(p) /\ Names(q) = Names(p)
           /\ Faulty(q) <=> Faulty(p)
           /\ Unvalidated(q) <=> Unvalidated(p)
           /\ Justified(q) <=> Justified(p)
           /\ Mended(q) <=> Mended(p)
           /\ PlanFits(q) <=> PlanFits(p)
           /\ \A e : Grounded(q, e) <=> Grounded(p, e)
BY DEF SameWork, Planned, Extra, Names, Faulty, Unvalidated, Justified, Mended, PlanFits, Grounded

\* The parts of a projection, by name.
LEMMA ProjectionsAre ==
    Projections = [status: {"running", "completed", "failed"}, plan: {"none", "investigate", "stop"},
                   tasks: SUBSET AllTasks, owner: Owners, evidence: SUBSET Evidence,
                   calls: SUBSET Calls, candidates: SUBSET Candidates, verdicts: Rulings,
                   reviewRound: 0..2, decision: Decisions, diagnosis: Diagnosis,
                   review: {"none", "open", "failed"}, executions: SUBSET Executions,
                   report: BOOLEAN, summary: {"none", "completed", "partial", "failed"}]
BY DEF Projections, Owners, Rulings

\* The first steps of a run.
LEMMA FreshIs ==
    /\ Fresh \in Projections /\ NoMemory \in Memories /\ <<>> \in Crews
    /\ Grounded(Fresh, {}) /\ PlanFits(Fresh) /\ Planned(Fresh) = {}
    /\ \A d \in 0..2, n \in Nat : Stage(Fresh, d, n)
    /\ \A d \in 0..2, b \in BOOLEAN : Remembers(Fresh, NoMemory, d, b)
<1>1. <<>> \in Owners /\ <<>> \in Rulings /\ <<>> \in Crews /\ DOMAIN <<>> = {}
  <2>1. <<>> = [t \in {} |-> 0] OBVIOUS
  <2> QED BY <2>1 DEF Owners, Rulings, Crews
<1>2. Undecided \in Decisions BY DEF Undecided, Decisions
<1>3. Fresh \in Projections
  BY <1>1, <1>2, ProjectionsAre DEF Fresh, Diagnosis
<1>4. NoMemory \in Memories BY DEF NoMemory, Memories
<1>5. Grounded(Fresh, {}) /\ PlanFits(Fresh) /\ Planned(Fresh) = {}
  <2>1. Grounded(Fresh, {}) /\ Planned(Fresh) = {} BY DEF Grounded, Fresh, Planned
  <2> QED BY <2>1, FS_EmptySet, WorkflowAssumption DEF PlanFits
<1>6. ASSUME NEW d \in 0..2, NEW n \in Nat PROVE Stage(Fresh, d, n)
  BY <1>1 DEF Stage, Fresh, Unvalidated, BatchFits, PlanStands, CriticStands, DiagnosisStands, Extra
<1>7. ASSUME NEW d \in 0..2, NEW b \in BOOLEAN PROVE Remembers(Fresh, NoMemory, d, b)
  BY DEF Remembers, Fresh, NoMemory, Extra
<1> QED BY <1>1, <1>3, <1>4, <1>5, <1>6, <1>7

LEMMA CallsFinite ==
    /\ IsFiniteSet(AllTasks) /\ IsFiniteSet(Calls) /\ Cardinality(Calls) \in Nat
    /\ Seed \in Evidence /\ Calls \subseteq Evidence
<1>1. IsFiniteSet(AllTasks) BY WorkflowAssumption, FS_Union DEF AllTasks
<1>2. IsFiniteSet(1..PerTask) BY WorkflowAssumption, FS_Interval
<1>3. IsFiniteSet(Calls) BY <1>1, <1>2, FS_Product DEF Calls
<1> QED BY <1>1, <1>3, FS_CardinalityType DEF Evidence

LEMMA StartHolds == WorkflowInit => V11Inv
<1> SUFFICES ASSUME WorkflowInit PROVE V11Inv OBVIOUS
<1>1. Spent = {} /\ FirstSpent = {} BY DEF WorkflowInit, Spent, FirstSpent
<1>2. FirstCount \in Nat BY <1>1, FS_EmptySet DEF FirstCount
<1>3. WorkflowTyped
  BY FreshIs, WorkflowAssumption DEF WorkflowInit, WorkflowTyped, WorkflowTypeOK, NoMemory, Order
<1>4. ControlFits BY <1>1 DEF ControlFits, WorkflowInit
<1>5. DurableFits
  <2>1. Fresh.status = "running" /\ Grounded(Fresh, Fresh.evidence)
    BY DEF Fresh, Grounded
  <2>2. Stage(Fresh, 0, FirstCount) BY FreshIs, <1>2
  <2> QED BY <2>1, <2>2, FreshIs DEF DurableFits, WorkflowInit
<1>6. SessionFits
  <2>1. Applied = 0 /\ InTrouble \in BOOLEAN /\ Fresh.status = "running"
    BY DEF Applied, InTrouble, WorkflowInit, Fresh
  <2>2. Grounded(Fresh, durable.evidence) BY DEF Grounded, Fresh
  <2> QED BY <2>1, <2>2, <1>2, FreshIs DEF SessionFits, CopyFits, WorkflowInit
<1>7. BudgetFits
  <2>1. Fresh.calls = {} /\ NoMemory.admitted = {} BY DEF Fresh, NoMemory
  <2> QED BY <2>1, <1>1, FS_EmptySet, WorkflowAssumption DEF BudgetFits, WorkflowInit
<1> QED BY <1>3, <1>4, <1>5, <1>6, <1>7 DEF V11Inv

-----------------------------------------------------------------------------
(* The end of a handler *)

\* What holds while a phase works.
LEMMA AtWork ==
    ASSUME V11Inv, runState = "running", step \in {"phase", "round"}
    PROVE  /\ session \in Projections /\ memory \in Memories /\ session.status = "running"
           /\ phases \in 0..10 /\ FirstCount \in Nat /\ resumes \in Nat
           /\ Stage(session, phases, FirstCount)
           /\ resumes = 0 => Remembers(session, memory, phases, InTrouble)
           /\ Grounded(session, session.evidence) /\ PlanFits(session)
           /\ phases >= 3 => Planned(session) = Planned(durable)
           /\ session.calls \subseteq Spent /\ memory.admitted \subseteq Spent
           /\ Spent \subseteq session.calls \cup memory.admitted
           /\ step = "phase" => ~InTrouble
<1>1. session \in Projections /\ memory \in Memories /\ phases \in 0..10 /\ resumes \in Nat
  BY WorkflowAssumption DEF V11Inv, WorkflowTyped, WorkflowTypeOK, ControlFits, Order
<1>2. CopyFits /\ Applied = phases BY DEF V11Inv, SessionFits, Applied
<1>3. FirstCount \in Nat
  <2>1. IsFiniteSet(FirstSpent) BY FS_Subset DEF V11Inv, BudgetFits, FirstSpent
  <2> QED BY <2>1, FS_CardinalityType DEF FirstCount
<1>4. session.status = "running"
  <2>1. session.status \in {"running", "completed", "failed"} BY <1>1 DEF Projections
  <2> QED BY <2>1, <1>2, <1>1 DEF CopyFits
<1>5. step = "phase" => ~InTrouble BY DEF InTrouble
<1> QED BY <1>1, <1>2, <1>3, <1>4, <1>5 DEF CopyFits, V11Inv, BudgetFits

\* What a handler leaves behind: projection q and memory m.
OutputFits(q, m) ==
    /\ q.status # "failed" =>
         /\ Stage(q, phases + 1, FirstCount)
         /\ resumes = 0 => Remembers(q, m, phases + 1, FALSE)
         /\ q.status = "completed" <=> phases = 10
         /\ q.status = "completed" => q.diagnosis # "none"
    /\ q.status = "failed" /\ resumes = 0 /\ phases >= 8 => Faulty(q) \/ Unvalidated(q)
    /\ Grounded(q, q.evidence) /\ PlanFits(q)
    /\ phases >= 3 => Planned(q) = Planned(durable)
    /\ q.calls \subseteq Spent /\ m.admitted \subseteq Spent
    /\ Spent \subseteq q.calls \cup m.admitted
    /\ phases = 0 => m = NoMemory

LEMMA OutputStep ==
    ASSUME V11Inv, runState = "running", step \in {"phase", "round"},
           NEW q \in Projections, NEW m \in Memories, OutputFits(q, m),
           session' = q, memory' = m, step' = "output",
           UNCHANGED <<durable, phases, called, runState, resumes, work>>
    PROVE  V11Inv'
<1>1. Spent' = Spent /\ FirstSpent' = FirstSpent /\ FirstCount' = FirstCount
  BY DEF Spent, FirstSpent, FirstCount
<1>2. phases \in 0..10 BY AtWork
<1>3. WorkflowTyped' BY DEF V11Inv, WorkflowTyped, WorkflowTypeOK, Memories
<1>4. ControlFits' BY <1>1 DEF V11Inv, ControlFits, OutputFits
<1>5. DurableFits' BY <1>1 DEF V11Inv, DurableFits
<1>6. SessionFits'
  <2>1. Applied' = phases + 1 /\ ~InTrouble' BY DEF Applied, InTrouble
  <2>2. q.status # "failed" =>
          /\ Stage(session', Applied', FirstCount')
          /\ session'.status = "completed" <=> Applied' = 11
          /\ session'.status = "completed" => session'.diagnosis # "none"
    <3> HAVE q.status # "failed"
    <3>1. /\ Stage(q, phases + 1, FirstCount)
          /\ q.status = "completed" <=> phases = 10
          /\ q.status = "completed" => q.diagnosis # "none"
      BY DEF OutputFits
    <3>2. Stage(session', Applied', FirstCount') BY <3>1, <2>1, <1>1
    <3> QED BY <3>1, <3>2, <2>1, <1>2
  <2>3. q.status # "failed" /\ resumes' = 0 => Remembers(session', memory', Applied', InTrouble')
    <3> HAVE q.status # "failed" /\ resumes' = 0
    <3>1. Remembers(q, m, phases + 1, FALSE) BY DEF OutputFits
    <3> QED BY <3>1, <2>1 DEF Remembers
  <2>4. Grounded(session', session'.evidence) /\ PlanFits(session)' BY DEF OutputFits, PlanFits, Planned
  <2>5. phases' >= 3 => Planned(session)' = Planned(durable)' BY DEF OutputFits, Planned
  <2> QED BY <2>2, <2>3, <2>4, <2>5 DEF SessionFits, CopyFits, OutputFits
<1>7. BudgetFits' BY <1>1 DEF V11Inv, BudgetFits, OutputFits
<1> QED BY <1>3, <1>4, <1>5, <1>6, <1>7 DEF V11Inv

\* The summary and the restored failures change nothing else.
LEMMA SummaryIs ==
    ASSUME NEW p \in Projections, NEW m \in Memories
    PROVE  /\ Summarised(p, m) \in Projections /\ SameWork(p, Summarised(p, m))
           /\ Summarised(p, m).status = p.status /\ Summarised(p, m).calls = p.calls
           /\ Summarised(p, m).evidence = p.evidence
BY DEF Summarised, Projections, SameWork

LEMMA RestoredIs ==
    ASSUME NEW p \in Projections, NEW m \in Memories
    PROVE  /\ Restored(m, p) \in Memories /\ Restored(m, p).admitted = m.admitted
           /\ Restored(m, p).noted = m.noted /\ Restored(m, p).rounds = m.rounds
           /\ Restored(m, p).failures
                = (m.failures \ Resolved(p.executions))
                    \cup ({e \in p.executions : e.status = "failed"} \ Resolved(p.executions))
           /\ m.failures \subseteq {e \in p.executions : e.status = "failed"} =>
                Restored(m, p).failures \subseteq {e \in p.executions : e.status = "failed"}
<1>1. p.executions \subseteq Executions BY DEF Projections
<1> QED BY <1>1 DEF Restored, Memories

LEMMA RestoredRemembers ==
    ASSUME NEW p \in Projections, NEW m \in Memories, NEW d \in Nat, NEW b \in BOOLEAN,
           Remembers(p, m, d, b)
    PROVE  Remembers(p, Restored(m, p), d, b)
BY RestoredIs DEF Remembers

LEMMA DoneStep ==
    ASSUME V11Inv, runState = "running", step \in {"phase", "round"}, phases # 0,
           NEW p \in Projections, NEW m \in Memories, OutputFits(p, m), Done(p, m)
    PROVE  V11Inv'
<1> DEFINE mm == Restored(m, p)
           q  == Summarised(p, mm)
<1>1. mm \in Memories /\ mm.admitted = m.admitted BY RestoredIs
<1>2. /\ q \in Projections /\ SameWork(p, q)
      /\ q.status = p.status /\ q.calls = p.calls /\ q.evidence = p.evidence
  BY <1>1, SummaryIs
<1>3. phases \in 0..10 BY AtWork
<1>4. resumes = 0 /\ p.status # "failed" => Remembers(p, mm, phases + 1, FALSE)
  <2> HAVE resumes = 0 /\ p.status # "failed"
  <2>1. Remembers(p, m, phases + 1, FALSE) BY DEF OutputFits
  <2>2. phases + 1 \in Nat /\ FALSE \in BOOLEAN BY <1>3
  <2> QED BY <2>1, <2>2, RestoredRemembers, Zenon
<1>5. session' = q /\ memory' = mm BY DEF Done
<1> HIDE DEF mm, q
<1>6. q.diagnosis = p.diagnosis BY <1>2 DEF SameWork
<1>7. OutputFits(q, mm)
  <2>1. /\ p.status # "failed" => Stage(q, phases + 1, FirstCount)
        /\ p.status # "failed" /\ resumes = 0 => Remembers(q, mm, phases + 1, FALSE)
    BY <1>2, <1>4, SameStage, SameMemory DEF OutputFits
  <2>2. /\ Planned(q) = Planned(p) /\ PlanFits(q) <=> PlanFits(p)
        /\ Faulty(q) <=> Faulty(p)
    BY <1>2, SameParts
  <2>3. /\ Unvalidated(q) <=> Unvalidated(p)
        /\ Grounded(q, p.evidence) <=> Grounded(p, p.evidence)
    BY <1>2, SameParts
  <2> QED BY <1>1, <1>2, <1>6, <2>1, <2>2, <2>3 DEF OutputFits
<1>8. step' = "output" /\ UNCHANGED <<durable, phases, called, runState, resumes, work>>
  BY DEF Done
<1> QED BY <1>1, <1>2, <1>5, <1>7, <1>8, OutputStep

\* A phase that fails the run: projection p is kept for the audit.
LEMMA FailsStep ==
    ASSUME V11Inv, runState = "running", step \in {"phase", "round"}, phases # 0,
           NEW p \in Projections, NEW preserve \in BOOLEAN, Fails(p, preserve),
           p.calls = session.calls, Grounded(p, p.evidence), Planned(p) = Planned(session),
           resumes = 0 /\ phases >= 8 => Faulty(p) \/ Unvalidated(p)
    PROVE  V11Inv'
<1> DEFINE q == Terminal(p, preserve)
           m == TerminalMemory(memory)
<1>1. memory \in Memories /\ session \in Projections BY AtWork
<1>2. m \in Memories /\ m.admitted = memory.admitted BY <1>1 DEF TerminalMemory, Memories
<1>3. <<>> \in Rulings /\ Undecided \in Decisions
  <2>1. Fresh.verdicts = <<>> /\ Fresh.decision = Undecided BY DEF Fresh
  <2> QED BY <2>1, FreshIs DEF Projections, Rulings
<1>4. q \in Projections
  <2> DEFINE candidates == IF preserve THEN p.candidates ELSE {}
             verdicts   == IF preserve THEN p.verdicts ELSE <<>>
             review     == IF p.review = "none" THEN p.review ELSE "failed"
  <2>1. candidates \subseteq Candidates /\ verdicts \in Rulings /\ review \in {"none", "failed"}
    BY <1>3, ProjectionsAre
  <2>2. q = [p EXCEPT !.status = "failed", !.decision = Undecided, !.diagnosis = "none",
                      !.review = review, !.candidates = candidates, !.verdicts = verdicts]
    BY DEF Terminal
  <2> HIDE DEF candidates, verdicts, review, q
  <2>3. [p EXCEPT !.status = "failed", !.decision = Undecided, !.diagnosis = "none"] \in Projections
    BY <1>3, ProjectionsAre DEF Diagnosis
  <2>4. ASSUME NEW r \in Projections
        PROVE  [r EXCEPT !.review = review, !.candidates = candidates, !.verdicts = verdicts]
                 \in Projections
    BY <2>1, ProjectionsAre
  <2> QED BY <2>2, <2>3, <2>4
<1>5. /\ q.status = "failed" /\ q.calls = p.calls /\ q.evidence = p.evidence /\ q.tasks = p.tasks
      /\ q.executions = p.executions /\ q.candidates \subseteq p.candidates
  BY DEF Terminal, Projections
<1>6. Done(q, m) BY DEF Fails
<1> HIDE DEF q, m
<1>7. OutputFits(q, m)
  <2>1. Grounded(q, q.evidence) BY <1>5 DEF Grounded
  <2>2. Planned(q) = Planned(session) /\ PlanFits(q)
    <3>1. Planned(q) = Planned(p) BY <1>5 DEF Planned
    <3>2. PlanFits(session) BY AtWork
    <3> QED BY <3>1, <3>2 DEF PlanFits
  <2>3. /\ Faulty(q) <=> Faulty(p)
        /\ Unvalidated(q) <=> Unvalidated(p)
    BY <1>5 DEF Faulty, Unvalidated
  <2>4. phases >= 3 => Planned(session) = Planned(durable) BY AtWork
  <2>5. /\ session.calls \subseteq Spent /\ memory.admitted \subseteq Spent
        /\ Spent \subseteq session.calls \cup memory.admitted
    BY AtWork
  <2> QED BY <1>2, <1>5, <2>1, <2>2, <2>3, <2>4, <2>5 DEF OutputFits
<1> QED BY <1>2, <1>4, <1>6, <1>7, DoneStep

-----------------------------------------------------------------------------
(* Phases that leave the work as it is *)

LEMMA StageAdvances ==
    ASSUME NEW p, NEW d \in Nat, NEW n, Stage(p, d, n),
           \/ p.plan = "stop"
           \/ d \in {1, 9, 10}
           \/ d \in {3, 5, 6} /\ Extra(p) = {}
    PROVE  Stage(p, d + 1, n)
<1>1. p.plan = "stop" => Extra(p) = {} BY DEF Stage, PlanStands, Extra
<1>2. PlanStands(p, d + 1) BY <1>1 DEF Stage, PlanStands
<1>3. CriticStands(p, d + 1) BY DEF Stage, CriticStands
<1>4. d = 8 => Justified(p) BY DEF Stage, PlanStands, Justified
<1>5. DiagnosisStands(p, d + 1) BY <1>4 DEF Stage, DiagnosisStands
<1> QED BY <1>2, <1>3, <1>5 DEF Stage

LEMMA MemoryAdvances ==
    ASSUME NEW p, NEW m, NEW d \in Nat, NEW n, NEW b, Stage(p, d, n), Remembers(p, m, d, b),
           \/ p.plan = "stop"
           \/ d \in {1, 9, 10}
           \/ d \in {3, 5, 6} /\ Extra(p) = {}
    PROVE  Remembers(p, m, d + 1, b)
<1>1. p.plan = "stop" => Extra(p) = {} BY DEF Stage, PlanStands, Extra
<1> QED BY <1>1 DEF Remembers

\* A projection that differs from the session's in what the stages do not read.
LEMMA CarriedFits ==
    ASSUME V11Inv, runState = "running", step = "phase", phases # 0,
           NEW q \in Projections, SameWork(session, q), q.calls = session.calls,
           session.evidence \subseteq q.evidence,
           q.status = IF phases = 10 THEN IF session.diagnosis # "none" THEN "completed" ELSE "failed"
                                     ELSE session.status,
           \/ session.plan = "stop"
           \/ phases \in {1, 9, 10}
           \/ phases \in {3, 5, 6} /\ Extra(session) = {}
    PROVE  OutputFits(q, memory)
<1>1. /\ session.status = "running" /\ phases \in 0..10
      /\ Stage(session, phases, FirstCount)
      /\ resumes = 0 => Remembers(session, memory, phases, FALSE)
      /\ Grounded(session, session.evidence) /\ PlanFits(session)
      /\ phases >= 3 => Planned(session) = Planned(durable)
      /\ session.calls \subseteq Spent /\ memory.admitted \subseteq Spent
      /\ Spent \subseteq session.calls \cup memory.admitted
  BY AtWork DEF Remembers
<1>2. Stage(q, phases + 1, FirstCount)
  <2>1. Stage(session, phases + 1, FirstCount) BY <1>1, StageAdvances
  <2> QED BY <2>1, SameStage
<1>3. resumes = 0 => Remembers(q, memory, phases + 1, FALSE)
  <2> HAVE resumes = 0
  <2>1. Remembers(session, memory, phases, FALSE) BY <1>1
  <2>2. phases \in Nat BY <1>1
  <2>3. Remembers(session, memory, phases + 1, FALSE)
    BY <1>1, <2>1, <2>2, MemoryAdvances
  <2> QED BY <2>3, SameMemory
<1>4. /\ Planned(q) = Planned(session) /\ PlanFits(q)
      /\ Unvalidated(q)
  <2>1. Unvalidated(session) BY <1>1 DEF Stage
  <2>2. /\ PlanFits(q) <=> PlanFits(session)
        /\ Unvalidated(q) <=> Unvalidated(session)
        /\ Planned(q) = Planned(session)
    BY SameParts
  <2> QED BY <1>1, <2>1, <2>2
<1>5. Grounded(q, q.evidence) BY <1>1 DEF Grounded, SameWork
<1>6. q.diagnosis = session.diagnosis BY DEF SameWork
<1>7. phases = 0 => memory = NoMemory BY DEF V11Inv, ControlFits
<1> QED BY <1>1, <1>2, <1>3, <1>4, <1>5, <1>6, <1>7 DEF OutputFits

LEMMA IntakeStep == ASSUME V11Inv, Intake PROVE V11Inv'
<1>1. runState = "running" /\ step = "phase" /\ phases = 0 /\ session.status = "running"
  BY AtWork, PhaseIs DEF Intake, At
<1>2. memory = NoMemory /\ Spent = {} BY <1>1 DEF V11Inv, ControlFits
<1>3. FirstCount \in Nat BY <1>1, AtWork
<1>4. OutputFits(Fresh, memory)
  <2>1. /\ Fresh.status = "running" /\ Fresh.calls = {} /\ NoMemory.admitted = {}
        /\ Fresh.evidence = {}
    BY DEF Fresh, NoMemory
  <2>2. Stage(Fresh, 1, FirstCount) BY <1>3, FreshIs
  <2>3. Remembers(Fresh, NoMemory, 1, FALSE)
    <3>1. 1 \in 0..2 /\ FALSE \in BOOLEAN OBVIOUS
    <3> QED BY <3>1, FreshIs, Zenon
  <2>4. phases + 1 = 1 /\ ~(phases >= 3) /\ ~(phases = 10) BY <1>1
  <2>5. Grounded(Fresh, Fresh.evidence) /\ PlanFits(Fresh) BY <2>1, FreshIs
  <2> QED BY <1>1, <1>2, <2>1, <2>2, <2>3, <2>4, <2>5 DEF OutputFits
<1>5. memory' = memory /\ session' = Fresh BY DEF Intake
<1>6. step' = "output" /\ UNCHANGED <<durable, phases, called, runState, resumes, work>>
  BY DEF Intake
<1> QED BY <1>1, <1>2, <1>4, <1>5, <1>6, FreshIs, OutputStep

LEMMA CollectEvidenceStep == ASSUME V11Inv, CollectEvidence PROVE V11Inv'
<1> DEFINE q == [session EXCEPT !.evidence = @ \cup {Seed}]
<1>1. runState = "running" /\ step = "phase" /\ phases = 1
  BY AtWork, PhaseIs DEF CollectEvidence, At
<1>2. session \in Projections /\ memory \in Memories BY <1>1, AtWork
<1>3. q \in Projections /\ SameWork(session, q) /\ q.status = session.status
        /\ q.calls = session.calls /\ session.evidence \subseteq q.evidence
  BY <1>2, CallsFinite DEF Projections, SameWork
<1>4. session' = q /\ memory' = memory BY DEF CollectEvidence
<1>5. step' = "output" /\ UNCHANGED <<durable, phases, called, runState, resumes, work>>
  BY DEF CollectEvidence
<1> HIDE DEF q
<1>6. OutputFits(q, memory) BY <1>1, <1>3, CarriedFits
<1> QED BY <1>1, <1>2, <1>3, <1>4, <1>5, <1>6, OutputStep

LEMMA GenerateReportStep == ASSUME V11Inv, GenerateReport PROVE V11Inv'
<1> DEFINE q == [session EXCEPT !.report = session.review # "none" /\ session.summary # "none"]
<1>1. runState = "running" /\ step = "phase" /\ phases = 9
  BY AtWork, PhaseIs DEF GenerateReport, At
<1>2. session \in Projections /\ memory \in Memories BY <1>1, AtWork
<1>3. q \in Projections /\ SameWork(session, q) /\ q.status = session.status
        /\ q.calls = session.calls /\ session.evidence \subseteq q.evidence
  BY <1>2 DEF Projections, SameWork
<1>4. session' = q /\ memory' = memory BY DEF GenerateReport
<1>5. step' = "output" /\ UNCHANGED <<durable, phases, called, runState, resumes, work>>
  BY DEF GenerateReport
<1> HIDE DEF q
<1>6. OutputFits(q, memory) BY <1>1, <1>3, CarriedFits
<1> QED BY <1>1, <1>2, <1>3, <1>4, <1>5, <1>6, OutputStep

LEMMA FinalizeStep == ASSUME V11Inv, Finalize PROVE V11Inv'
<1> DEFINE q == [session EXCEPT !.status = IF session.diagnosis # "none" THEN "completed" ELSE "failed"]
<1>1. runState = "running" /\ step = "phase" /\ phases = 10
  BY AtWork, PhaseIs DEF Finalize, At
<1>2. session \in Projections /\ memory \in Memories BY <1>1, AtWork
<1>3. /\ q \in Projections /\ SameWork(session, q)
      /\ q.status = IF session.diagnosis # "none" THEN "completed" ELSE "failed"
      /\ q.calls = session.calls /\ session.evidence \subseteq q.evidence
  BY <1>2 DEF Projections, SameWork
<1>4. session' = q /\ memory' = memory BY DEF Finalize
<1>5. step' = "output" /\ UNCHANGED <<durable, phases, called, runState, resumes, work>>
  BY DEF Finalize
<1> HIDE DEF q
<1>6. OutputFits(q, memory) BY <1>1, <1>3, CarriedFits
<1> QED BY <1>1, <1>2, <1>3, <1>4, <1>5, <1>6, OutputStep

\* A handler that returns the projection as it found it.
LEMMA PassesStep ==
    ASSUME V11Inv, runState = "running", step = "phase", Passes,
           \/ session.plan = "stop" /\ phases \in 3..8
           \/ phases \in {3, 5, 6} /\ Extra(session) = {}
    PROVE  V11Inv'
<1>1. session \in Projections /\ memory \in Memories BY AtWork
<1>2. SameWork(session, session) BY DEF SameWork
<1>3. OutputFits(session, memory) BY <1>1, <1>2, CarriedFits
<1>4. /\ step' = "output" /\ session' = session /\ memory' = memory
      /\ UNCHANGED <<durable, phases, called, runState, resumes, work>>
  BY DEF Passes
<1> QED BY <1>1, <1>3, <1>4, OutputStep

\* A handler in the middle of the diagnosis whose phase does not fail.
LEMMA GoesOn ==
    ASSUME V11Inv, runState = "running", step \in {"phase", "round"}, phases \in 1..9,
           NEW q, NEW m, q.status = "running", q.calls = session.calls,
           m.admitted = memory.admitted,
           Stage(q, phases + 1, FirstCount),
           resumes = 0 => Remembers(q, m, phases + 1, FALSE),
           Grounded(q, q.evidence), PlanFits(q), Planned(q) = Planned(session) \/ phases = 2
    PROVE  OutputFits(q, m)
<1>1. /\ q.status # "failed" =>
           /\ Stage(q, phases + 1, FirstCount)
           /\ resumes = 0 => Remembers(q, m, phases + 1, FALSE)
      /\ Grounded(q, q.evidence) /\ PlanFits(q)
  OBVIOUS
<1>2. /\ q.status # "failed" /\ q.status # "completed" /\ phases # 10 /\ phases # 0
  OBVIOUS
<1>3. phases >= 3 => Planned(q) = Planned(durable) BY AtWork
<1>4. q.calls \subseteq Spent /\ m.admitted \subseteq Spent /\ Spent \subseteq q.calls \cup m.admitted
  BY AtWork
<1> QED BY <1>1, <1>2, <1>3, <1>4, Zenon DEF OutputFits

-----------------------------------------------------------------------------
(* The plan *)

LEMMA PlanLeadStep == ASSUME V11Inv, PlanLead PROVE V11Inv'
<1>1. runState = "running" /\ step = "phase" /\ phases = 2
  BY AtWork, PhaseIs DEF PlanLead, At
<1>2. /\ session \in Projections /\ memory \in Memories /\ session.status = "running"
      /\ Stage(session, 2, FirstCount)
      /\ resumes = 0 => Remembers(session, memory, 2, FALSE)
      /\ Grounded(session, session.evidence)
      /\ session.calls \subseteq Spent /\ memory.admitted \subseteq Spent
      /\ Spent \subseteq session.calls \cup memory.admitted
  BY <1>1, AtWork DEF Remembers
<1>3. PICK chosen \in Plans :
         Done([session EXCEPT !.plan = IF chosen = {} THEN "stop" ELSE "investigate",
                              !.tasks = chosen], memory)
  BY DEF PlanLead
<1> DEFINE q == [session EXCEPT !.plan = IF chosen = {} THEN "stop" ELSE "investigate",
                                !.tasks = chosen]
<1>4. chosen \subseteq FirstTasks /\ Cardinality(chosen) <= MaxInvestigators
  BY <1>3 DEF Plans
<1>5. /\ q \in Projections /\ q.tasks = chosen
      /\ q.plan = IF chosen = {} THEN "stop" ELSE "investigate"
  BY <1>2, <1>4 DEF Projections, AllTasks
<1>6. /\ q.status = "running" /\ q.calls = session.calls /\ q.evidence = session.evidence
      /\ q.owner = session.owner /\ q.candidates = session.candidates
      /\ q.verdicts = session.verdicts /\ q.reviewRound = session.reviewRound
      /\ q.decision = session.decision /\ q.diagnosis = session.diagnosis
      /\ q.review = session.review /\ q.executions = session.executions
  BY <1>2 DEF Projections
<1>7. Done(q, memory) BY <1>3
<1> HIDE DEF q
<1>8. Extra(q) = {} /\ Planned(q) = chosen /\ PlanFits(q)
  <2>1. Extra(q) = {} /\ Planned(q) = chosen
    BY <1>4, <1>5, WorkflowAssumption DEF Extra, Planned
  <2>2. IsFiniteSet(chosen) BY <1>4, FS_Subset, WorkflowAssumption
  <2> QED BY <2>1, <2>2, <1>4 DEF PlanFits
<1>9. /\ session.plan = "none" /\ Extra(session) = {} /\ session.decision = Undecided
      /\ session.diagnosis = "none" /\ DOMAIN session.owner = {} /\ Unvalidated(session)
  BY <1>2 DEF Stage, PlanStands, DiagnosisStands, BatchFits
<1>10. Stage(q, 3, FirstCount)
  <2>1. Undecided.published = {} BY DEF Undecided
  <2>2. Unvalidated(q) BY <1>6, <1>9 DEF Unvalidated
  <2>3. BatchFits(q, FirstCount) BY <1>6, <1>8, <1>9 DEF BatchFits
  <2>4. PlanStands(q, 3) BY <2>1, <1>5, <1>6, <1>8, <1>9 DEF PlanStands
  <2>5. CriticStands(q, 3) BY DEF CriticStands
  <2>6. DiagnosisStands(q, 3) BY <1>6, <1>9 DEF DiagnosisStands
  <2> QED BY <2>2, <2>3, <2>4, <2>5, <2>6 DEF Stage
<1>11. resumes = 0 => Remembers(q, memory, 3, FALSE)
  BY <1>2, <1>6, <1>8 DEF Remembers, Faulty
<1>12. Grounded(q, q.evidence) BY <1>2, <1>6 DEF Grounded
<1>13. phases + 1 = 3 BY <1>1
<1>14. OutputFits(q, memory)
  <2>1. /\ Stage(q, phases + 1, FirstCount)
        /\ resumes = 0 => Remembers(q, memory, phases + 1, FALSE)
    BY <1>10, <1>11, <1>13
  <2>2. phases \in 1..9 BY <1>1
  <2> QED BY <1>1, <1>6, <1>8, <1>12, <2>1, <2>2, GoesOn
<1> QED BY <1>1, <1>2, <1>5, <1>7, <1>14, DoneStep

LEMMA StopInconclusiveStep == ASSUME V11Inv, StopInconclusive PROVE V11Inv'
<1>1. /\ runState = "running" /\ step = "phase" /\ phases \in 3..8 /\ session.plan = "stop"
  BY AtWork, PhaseIs DEF StopInconclusive, Stopped
<1>2. /\ session \in Projections /\ memory \in Memories /\ session.status = "running"
      /\ phases \in 0..10 /\ Stage(session, phases, FirstCount)
      /\ resumes = 0 => Remembers(session, memory, phases, FALSE)
      /\ Grounded(session, session.evidence) /\ PlanFits(session)
      /\ phases >= 3 => Planned(session) = Planned(durable)
      /\ session.calls \subseteq Spent /\ memory.admitted \subseteq Spent
      /\ Spent \subseteq session.calls \cup memory.admitted
  BY <1>1, AtWork DEF Remembers
<1>3. CASE Passes BY <1>1, <1>3, PassesStep
<1>4. CASE ~Passes
  <2> DEFINE q == [session EXCEPT !.review = "open", !.diagnosis = "inconclusive",
                                  !.decision = [Undecided EXCEPT !.action = "inconclusive"]]
  <2>1. Done(q, memory) BY <1>4 DEF StopInconclusive
  <2>2. [Undecided EXCEPT !.action = "inconclusive"] \in Decisions
    BY DEF Undecided, Decisions
  <2>3. q \in Projections BY <1>2, <2>2 DEF Projections, Diagnosis
  <2>4. /\ q.status = "running" /\ q.calls = session.calls /\ q.evidence = session.evidence
        /\ q.owner = session.owner /\ q.candidates = session.candidates
        /\ q.tasks = session.tasks /\ q.plan = "stop"
        /\ q.executions = session.executions /\ q.diagnosis = "inconclusive"
        /\ q.decision.published = {}
    BY <1>1, <1>2 DEF Projections, Undecided
  <2> HIDE DEF q
  <2>5. session.tasks = {} /\ DOMAIN session.owner = {} /\ Unvalidated(session)
    BY <1>1, <1>2 DEF Stage, PlanStands, BatchFits, Extra
  <2>6. Extra(q) = {} /\ Planned(q) = Planned(session) BY <2>4, <2>5 DEF Extra, Planned
  <2>7. Stage(q, phases + 1, FirstCount)
    <3>1. Unvalidated(q) BY <2>4, <2>5 DEF Unvalidated
    <3>2. BatchFits(q, FirstCount) BY <2>4, <2>5, <2>6 DEF BatchFits
    <3>3. PlanStands(q, phases + 1) BY <1>1, <2>4, <2>5, <2>6 DEF PlanStands
    <3>4. CriticStands(q, phases + 1) BY <2>4 DEF CriticStands
    <3>5. DiagnosisStands(q, phases + 1) BY <2>4 DEF DiagnosisStands, Justified
    <3> QED BY <3>1, <3>2, <3>3, <3>4, <3>5 DEF Stage
  <2>8. resumes = 0 => Remembers(q, memory, phases + 1, FALSE)
    <3>1. Extra(session) = {} BY <2>5 DEF Extra
    <3> QED BY <3>1, <1>2, <2>4, <2>6 DEF Remembers, Faulty
  <2>9. Grounded(q, q.evidence) BY <1>2, <2>4 DEF Grounded
  <2>10. PlanFits(q) BY <1>2, <2>6 DEF PlanFits
  <2>11. OutputFits(q, memory)
    <3>1. phases \in 1..9 BY <1>1
    <3> QED BY <1>1, <2>4, <2>6, <2>7, <2>8, <2>9, <2>10, <3>1, GoesOn
  <2> QED BY <1>1, <1>2, <2>1, <2>3, <2>11, DoneStep
<1> QED BY <1>3, <1>4

-----------------------------------------------------------------------------
(* The start of a round *)

LEMMA RoundIs ==
    ASSUME V11Inv, runState = "running", step \in {"phase", "round"},
           Phase \in {"investigator_round_1", "investigator_round_2"}
    PROVE  /\ Round(2) = Extra(session) /\ Round(1) = Planned(session)
           /\ RoundOf = IF phases = 3 THEN 1 ELSE 2
           /\ phases \in {3, 5} /\ Round(RoundOf) \subseteq AllTasks
           /\ phases = 3 => Extra(session) = {}
<1>1. phases \in 0..10 /\ session \in Projections /\ Stage(session, phases, FirstCount)
  BY AtWork
<1>2. RoundOf = (IF phases = 3 THEN 1 ELSE 2) /\ phases \in {3, 5}
  BY <1>1, PhaseIs DEF RoundOf
<1>3. session.tasks \subseteq AllTasks BY <1>1 DEF Projections
<1>4. Round(2) = Extra(session) BY <1>3 DEF Round, Extra
<1>5. Round(1) = Planned(session) BY <1>3, WorkflowAssumption DEF Round, Planned, AllTasks
<1>6. Round(RoundOf) \subseteq AllTasks BY <1>3 DEF Round
<1>7. phases = 3 => Extra(session) = {} BY <1>1 DEF Stage, PlanStands
<1> QED BY <1>2, <1>4, <1>5, <1>6, <1>7

LEMMA StartRoundStep == ASSUME V11Inv, StartRound PROVE V11Inv'
<1>1. /\ runState = "running" /\ step = "phase" /\ session.plan # "stop"
      /\ Phase \in {"investigator_round_1", "investigator_round_2"}
  BY DEF StartRound, Stopped
<1>2. /\ Round(2) = Extra(session)
      /\ RoundOf = IF phases = 3 THEN 1 ELSE 2
      /\ phases \in {3, 5} /\ Round(RoundOf) \subseteq AllTasks
      /\ phases = 3 => Extra(session) = {}
  BY <1>1, RoundIs
<1>3. CASE Round(RoundOf) = {} /\ Passes
  <2>1. Extra(session) = {} BY <1>2, <1>3
  <2> QED BY <1>1, <1>2, <1>3, <2>1, PassesStep
<1>4. CASE /\ Round(RoundOf) # {} /\ work' = [t \in Round(RoundOf) |-> Idle]
           /\ step' = "round"
           /\ UNCHANGED <<durable, phases, called, runState, resumes, session, memory>>
  <2>1. Idle \in Workers /\ Idle.pc = "run" BY DEF Idle, Workers
  <2>2. work' \in Crews BY <1>2, <1>4, <2>1 DEF Crews
  <2>3. /\ DOMAIN work' = Round(RoundOf)
        /\ \A t \in DOMAIN work' : work'[t] = Idle
    BY <1>4
  <2>4. Spent' = Spent /\ FirstSpent' = FirstSpent /\ FirstCount' = FirstCount
    BY <1>4 DEF Spent, FirstSpent, FirstCount
  <2>5. RoundOf' = RoundOf /\ Round(RoundOf)' = Round(RoundOf)
    BY <1>4 DEF RoundOf, Phase, Round
  <2>6. Applied' = phases /\ Applied = phases /\ ~InTrouble' /\ ~InTrouble
    <3>1. \A t \in DOMAIN work' : ~Troubled(work'[t]) BY <2>3, <2>1 DEF Troubled
    <3> QED BY <3>1, <1>1, <1>4 DEF Applied, InTrouble
  <2>7. WorkflowTyped' BY <1>4, <2>2 DEF V11Inv, WorkflowTyped, WorkflowTypeOK, Memories
  <2>8. ControlFits' BY <1>1, <1>2, <1>4, <2>3, <2>4, <2>5 DEF V11Inv, ControlFits
  <2>9. DurableFits' BY <1>4, <2>4 DEF V11Inv, DurableFits
  <2>10. CopyFits'
    <3>1. CopyFits BY <1>1 DEF V11Inv, SessionFits
    <3>2. Planned(session)' = Planned(session) /\ Planned(durable)' = Planned(durable)
      BY <1>4 DEF Planned
    <3>3. session.status # "failed" => Stage(session', Applied', FirstCount')
      BY <1>4, <2>4, <2>6, <3>1 DEF CopyFits
    <3>4. session.status # "failed" /\ resumes' = 0 => Remembers(session', memory', Applied', InTrouble')
      BY <1>4, <2>6, <3>1 DEF CopyFits, Remembers
    <3>5. /\ session.status # "failed" => session.status = "completed" <=> Applied' = 11
          /\ session.status # "failed"
      BY <1>1, <2>6, <3>1 DEF CopyFits
    <3>6. session.status = "completed" => session.diagnosis # "none" BY <3>1 DEF CopyFits
    <3>7. Grounded(session, session.evidence)' /\ PlanFits(session)'
      BY <1>1, <1>4, <3>1 DEF CopyFits, PlanFits, Planned
    <3>8. phases' >= 3 => Planned(session)' = Planned(durable)'
      BY <1>4, <3>1, <3>2 DEF CopyFits
    <3>9. \A t \in DOMAIN work' : work'[t].pc # "done" BY <2>1, <2>3
    <3> QED BY <1>4, <3>3, <3>4, <3>5, <3>6, <3>7, <3>8, <3>9 DEF CopyFits
  <2>11. BudgetFits' BY <1>1, <1>4, <2>4 DEF V11Inv, BudgetFits
  <2> QED BY <2>7, <2>8, <2>9, <2>10, <2>11 DEF V11Inv, SessionFits
<1>5. CASE Phase = "investigator_round_2" /\ Fails(session, FALSE)
  <2>1. session \in Projections /\ Grounded(session, session.evidence) BY <1>1, AtWork
  <2>2. phases # 0 /\ ~(phases >= 8) /\ FALSE \in BOOLEAN BY <1>2
  <2> QED BY <1>1, <1>5, <2>1, <2>2, FailsStep
<1> QED BY <1>3, <1>4, <1>5 DEF StartRound

-----------------------------------------------------------------------------
(* Tool calls *)

Reserve == SmallerOf(2 * MaxInvestigators, ToolBudget \div 4)

\* The limits of the rounds: with four calls or more the investigators of the
\* first round cannot touch the reserve, with fewer there is none.
LEMMA LimitIs ==
    /\ RoundToolLimit(1) \in 1..PerTask /\ RoundToolLimit(2) = PerTask
    /\ Reserve \in 0..ToolBudget
    /\ MaxInvestigators >= 2 /\ ToolBudget >= 4 =>
         MaxInvestigators * RoundToolLimit(1) <= ToolBudget - Reserve
    /\ ToolBudget < 4 => Reserve = 0
<1> DEFINE quarter == ToolBudget \div 4
           rest == ToolBudget - Reserve
<1>1. /\ MaxInvestigators \in {1, 2, 3} /\ ToolBudget \in Nat /\ ToolBudget >= 1
      /\ PerTask \in Nat /\ PerTask >= 1
  BY WorkflowAssumption
<1>2. /\ quarter \in Nat /\ 4 * quarter <= ToolBudget /\ ToolBudget < 4 * quarter + 4
  BY <1>1
<1>3. Reserve = IF 2 * MaxInvestigators < quarter THEN 2 * MaxInvestigators ELSE quarter
  BY DEF Reserve, SmallerOf
<1> HIDE DEF quarter
<1>4. Reserve \in 0..ToolBudget /\ Reserve <= quarter BY <1>1, <1>2, <1>3
<1>5. ToolBudget < 4 => Reserve = 0 BY <1>1, <1>2, <1>3
<1>6. ToolBudget >= 4 => rest >= 3 BY <1>1, <1>2, <1>4
<1>7. rest \in Nat BY <1>1, <1>4
<1>8. RoundToolLimit(2) = PerTask BY DEF RoundToolLimit
<1>9. CASE MaxInvestigators = 1 BY <1>1, <1>4, <1>5, <1>8, <1>9 DEF RoundToolLimit
<1>10. CASE MaxInvestigators = 2
  <2>1. RoundToolLimit(1) = SmallerOf(PerTask, LargerOf(1, rest \div 2))
    BY <1>10 DEF RoundToolLimit, Reserve
  <2> HIDE DEF rest
  <2>2. rest \div 2 \in Nat /\ 2 * (rest \div 2) <= rest BY <1>7
  <2>3. RoundToolLimit(1) \in 1..PerTask BY <1>1, <2>1, <2>2 DEF SmallerOf, LargerOf
  <2>4. rest >= 3 => 2 * RoundToolLimit(1) <= rest
    BY <1>1, <1>7, <2>1, <2>2 DEF SmallerOf, LargerOf
  <2> QED BY <1>1, <1>4, <1>5, <1>6, <1>8, <1>10, <2>3, <2>4 DEF rest
<1>11. CASE MaxInvestigators = 3
  <2>1. RoundToolLimit(1) = SmallerOf(PerTask, LargerOf(1, rest \div 3))
    BY <1>11 DEF RoundToolLimit, Reserve
  <2> HIDE DEF rest
  <2>2. rest \div 3 \in Nat /\ 3 * (rest \div 3) <= rest BY <1>7
  <2>3. RoundToolLimit(1) \in 1..PerTask BY <1>1, <2>1, <2>2 DEF SmallerOf, LargerOf
  <2>4. rest >= 3 => 3 * RoundToolLimit(1) <= rest
    BY <1>1, <1>7, <2>1, <2>2 DEF SmallerOf, LargerOf
  <2> QED BY <1>1, <1>4, <1>5, <1>6, <1>8, <1>11, <2>3, <2>4 DEF rest
<1> QED BY <1>1, <1>9, <1>10, <1>11

LEMMA UpTo ==
    ASSUME NEW k \in Nat
    PROVE  IsFiniteSet(1..k) /\ Cardinality(1..k) = k
<1>1. 1 \in Int /\ k \in Int OBVIOUS
<1>2. IsFiniteSet(1..k) /\ Cardinality(1..k) = IF 1 > k THEN 0 ELSE k - 1 + 1
  BY <1>1, FS_Interval
<1>3. k - 1 + 1 = k /\ (1 > k => k = 0) OBVIOUS
<1> QED BY <1>2, <1>3

\* One task and the numbers up to k.
LEMMA CallsOfOne ==
    ASSUME NEW t, NEW k \in Nat
    PROVE  IsFiniteSet({t} \X (1..k)) /\ Cardinality({t} \X (1..k)) = k
<1>1. IsFiniteSet({t}) /\ Cardinality({t}) = 1 BY FS_Singleton, Zenon
<1>2. IsFiniteSet(1..k) /\ Cardinality(1..k) = k BY UpTo
<1> DEFINE T == 1..k
<1> HIDE DEF T
<1>3. IsFiniteSet({t} \X T) /\ Cardinality({t} \X T) = Cardinality({t}) * Cardinality(T)
  <2>1. IsFiniteSet(T) BY <1>2 DEF T
  <2> QED BY <1>1, <2>1, FS_Product, Zenon
<1>4. 1 * k = k OBVIOUS
<1> QED BY <1>1, <1>2, <1>3, <1>4 DEF T

\* An admitted call fits the budget and the limit of its round.
LEMMA CapacityIs ==
    ASSUME V11Inv, NEW c \in Calls, AdmitTool(c)
    PROVE  /\ Cardinality(Spent) < ToolBudget
           /\ c[2] <= RoundToolLimit(RoundOf)
<1> DEFINE mine == {d \in Budgeted : d[1] = c[1]}
           before == {c[1]} \X (1..(c[2] - 1))
<1>1. runState = "running" /\ step = "round" /\ Capacity(c[1], RoundOf) > 0
        /\ \A n \in 1..(c[2] - 1) : called[<<c[1], n>>] # "none"
  BY DEF AdmitTool, Working
<1>2. Budgeted = Spent /\ IsFiniteSet(Spent)
  BY <1>1, AtWork DEF Budgeted, V11Inv, BudgetFits
<1>3. c[1] \in AllTasks /\ c[2] \in 1..PerTask /\ PerTask \in Nat
  BY WorkflowAssumption DEF Calls
<1>4. IsFiniteSet(mine) /\ Cardinality(mine) \in Nat /\ Cardinality(Spent) \in Nat
  <2>1. mine \subseteq Spent BY <1>2
  <2> QED BY <2>1, <1>2, FS_Subset, FS_CardinalityType
<1>5. Cardinality(before) = c[2] - 1 /\ before \subseteq mine
  <2>3. Cardinality(before) = c[2] - 1
    <3>1. c[2] - 1 \in Nat BY <1>3
    <3> QED BY <3>1, CallsOfOne
  <2>4. before \subseteq Spent
    <3> SUFFICES ASSUME NEW n \in 1..(c[2] - 1) PROVE <<c[1], n>> \in Spent OBVIOUS
    <3> QED BY <1>1, <1>3 DEF Spent, Calls
  <2> QED BY <2>3, <2>4, <1>2, <1>3
<1>6. c[2] - 1 <= Cardinality(mine)
  <2>1. Cardinality(before) <= Cardinality(mine) BY <1>4, <1>5, FS_Subset
  <2> QED BY <2>1, <1>5
<1>7. RoundToolLimit(RoundOf) \in Nat
  <2>1. RoundOf \in {1, 2} BY DEF RoundOf
  <2> QED BY <2>1, <1>3, LimitIs
<1> DEFINE limit == RoundToolLimit(RoundOf)
<1>8. LargerOf(0, SmallerOf(limit - Cardinality(mine), LargerOf(0, ToolBudget - Cardinality(Spent)))) > 0
  BY <1>1, <1>2 DEF Capacity, RemainingTools
<1> HIDE DEF mine, limit
<1>9. limit - Cardinality(mine) > 0 /\ ToolBudget - Cardinality(Spent) > 0
  BY <1>4, <1>7, <1>8, WorkflowAssumption DEF LargerOf, SmallerOf, limit
<1> QED BY <1>3, <1>4, <1>6, <1>7, <1>9, WorkflowAssumption DEF limit

\* First calls do not count for a projection without a supplemental batch.
LEMMA StageCount ==
    ASSUME NEW p, NEW d, NEW n, NEW k, Stage(p, d, n), Extra(p) = {}
    PROVE  Stage(p, d, k)
BY DEF Stage, BatchFits

LEMMA AdmitToolStep == ASSUME V11Inv, NEW c \in Calls, AdmitTool(c) PROVE V11Inv'
<1>1. /\ runState = "running" /\ step = "round" /\ c[1] \in DOMAIN work /\ called[c] = "none"
      /\ called' = [called EXCEPT ![c] = "running"]
      /\ durable' = [durable EXCEPT !.calls = @ \cup {c}]
      /\ memory' = [memory EXCEPT !.admitted = @ \cup {c}]
      /\ UNCHANGED <<phases, runState, resumes, session, work, step>>
  BY DEF AdmitTool, Working
<1>2. /\ durable \in Projections /\ memory \in Memories /\ session \in Projections
      /\ called \in [Calls -> {"none", "running", "success", "failed", "interrupted"}]
  BY DEF V11Inv, WorkflowTyped, WorkflowTypeOK
<1>3. /\ phases \in {3, 5} /\ DOMAIN work = Round(RoundOf) /\ session.plan # "stop"
      /\ DOMAIN work # {} /\ CopyFits /\ Applied = phases
  BY <1>1 DEF V11Inv, ControlFits, SessionFits, Applied
<1>4. durable' \in Projections /\ SameWork(durable, durable') /\ durable'.calls = durable.calls \cup {c}
        /\ durable'.status = durable.status /\ durable'.evidence = durable.evidence
  BY <1>1, <1>2 DEF Projections, SameWork
<1>5. memory' \in Memories /\ memory'.admitted = memory.admitted \cup {c}
        /\ memory'.noted = memory.noted /\ memory'.rounds = memory.rounds
        /\ memory'.failures = memory.failures
  BY <1>1, <1>2 DEF Memories
<1>6. /\ called' \in [Calls -> {"none", "running", "success", "failed", "interrupted"}]
      /\ Spent' = Spent \cup {c}
  BY <1>1, <1>2 DEF Spent
<1>7. /\ Round(2) = Extra(session) /\ Round(1) = Planned(session)
      /\ RoundOf = IF phases = 3 THEN 1 ELSE 2
      /\ phases = 3 => Extra(session) = {}
  <2>1. Phase \in {"investigator_round_1", "investigator_round_2"} BY <1>3, PhaseIs
  <2> QED BY <2>1, <1>1, RoundIs
<1>8. FirstSpent' \subseteq Planned(durable) \X (1..RoundToolLimit(1))
        /\ (phases = 5 => FirstSpent' = FirstSpent)
  <2>1. FirstSpent \subseteq Planned(durable) \X (1..RoundToolLimit(1))
    BY DEF V11Inv, BudgetFits
  <2>2. c[1] \in FirstTasks => phases = 3
    <3>1. phases = 5 => c[1] \in ExtraTasks BY <1>1, <1>3, <1>7 DEF Extra
    <3> QED BY <3>1, <1>3, WorkflowAssumption
  <2>3. c[1] \in FirstTasks => c \in Planned(durable) \X (1..RoundToolLimit(1))
    <3> HAVE c[1] \in FirstTasks
    <3>1. c[1] \in Planned(durable) BY <1>1, <1>3, <1>7, <2>2 DEF CopyFits
    <3>2. c[2] <= RoundToolLimit(1) BY <1>7, <2>2, CapacityIs
    <3>3. c = <<c[1], c[2]>> /\ c[2] \in 1..PerTask BY DEF Calls
    <3>4. RoundToolLimit(1) \in Nat BY LimitIs, WorkflowAssumption
    <3> QED BY <3>1, <3>2, <3>3, <3>4, WorkflowAssumption
  <2>4. FirstSpent' = FirstSpent \cup {d \in {c} : d[1] \in FirstTasks}
    BY <1>6 DEF FirstSpent
  <2> QED BY <2>1, <2>2, <2>3, <2>4
<1>9. Planned(durable)' = Planned(durable) /\ Extra(durable)' = Extra(durable)
        /\ (PlanFits(durable)' <=> PlanFits(durable))
  BY <1>4 DEF SameWork, Planned, Extra, PlanFits
<1>10. durable.status = "running" /\ Stage(durable, phases, FirstCount)
  BY <1>1 DEF V11Inv, DurableFits
<1>11. Stage(durable, phases, FirstCount') /\ Stage(session, phases, FirstCount')
  <2>1. Stage(session, phases, FirstCount) BY <1>1, AtWork
  <2>2. CASE phases = 3
    <3>1. Extra(durable) = {} /\ Extra(session) = {}
      BY <1>7, <1>10, <2>2 DEF Stage, PlanStands
    <3> QED BY <1>10, <2>1, <3>1, StageCount
  <2>3. CASE phases = 5
    <3>1. FirstCount' = FirstCount BY <1>8, <2>3 DEF FirstCount
    <3> QED BY <1>10, <2>1, <3>1
  <2> QED BY <1>3, <2>2, <2>3
<1>12. WorkflowTyped'
  BY <1>1, <1>4, <1>5, <1>6 DEF V11Inv, WorkflowTyped, WorkflowTypeOK, Memories
<1>13. ControlFits'
  <2>1. RoundOf' = RoundOf /\ Round(RoundOf)' = Round(RoundOf)
    BY <1>1 DEF RoundOf, Phase, Round
  <2> QED BY <1>1, <1>3, <2>1 DEF V11Inv, ControlFits
<1>14. DurableFits'
  <2>1. Stage(durable', phases', FirstCount') BY <1>1, <1>4, <1>11, SameStage
  <2>2. Grounded(durable', durable'.evidence)
    BY <1>4 DEF V11Inv, DurableFits, Grounded, SameWork
  <2>3. Faulty(durable') <=> Faulty(durable) BY <1>4, SameParts
  <2>4. Unvalidated(durable') <=> Unvalidated(durable) BY <1>4, SameParts
  <2> QED BY <1>1, <1>4, <1>9, <1>10, <2>1, <2>2, <2>3, <2>4 DEF V11Inv, DurableFits
<1>15. CopyFits'
  <2>1. Applied' = Applied /\ (InTrouble' <=> InTrouble) BY <1>1 DEF Applied, InTrouble
  <2>2. Stage(session', Applied', FirstCount') BY <1>1, <1>3, <1>11, <2>1
  <2>3. session.status # "failed" /\ resumes' = 0 => Remembers(session', memory', Applied', InTrouble')
    BY <1>1, <1>3, <1>5, <2>1 DEF CopyFits, Remembers
  <2>4. PlanFits(session)' /\ Planned(session)' = Planned(session)
    BY <1>1, <1>3 DEF CopyFits, PlanFits, Planned
  <2>5. Grounded(session', session'.evidence) BY <1>1, <1>3 DEF CopyFits
  <2> QED BY <1>1, <1>3, <1>9, <2>1, <2>2, <2>3, <2>4, <2>5 DEF CopyFits
<1>16. BudgetFits'
  <2>1. IsFiniteSet(Spent) /\ Spent = durable.calls /\ session.calls \subseteq Spent
          /\ memory.admitted \subseteq Spent /\ Spent \subseteq session.calls \cup memory.admitted
    BY <1>1 DEF V11Inv, BudgetFits
  <2>2. IsFiniteSet(Spent') /\ Cardinality(Spent') <= Cardinality(Spent) + 1
    <3>1. Cardinality(Spent) \in Nat BY <2>1, FS_CardinalityType
    <3>2. /\ IsFiniteSet(Spent \cup {c})
          /\ Cardinality(Spent \cup {c}) = IF c \in Spent THEN Cardinality(Spent)
                                                        ELSE Cardinality(Spent) + 1
      BY <2>1, FS_AddElement
    <3> QED BY <1>6, <3>1, <3>2
  <2>3. Cardinality(Spent') <= ToolBudget
    <3>1. Cardinality(Spent) < ToolBudget BY CapacityIs
    <3>2. Cardinality(Spent) \in Nat /\ Cardinality(Spent') \in Nat BY <2>1, <2>2, FS_CardinalityType
    <3> QED BY <2>2, <3>1, <3>2, WorkflowAssumption
  <2>4. FirstSpent' \subseteq Planned(durable)' \X (1..RoundToolLimit(1)) BY <1>8, <1>9
  <2> QED BY <1>1, <1>4, <1>5, <1>6, <2>1, <2>2, <2>3, <2>4 DEF BudgetFits, RoundToolLimit
<1> QED BY <1>12, <1>13, <1>14, <1>15, <1>16 DEF V11Inv, SessionFits

LEMMA ToolReturnsStep == ASSUME V11Inv, NEW c \in Calls, ToolReturns(c) PROVE V11Inv'
<1>1. PICK ok \in BOOLEAN :
        /\ called' = [called EXCEPT ![c] = IF ok THEN "success" ELSE "failed"]
        /\ durable' = [durable EXCEPT !.evidence = IF ok THEN @ \cup {c} ELSE @]
        /\ work' = IF ok /\ Working(c[1]) THEN [work EXCEPT ![c[1]].got = @ \cup {c}] ELSE work
  BY DEF ToolReturns
<1>2. /\ runState = "running" /\ called[c] = "running"
      /\ UNCHANGED <<phases, runState, resumes, session, memory, step>>
  BY DEF ToolReturns
<1>3. /\ durable \in Projections /\ work \in Crews
      /\ called \in [Calls -> {"none", "running", "success", "failed", "interrupted"}]
  BY DEF V11Inv, WorkflowTyped, WorkflowTypeOK
<1>4. /\ durable' \in Projections /\ SameWork(durable, durable') /\ durable'.calls = durable.calls
      /\ durable'.status = durable.status /\ durable.evidence \subseteq durable'.evidence
  BY <1>1, <1>3, CallsFinite DEF Projections, SameWork
<1>5. /\ work' \in Crews /\ DOMAIN work' = DOMAIN work
      /\ \A t \in DOMAIN work : /\ work'[t].pc = work[t].pc /\ work'[t].draft = work[t].draft
                                /\ work'[t].dropped = work[t].dropped
  <2>1. PICK X \in SUBSET AllTasks : work \in [X -> Workers] BY <1>3 DEF Crews
  <2>2. CASE ok /\ Working(c[1])
    <3>1. c[1] \in X /\ work' = [work EXCEPT ![c[1]].got = @ \cup {c}]
      BY <1>1, <2>1, <2>2 DEF Working
    <3> DEFINE k == [work[c[1]] EXCEPT !.got = @ \cup {c}]
    <3>2. work[c[1]] \in Workers BY <2>1, <3>1
    <3>3. /\ k \in Workers /\ k.pc = work[c[1]].pc /\ k.draft = work[c[1]].draft
          /\ k.dropped = work[c[1]].dropped
      BY <3>2 DEF Workers
    <3>4. work' = [work EXCEPT ![c[1]] = k] BY <3>1
    <3> HIDE DEF k
    <3>5. work' \in [X -> Workers] BY <2>1, <3>3, <3>4
    <3>6. \A t \in X : work'[t] = IF t = c[1] THEN k ELSE work[t] BY <2>1, <3>4
    <3> QED BY <2>1, <3>3, <3>5, <3>6 DEF Crews
  <2>3. CASE ~(ok /\ Working(c[1])) BY <1>1, <1>3, <2>3
  <2> QED BY <2>2, <2>3
<1>6. /\ called' \in [Calls -> {"none", "running", "success", "failed", "interrupted"}]
      /\ Spent' = Spent
  BY <1>1, <1>2, <1>3 DEF Spent
<1>7. FirstSpent' = FirstSpent /\ FirstCount' = FirstCount BY <1>6 DEF FirstSpent, FirstCount
<1>8. Planned(durable)' = Planned(durable)
        /\ (PlanFits(durable)' <=> PlanFits(durable))
  BY <1>4 DEF SameWork, Planned, PlanFits
<1>9. WorkflowTyped'
  BY <1>2, <1>4, <1>5, <1>6 DEF V11Inv, WorkflowTyped, WorkflowTypeOK, Memories
<1>10. ControlFits'
  <2>1. RoundOf' = RoundOf /\ Round(RoundOf)' = Round(RoundOf)
    BY <1>2 DEF RoundOf, Phase, Round
  <2> QED BY <1>2, <1>5, <1>6, <2>1 DEF V11Inv, ControlFits
<1>11. DurableFits'
  <2>1. durable.status = "running" /\ Stage(durable, phases, FirstCount)
    BY <1>2 DEF V11Inv, DurableFits
  <2>2. Stage(durable', phases', FirstCount') BY <1>2, <1>4, <1>7, <2>1, SameStage
  <2>3. Grounded(durable', durable'.evidence)
    BY <1>4 DEF V11Inv, DurableFits, Grounded, SameWork
  <2>4. Faulty(durable') <=> Faulty(durable) BY <1>4, SameParts
  <2>5. Unvalidated(durable') <=> Unvalidated(durable) BY <1>4, SameParts
  <2> QED BY <1>2, <1>4, <1>8, <2>1, <2>2, <2>3, <2>4, <2>5 DEF V11Inv, DurableFits
<1>12. CopyFits'
  <2>1. CopyFits BY <1>2 DEF V11Inv, SessionFits
  <2>2. Applied' = Applied BY <1>2 DEF Applied
  <2>3. InTrouble' <=> InTrouble BY <1>2, <1>5 DEF InTrouble, Troubled
  <2>4. session.status # "failed" => Stage(session', Applied', FirstCount')
    BY <1>2, <1>7, <2>1, <2>2 DEF CopyFits
  <2>5. session.status # "failed" /\ resumes' = 0 => Remembers(session', memory', Applied', InTrouble')
    BY <1>2, <2>1, <2>2, <2>3 DEF CopyFits, Remembers
  <2>6. PlanFits(session)' /\ Planned(session)' = Planned(session)
    BY <1>2, <2>1 DEF CopyFits, PlanFits, Planned
  <2>7. Grounded(session', IF step' = "idle" THEN durable'.evidence ELSE session'.evidence)
    BY <1>2, <1>4, <2>1 DEF CopyFits, Grounded
  <2> QED BY <1>2, <1>5, <1>8, <2>1, <2>2, <2>4, <2>5, <2>6, <2>7 DEF CopyFits
<1>13. BudgetFits'
  BY <1>2, <1>4, <1>6, <1>7, <1>8 DEF V11Inv, BudgetFits, RoundToolLimit
<1> QED BY <1>9, <1>10, <1>11, <1>12, <1>13 DEF V11Inv, SessionFits

-----------------------------------------------------------------------------
(* The investigators of a round *)

\* Investigator t is through, as k says; what it wrote is in the session.
LEMMA InvestigatorStep ==
    ASSUME V11Inv, NEW t, Working(t), NEW k \in Workers,
           k.pc \in {"failed", "rejected", "done"},
           k.pc = "done" => k.draft \subseteq Committed(t).evidence,
           memory' = memory \/ (memory' = Noted(memory) /\ Troubled(k)),
           work' = [work EXCEPT ![t] = k], session' = Committed(t),
           UNCHANGED <<durable, phases, called, runState, resumes, step>>
    PROVE  V11Inv'
<1>1. /\ runState = "running" /\ step = "round" /\ t \in DOMAIN work /\ work[t].pc = "run"
  BY DEF Working
<1>2. /\ session \in Projections /\ memory \in Memories /\ work \in Crews
      /\ called \in [Calls -> {"none", "running", "success", "failed", "interrupted"}]
  BY DEF V11Inv, WorkflowTyped, WorkflowTypeOK
<1>3. PICK X \in SUBSET AllTasks : work \in [X -> Workers] BY <1>2 DEF Crews
<1>4. /\ work' \in [X -> Workers] /\ DOMAIN work' = X /\ DOMAIN work = X /\ t \in X
      /\ \A u \in X : work'[u] = IF u = t THEN k ELSE work[u]
  BY <1>1, <1>3
<1>5. work[t].got \subseteq Calls BY <1>3, <1>4 DEF Workers
<1>6. /\ session' \in Projections /\ SameWork(session, session')
      /\ session'.status = session.status /\ session.evidence \subseteq session'.evidence
      /\ session'.evidence = Committed(t).evidence
      /\ session'.calls = session.calls \cup
           {c \in Calls : c[1] = t /\ called[c] \notin {"none", "running"}}
  BY <1>2, <1>5, CallsFinite DEF Committed, Projections, SameWork
<1>7. /\ memory' \in Memories /\ memory'.admitted = memory.admitted
      /\ memory'.rounds = memory.rounds /\ memory'.failures = memory.failures
      /\ memory'.noted => memory.noted \/ Troubled(k)
  BY <1>2 DEF Memories, Noted
<1>8. Spent' = Spent /\ FirstSpent' = FirstSpent /\ FirstCount' = FirstCount
  BY DEF Spent, FirstSpent, FirstCount
<1>9. phases \in {3, 5} /\ DOMAIN work = Round(RoundOf) /\ session.plan # "stop" /\ CopyFits
  BY <1>1 DEF V11Inv, ControlFits, SessionFits
<1>10. WorkflowTyped'
  BY <1>4, <1>6, <1>7 DEF V11Inv, WorkflowTyped, WorkflowTypeOK, Memories, Crews
<1>11. ControlFits'
  <2>1. RoundOf' = RoundOf BY DEF RoundOf, Phase
  <2>2. Round(RoundOf)' = Round(RoundOf) BY <1>6, <2>1 DEF Round, SameWork
  <2> QED BY <1>1, <1>4, <1>6, <1>8, <1>9, <2>1, <2>2 DEF V11Inv, ControlFits, SameWork
<1>12. DurableFits' BY <1>8 DEF V11Inv, DurableFits, PlanFits, Planned
<1>13. CopyFits'
  <2>1. Applied' = Applied /\ Applied = phases BY <1>1 DEF Applied
  <2>2. InTrouble \/ Troubled(k) => InTrouble'
    <3>1. ~Troubled(work[t]) BY <1>1 DEF Troubled
    <3> QED BY <1>1, <1>4, <3>1 DEF InTrouble
  <2>3. session.status # "failed" BY <1>1, <1>9 DEF CopyFits
  <2>4. Stage(session', Applied', FirstCount')
    BY <1>6, <1>8, <1>9, <2>1, <2>3, SameStage DEF CopyFits
  <2>5. resumes' = 0 => Remembers(session', memory', Applied', InTrouble')
    <3> HAVE resumes' = 0
    <3>1. Remembers(session, memory, Applied, InTrouble) BY <1>9, <2>3 DEF CopyFits
    <3>2. Remembers(session, memory', Applied, InTrouble')
      BY <1>7, <2>2, <3>1 DEF Remembers
    <3> QED BY <1>6, <2>1, <3>2, SameMemory
  <2>6. PlanFits(session)' /\ Planned(session)' = Planned(session)
    BY <1>6, <1>9 DEF CopyFits, PlanFits, Planned, SameWork
  <2>7. Grounded(session', session'.evidence)
    BY <1>1, <1>6, <1>9 DEF CopyFits, Grounded, SameWork
  <2>8. \A u \in DOMAIN work' : work'[u].pc = "done" => work'[u].draft \subseteq session'.evidence
    BY <1>1, <1>4, <1>6, <1>9 DEF CopyFits
  <2>9. Planned(durable)' = Planned(durable) BY DEF Planned
  <2>10. session'.status = "completed" <=> Applied' = 11
    BY <1>6, <1>9, <2>1, <2>3 DEF CopyFits
  <2>11. session'.status # "completed" BY <1>9, <2>1, <2>10
  <2> QED BY <1>1, <1>6, <1>9, <2>3, <2>4, <2>5, <2>6, <2>7, <2>8, <2>9, <2>10, <2>11 DEF CopyFits
<1>14. BudgetFits'
  <2>1. session'.calls \subseteq Spent BY <1>6 DEF V11Inv, BudgetFits, Spent
  <2>2. Planned(durable)' = Planned(durable) BY DEF Planned
  <2> QED BY <1>6, <1>7, <1>8, <2>1, <2>2 DEF V11Inv, BudgetFits, RoundToolLimit
<1> QED BY <1>10, <1>11, <1>12, <1>13, <1>14 DEF V11Inv, SessionFits

LEMMA InvestigatorFailsStep == ASSUME V11Inv, NEW t \in AllTasks, InvestigatorFails(t) PROVE V11Inv'
<1>1. Working(t) /\ session' = Committed(t) /\ memory' = Noted(memory)
        /\ UNCHANGED <<durable, phases, called, runState, resumes, step>>
  BY DEF InvestigatorFails
<1>2. PICK pc \in {"failed", "rejected"} : work' = [work EXCEPT ![t].pc = pc]
  BY DEF InvestigatorFails
<1> DEFINE k == [work[t] EXCEPT !.pc = pc]
<1>3. work[t] \in Workers
  BY <1>1 DEF Working, V11Inv, WorkflowTyped, Crews
<1>4. k \in Workers /\ k.pc = pc BY <1>3 DEF Workers
<1>5. work' = [work EXCEPT ![t] = k] BY <1>2
<1> HIDE DEF k
<1>6. Troubled(k) BY <1>2, <1>4 DEF Troubled
<1>7. k.pc \in {"failed", "rejected", "done"} /\ (k.pc = "done" => k.draft \subseteq Committed(t).evidence)
  BY <1>2, <1>4
<1> QED BY <1>1, <1>4, <1>5, <1>6, <1>7, InvestigatorStep

LEMMA InvestigatorReturnsStep ==
    ASSUME V11Inv, NEW t \in AllTasks, InvestigatorReturns(t) PROVE V11Inv'
<1>1. Working(t) /\ session' = Committed(t)
        /\ UNCHANGED <<durable, phases, called, runState, resumes, step>>
  BY DEF InvestigatorReturns
<1>2. PICK draft \in Drafts, other \in BOOLEAN :
        LET kept    == AdmitCandidates(draft, Committed(t))
            dropped == other \/ kept # draft
        IN  /\ work' = [work EXCEPT ![t].pc = "done", ![t].draft = kept, ![t].dropped = dropped]
            /\ memory' = IF dropped THEN Noted(memory) ELSE memory
  BY DEF InvestigatorReturns
<1> DEFINE kept    == AdmitCandidates(draft, Committed(t))
           dropped == other \/ kept # draft
           k == [work[t] EXCEPT !.pc = "done", !.draft = kept, !.dropped = dropped]
<1>3. work[t] \in Workers /\ t \in DOMAIN work
  BY <1>1 DEF Working, V11Inv, WorkflowTyped, Crews
<1>4. draft \subseteq Evidence
  <2>1. 1 \in 1..PerTask BY WorkflowAssumption
  <2>2. \A u \in AllTasks : <<u, 1>> \in Evidence BY <2>1 DEF Evidence, Calls
  <2>3. Seed \in Evidence BY CallsFinite
  <2>4. CASE draft \in {{}, {Seed}} BY <2>3, <2>4
  <2>5. CASE draft \notin {{}, {Seed}}
    <3>1. PICK u \in AllTasks : draft = {Seed, <<u, 1>>} BY <1>2, <2>5 DEF Drafts
    <3> QED BY <2>2, <2>3, <3>1
  <2> QED BY <2>4, <2>5
<1>5. kept \subseteq Evidence /\ kept \subseteq Committed(t).evidence
  BY <1>4 DEF AdmitCandidates
<1>6. work' = [work EXCEPT ![t].pc = "done", ![t].draft = kept, ![t].dropped = dropped]
        /\ memory' = IF dropped THEN Noted(memory) ELSE memory
  BY <1>2
<1> HIDE DEF kept
<1>7. dropped \in BOOLEAN BY <1>2
<1> HIDE DEF dropped
<1>8. k \in Workers /\ k.pc = "done" /\ k.draft = kept /\ k.dropped = dropped
  BY <1>3, <1>5, <1>7 DEF Workers
<1>9. work' = [work EXCEPT ![t] = k] BY <1>3, <1>6
<1> HIDE DEF k
<1>10. memory' = memory \/ (memory' = Noted(memory) /\ Troubled(k))
  BY <1>6, <1>8 DEF Troubled
<1> QED BY <1>1, <1>5, <1>8, <1>9, <1>10, InvestigatorStep

LEMMA EndRoundStep == ASSUME V11Inv, EndRound PROVE V11Inv'
<1> DEFINE found == {[task |-> t, support |-> work[t].draft] :
                        t \in {u \in DOMAIN work : work[u].pc = "done" /\ work[u].draft # {}}}
           audit == UNION {ResultExecutions(t) : t \in DOMAIN work}
           p == [session EXCEPT !.executions = @ \cup audit, !.candidates = @ \cup found,
                                !.review = IF @ = "none" /\ found # {} THEN "open" ELSE @]
           m == [memory EXCEPT !.rounds = LargerOf(@, RoundOf)]
<1>1. /\ runState = "running" /\ step = "round" /\ \A t \in DOMAIN work : work[t].pc # "run"
      /\ IF RoundFailed(RoundOf) THEN Fails(p, FALSE) ELSE Done(p, m)
  BY DEF EndRound
<1>2. /\ session \in Projections /\ memory \in Memories /\ session.status = "running"
      /\ phases \in 0..10 /\ Stage(session, phases, FirstCount)
      /\ resumes = 0 => Remembers(session, memory, phases, InTrouble)
      /\ Grounded(session, session.evidence) /\ PlanFits(session)
  BY <1>1, AtWork
<1>3. /\ phases \in {3, 5} /\ DOMAIN work = Round(RoundOf) /\ DOMAIN work # {}
      /\ session.plan # "stop" /\ CopyFits
  BY <1>1 DEF V11Inv, ControlFits, SessionFits
<1>4. /\ Round(2) = Extra(session) /\ RoundOf = IF phases = 3 THEN 1 ELSE 2
      /\ phases = 3 => Extra(session) = {}
  <2>1. Phase \in {"investigator_round_1", "investigator_round_2"} BY <1>3, PhaseIs
  <2> QED BY <2>1, <1>1, RoundIs
<1>5. phases = 5 => Extra(session) # {} BY <1>3, <1>4
<1>6. PICK X \in SUBSET AllTasks : work \in [X -> Workers] BY DEF V11Inv, WorkflowTyped, Crews
<1>7. found \subseteq Candidates /\ \A c \in found : c.support \subseteq session.evidence
  <2> SUFFICES ASSUME NEW t \in X, work[t].pc = "done"
               PROVE  /\ [task |-> t, support |-> work[t].draft] \in Candidates
                      /\ work[t].draft \subseteq session.evidence
    BY <1>6
  <2>1. work[t] \in Workers BY <1>6
  <2>2. work[t].draft \subseteq session.evidence BY <1>1, <1>3, <1>6 DEF CopyFits
  <2> QED BY <2>1, <2>2, <1>6 DEF Workers, Candidates
<1>8. audit \subseteq Executions /\ \A e \in audit : e.actor # "validator"
  <2> SUFFICES ASSUME NEW t \in X, NEW s \in {"completed", "failed"}
               PROVE  /\ Exec(t, RoundOf, 1, s) \in Executions
                      /\ Exec(t, RoundOf, 1, s).actor # "validator"
    BY <1>6 DEF ResultExecutions
  <2>1. t \in AllTasks /\ t # "validator" BY <1>6, WorkflowAssumption DEF AllTasks
  <2> QED BY <2>1, <1>4 DEF Exec, Executions
<1>9. InTrouble => \E e \in audit : e.status = "failed" /\ e.actor # "validator"
  <2> HAVE InTrouble
  <2>1. PICK t \in DOMAIN work : Troubled(work[t]) BY DEF InTrouble
  <2>2. Exec(t, RoundOf, 1, "failed") \in ResultExecutions(t)
    BY <2>1 DEF ResultExecutions, Troubled
  <2>3. Exec(t, RoundOf, 1, "failed") \in audit BY <2>1, <2>2
  <2>4. Exec(t, RoundOf, 1, "failed").status = "failed" BY DEF Exec
  <2> QED BY <1>8, <2>3, <2>4
<1> HIDE DEF found, audit
<1>10. /\ p \in Projections /\ p.executions = session.executions \cup audit
       /\ p.candidates = session.candidates \cup found
  BY <1>2, <1>7, <1>8 DEF Projections
<1>11. session.review = "open" => p.review = "open" BY <1>2 DEF Projections
<1>12. /\ p.status = "running" /\ p.calls = session.calls /\ p.evidence = session.evidence
       /\ p.plan = session.plan /\ p.tasks = session.tasks /\ p.owner = session.owner
       /\ p.verdicts = session.verdicts /\ p.reviewRound = session.reviewRound
       /\ p.decision = session.decision /\ p.diagnosis = session.diagnosis
  BY <1>2 DEF Projections
<1>13. /\ m \in Memories /\ m.admitted = memory.admitted /\ m.noted = memory.noted
       /\ m.failures = memory.failures /\ m.rounds = LargerOf(memory.rounds, RoundOf)
  BY <1>2, <1>4 DEF Memories, LargerOf
<1> HIDE DEF p, m
<1>14. /\ Extra(p) = Extra(session) /\ Planned(p) = Planned(session) /\ PlanFits(p)
       /\ Names(session) \subseteq Names(p)
  BY <1>2, <1>10, <1>12 DEF Extra, Planned, PlanFits, Names
<1>15. Grounded(p, p.evidence) BY <1>2, <1>7, <1>10, <1>12 DEF Grounded
<1>16. CASE RoundFailed(RoundOf)
  <2>1. phases # 0 /\ ~(phases >= 8) /\ FALSE \in BOOLEAN BY <1>3
  <2>2. Fails(p, FALSE) BY <1>1, <1>16
  <2> QED BY <1>1, <1>10, <1>12, <1>14, <1>15, <2>1, <2>2, FailsStep
<1>17. CASE ~RoundFailed(RoundOf)
  <2>1. Done(p, m) /\ phases \in 1..9 /\ phases # 0 BY <1>1, <1>3, <1>17
  <2>2. Stage(p, phases + 1, FirstCount)
    <3>1. Unvalidated(p) BY <1>2, <1>8, <1>10 DEF Stage, Unvalidated
    <3>2. BatchFits(p, FirstCount) BY <1>2, <1>12, <1>14 DEF Stage, BatchFits
    <3>3. PlanStands(p, phases + 1) BY <1>2, <1>3, <1>4, <1>12, <1>14 DEF Stage, PlanStands
    <3>4. CriticStands(p, phases + 1)
      BY <1>2, <1>3, <1>5, <1>11, <1>12, <1>14 DEF Stage, CriticStands
    <3>5. DiagnosisStands(p, phases + 1) BY <1>2, <1>3, <1>12 DEF Stage, DiagnosisStands
    <3> QED BY <3>1, <3>2, <3>3, <3>4, <3>5 DEF Stage
  <2>3. resumes = 0 => Remembers(p, m, phases + 1, FALSE)
    <3> HAVE resumes = 0
    <3>1. Remembers(session, memory, phases, InTrouble) BY <1>2
    <3>2. m.failures \subseteq {e \in p.executions : e.status = "failed"}
      BY <1>10, <1>13, <3>1 DEF Remembers
    <3>3. m.noted => Faulty(p) BY <1>9, <1>10, <1>13, <3>1 DEF Remembers, Faulty
    <3>4. m.rounds = 2 <=> (phases + 1 >= 6 /\ Extra(p) # {})
      <4>1. memory.rounds \in 0..2 BY <1>2 DEF Memories
      <4>2. memory.rounds = 2 <=> (phases >= 6 /\ Extra(session) # {}) BY <3>1 DEF Remembers
      <4> QED BY <1>3, <1>4, <1>5, <1>13, <1>14, <4>1, <4>2 DEF LargerOf
    <3> QED BY <1>3, <3>2, <3>3, <3>4 DEF Remembers
  <2>4. OutputFits(p, m)
    BY <1>1, <1>12, <1>13, <1>14, <1>15, <2>1, <2>2, <2>3, GoesOn
  <2> QED BY <1>1, <1>10, <1>13, <2>1, <2>4, DoneStep
<1> QED BY <1>16, <1>17

-----------------------------------------------------------------------------
(* The Critic *)

LEMMA NamesAreTasks ==
    ASSUME NEW p \in Projections
    PROVE  Names(p) \subseteq AllTasks
BY DEF Names, Projections, Candidates

LEMMA CriticExecutionsAre ==
    ASSUME NEW k \in 1..2, NEW retried \in BOOLEAN
    PROVE  /\ CriticExecutions(k, retried) \subseteq Executions
           /\ \A e \in CriticExecutions(k, retried) : e.actor = "critic"
           /\ \E e \in CriticExecutions(k, retried) : e.status = "completed" /\ e.round = k
<1>1. \A n \in 1..2, s \in {"completed", "failed"} :
         /\ Exec("critic", k, n, s) \in Executions /\ Exec("critic", k, n, s).actor = "critic"
         /\ Exec("critic", k, n, s).status = s /\ Exec("critic", k, n, s).round = k
  BY DEF Exec, Executions
<1> QED BY <1>1 DEF CriticExecutions

LEMMA DecisionIs ==
    ASSUME NEW p, NEW q, NEW m, NEW verdicts \in [Names(p) -> Verdicts],
           NEW d \in [action: {"conclude", "inconclusive"}, published: SUBSET Names(p), unsure: BOOLEAN],
           Publishable(p, m, verdicts, d), q.candidates = p.candidates,
           q.verdicts = verdicts, q.decision = d, Ran(q, "critic")
    PROVE  Decided(q)
<1>1. Names(q) = Names(p) BY DEF Names
<1>2. CASE d.action = "conclude" BY <1>1, <1>2 DEF Publishable, Decided
<1>3. CASE d.action = "inconclusive" BY <1>1, <1>3 DEF Publishable, Decided
<1> QED BY <1>2, <1>3

\* The Critic's answer enters the projection.
Written(p, k, retried, verdicts, d) ==
    [p EXCEPT !.verdicts = verdicts, !.reviewRound = k, !.review = "open",
              !.decision = d, !.executions = @ \cup CriticExecutions(k, retried)]

LEMMA CriticWrites ==
    ASSUME NEW p \in Projections, NEW k \in 1..2, NEW retried \in BOOLEAN,
           NEW verdicts \in [Names(p) -> Verdicts], NEW d \in Decisions,
           NEW q, q = Written(p, k, retried, verdicts, d)
    PROVE  /\ q \in Projections /\ q.verdicts = verdicts /\ q.reviewRound = k
           /\ q.review = "open" /\ q.decision = d
           /\ q.executions = p.executions \cup CriticExecutions(k, retried)
           /\ q.status = p.status /\ q.calls = p.calls /\ q.evidence = p.evidence
           /\ q.plan = p.plan /\ q.tasks = p.tasks /\ q.owner = p.owner
           /\ q.candidates = p.candidates /\ q.diagnosis = p.diagnosis
<1>1. verdicts \in Rulings BY NamesAreTasks DEF Rulings
<1>2. CriticExecutions(k, retried) \subseteq Executions BY CriticExecutionsAre
<1> DEFINE more == p.executions \cup CriticExecutions(k, retried)
<1>3. more \subseteq Executions BY <1>2 DEF Projections
<1> HIDE DEF more
<1>4. q = [p EXCEPT !.verdicts = verdicts, !.reviewRound = k, !.review = "open",
                    !.decision = d, !.executions = more]
  BY DEF Written, more
<1>5. q \in Projections
  <2>1. k \in 0..2 OBVIOUS
  <2>2. [p EXCEPT !.verdicts = verdicts, !.executions = more] \in Projections
    BY <1>1, <1>3, ProjectionsAre
  <2>3. ASSUME NEW r \in Projections
        PROVE  [r EXCEPT !.reviewRound = k, !.review = "open", !.decision = d] \in Projections
    BY <2>1, ProjectionsAre
  <2> QED BY <1>4, <2>2, <2>3
<1>6. /\ q.verdicts = verdicts /\ q.reviewRound = k /\ q.review = "open" /\ q.decision = d
      /\ q.executions = more /\ q.status = p.status /\ q.calls = p.calls
      /\ q.evidence = p.evidence /\ q.plan = p.plan /\ q.tasks = p.tasks /\ q.owner = p.owner
      /\ q.candidates = p.candidates /\ q.diagnosis = p.diagnosis
  BY <1>4 DEF Projections
<1> QED BY <1>5, <1>6 DEF more

\* What follows for the stage and the memory, whoever the tasks belong to.
LEMMA CriticKeeps ==
    ASSUME NEW p, NEW q, NEW m, NEW k \in 1..2, NEW retried \in BOOLEAN, NEW d \in {4, 6},
           NEW n, NEW b, Stage(p, d, n), p.plan # "stop", k = IF d = 4 THEN 1 ELSE 2,
           q.executions = p.executions \cup CriticExecutions(k, retried),
           q.plan = p.plan, q.diagnosis = p.diagnosis,
           q.tasks = p.tasks \/ d = 4, Extra(q) = {} => k = 1,
           Extra(q) # {} /\ k = 1 => q.decision = Undecided
    PROVE  /\ Unvalidated(q) /\ PlanStands(q, d + 1) /\ DiagnosisStands(q, d + 1)
           /\ Ran(q, "critic") \/ (Extra(q) # {} /\ d = 4)
           /\ Remembers(p, m, d, b) => Remembers(q, m, d + 1, b)
<1>1. /\ \A e \in CriticExecutions(k, retried) : e.actor = "critic"
      /\ \E e \in CriticExecutions(k, retried) : e.status = "completed" /\ e.round = k
  BY CriticExecutionsAre
<1>2. Unvalidated(q) BY <1>1 DEF Stage, Unvalidated
<1>3. PlanStands(q, d + 1) BY DEF Stage, PlanStands, Extra
<1>4. DiagnosisStands(q, d + 1) BY DEF Stage, DiagnosisStands
<1>5. Ran(q, "critic") \/ (Extra(q) # {} /\ d = 4) BY <1>1 DEF Ran, LastRound
<1>6. ASSUME Remembers(p, m, d, b) PROVE Remembers(q, m, d + 1, b)
  <2>1. m.failures \subseteq {e \in q.executions : e.status = "failed"} BY <1>6 DEF Remembers
  <2>2. m.noted => Faulty(q) \/ b BY <1>6 DEF Remembers, Faulty
  <2>3. m.rounds = 2 <=> (d + 1 >= 6 /\ Extra(q) # {}) BY <1>6 DEF Remembers, Extra
  <2> QED BY <2>1, <2>2, <2>3 DEF Remembers
<1> QED BY <1>2, <1>3, <1>4, <1>5, <1>6

LEMMA BatchIs ==
    ASSUME V11Inv, runState = "running", step = "phase", NEW needs \in SUBSET AllTasks,
           NEW o \in SupplementalBatch(needs)
    PROVE  /\ o \in Owners /\ DOMAIN o \subseteq ExtraTasks
           /\ needs = {o[t] : t \in DOMAIN o}
           /\ Cardinality(DOMAIN o) <= ToolBudget - FirstCount
<1>1. PICK X \in SUBSET ExtraTasks : o \in [X -> needs] BY DEF SupplementalBatch
<1>2. o \in [X -> AllTasks] /\ DOMAIN o = X BY <1>1
<1>3. /\ needs = {o[t] : t \in DOMAIN o}
      /\ Cardinality(DOMAIN o) <= SmallerOf(3, RemainingTools)
  BY DEF SupplementalBatch
<1>4. Budgeted = Spent /\ IsFiniteSet(Spent) /\ Cardinality(Spent) <= ToolBudget
  BY AtWork DEF Budgeted, V11Inv, BudgetFits
<1>5. FirstCount <= Cardinality(Spent) /\ FirstCount \in Nat /\ Cardinality(Spent) \in Nat
  <2>1. FirstSpent \subseteq Spent BY DEF FirstSpent
  <2> QED BY <2>1, <1>4, FS_Subset, FS_CardinalityType DEF FirstCount
<1>6. Cardinality(DOMAIN o) \in Nat
  BY <1>2, WorkflowAssumption, FS_Subset, FS_CardinalityType
<1>7. RemainingTools = ToolBudget - Cardinality(Spent) /\ RemainingTools \in Nat
  BY <1>4, <1>5, WorkflowAssumption DEF RemainingTools, LargerOf
<1>8. Cardinality(DOMAIN o) <= RemainingTools
  BY <1>3, <1>6, <1>7 DEF SmallerOf
<1> QED BY <1>2, <1>3, <1>5, <1>6, <1>7, <1>8, WorkflowAssumption DEF Owners

\* What the Critic finds when it is asked.
LEMMA CriticFinds ==
    ASSUME V11Inv, runState = "running", step = "phase", phases \in {4, 6}, session.plan # "stop"
    PROVE  /\ session \in Projections /\ Restored(memory, session) \in Memories
           /\ Restored(memory, session).admitted = memory.admitted
           /\ session.status = "running" /\ Stage(session, phases, FirstCount)
           /\ resumes = 0 => Remembers(session, Restored(memory, session), phases, FALSE)
           /\ Grounded(session, session.evidence) /\ PlanFits(session)
           /\ session.diagnosis = "none" /\ Extra(session) = DOMAIN session.owner
<1>1. /\ session \in Projections /\ memory \in Memories /\ session.status = "running"
      /\ phases \in 0..10 /\ Stage(session, phases, FirstCount)
      /\ resumes = 0 => Remembers(session, memory, phases, InTrouble)
      /\ Grounded(session, session.evidence) /\ PlanFits(session) /\ ~InTrouble
  BY AtWork
<1>2. Restored(memory, session) \in Memories
        /\ Restored(memory, session).admitted = memory.admitted
  BY <1>1, RestoredIs
<1>3. resumes = 0 => Remembers(session, Restored(memory, session), phases, FALSE)
  <2> HAVE resumes = 0
  <2>1. Remembers(session, memory, phases, FALSE) BY <1>1 DEF Remembers
  <2>2. phases \in Nat /\ FALSE \in BOOLEAN OBVIOUS
  <2> QED BY <1>1, <2>1, <2>2, RestoredRemembers, Zenon
<1>4. session.diagnosis = "none" BY <1>1 DEF Stage, DiagnosisStands
<1>5. Extra(session) = DOMAIN session.owner BY <1>1 DEF Stage, BatchFits
<1> QED BY <1>1, <1>2, <1>3, <1>4, <1>5

LEMMA CriticReviewStep == ASSUME V11Inv, CriticReview PROVE V11Inv'
<1> DEFINE m == Restored(memory, session)
<1>1. runState = "running" /\ step = "phase" /\ phases = 4 /\ session.plan # "stop"
  BY AtWork, PhaseIs DEF CriticReview, At, Stopped
<1>2. /\ session \in Projections /\ m \in Memories /\ m.admitted = memory.admitted
      /\ session.status = "running" /\ Stage(session, 4, FirstCount)
      /\ resumes = 0 => Remembers(session, m, 4, FALSE)
      /\ Grounded(session, session.evidence) /\ PlanFits(session)
      /\ session.diagnosis = "none" /\ Extra(session) = DOMAIN session.owner
  BY <1>1, CriticFinds
<1>3. session.decision = Undecided /\ Extra(session) = {}
  BY <1>1, <1>2 DEF Stage, PlanStands
<1>4. PICK verdicts \in [Names(session) -> Verdicts], retried \in BOOLEAN :
        LET needs == {t \in Names(session) : verdicts[t] = "needs"}
            p == [session EXCEPT !.verdicts = verdicts, !.reviewRound = 1, !.review = "open",
                                 !.executions = @ \cup CriticExecutions(1, retried)]
        IN  \/ /\ needs # {}
               /\ \E o \in SupplementalBatch(needs) : Done(SupplementedBy(p, o), m)
            \/ /\ needs = {}
               /\ \E d \in [action: {"conclude", "inconclusive"}, published: SUBSET Names(session),
                            unsure: BOOLEAN] :
                    /\ Publishable(session, m, verdicts, d)
                    /\ Done([p EXCEPT !.decision = d], m)
  BY DEF CriticReview, Assessments
<1> HIDE DEF m
<1> DEFINE needs == {t \in Names(session) : verdicts[t] = "needs"}
           p == [session EXCEPT !.verdicts = verdicts, !.reviewRound = 1, !.review = "open",
                                !.executions = @ \cup CriticExecutions(1, retried)]
<1>5. phases \in 1..9 /\ phases # 0 /\ phases + 1 = 5 /\ 1 \in 1..2 /\ 4 \in {4, 6} BY <1>1
<1>6. CASE /\ needs # {}
           /\ \E o \in SupplementalBatch(needs) : Done(SupplementedBy(p, o), m)
  <2>1. PICK o \in SupplementalBatch(needs) : Done(SupplementedBy(p, o), m) BY <1>6
  <2>2. needs \subseteq Names(session) /\ needs \subseteq AllTasks BY <1>2, NamesAreTasks
  <2>3. /\ o \in Owners /\ DOMAIN o \subseteq ExtraTasks
        /\ needs = {o[t] : t \in DOMAIN o}
        /\ Cardinality(DOMAIN o) <= ToolBudget - FirstCount
    BY <1>1, <2>2, BatchIs
  <2> DEFINE w == Written(session, 1, retried, verdicts, Undecided)
             q == [w EXCEPT !.tasks = @ \cup DOMAIN o, !.owner = o]
  <2>4. Undecided \in Decisions BY DEF Undecided, Decisions
  <2>5. /\ w \in Projections /\ w.verdicts = verdicts /\ w.reviewRound = 1
        /\ w.review = "open" /\ w.decision = Undecided
        /\ w.executions = session.executions \cup CriticExecutions(1, retried)
        /\ w.status = session.status /\ w.calls = session.calls /\ w.evidence = session.evidence
        /\ w.plan = session.plan /\ w.tasks = session.tasks /\ w.owner = session.owner
        /\ w.candidates = session.candidates /\ w.diagnosis = session.diagnosis
    BY <1>2, <1>5, <2>4, CriticWrites
  <2>6. w = p BY <1>2, <1>3 DEF Projections, Written
  <2>7. Done(q, m) BY <2>1, <2>6 DEF SupplementedBy
  <2> HIDE DEF w
  <2>8. q \in Projections
    <3>1. w.tasks \cup DOMAIN o \subseteq AllTasks BY <2>3, <2>5 DEF Projections, AllTasks
    <3> QED BY <2>3, <2>5, <3>1, ProjectionsAre
  <2>9. /\ q.verdicts = verdicts /\ q.reviewRound = 1 /\ q.review = "open"
        /\ q.decision = Undecided /\ q.owner = o /\ q.tasks = session.tasks \cup DOMAIN o
        /\ q.executions = session.executions \cup CriticExecutions(1, retried)
        /\ q.status = "running" /\ q.calls = session.calls /\ q.evidence = session.evidence
        /\ q.plan = session.plan /\ q.candidates = session.candidates
        /\ q.diagnosis = session.diagnosis
    BY <1>2, <2>5 DEF Projections
  <2> HIDE DEF q
  <2>10. /\ Extra(q) = DOMAIN o /\ Extra(q) # {} /\ Planned(q) = Planned(session) /\ PlanFits(q)
    <3>1. Extra(q) = DOMAIN o BY <1>3, <2>3, <2>9 DEF Extra
    <3>2. DOMAIN o # {} BY <1>6, <2>3
    <3>3. Planned(q) = Planned(session) BY <2>3, <2>9, WorkflowAssumption DEF Planned
    <3> QED BY <1>2, <3>1, <3>2, <3>3 DEF PlanFits
  <2>11. /\ Unvalidated(q) /\ PlanStands(q, 5) /\ DiagnosisStands(q, 5)
         /\ Remembers(session, m, 4, FALSE) => Remembers(q, m, 5, FALSE)
    <3>1. 4 + 1 = 5 OBVIOUS
    <3>2. /\ Unvalidated(q) /\ PlanStands(q, 4 + 1) /\ DiagnosisStands(q, 4 + 1)
          /\ Remembers(session, m, 4, FALSE) => Remembers(q, m, 4 + 1, FALSE)
      BY <1>1, <1>2, <1>5, <2>9, <2>10, CriticKeeps
    <3> QED BY <3>1, <3>2
  <2>12. Stage(q, 5, FirstCount)
    <3>1. BatchFits(q, FirstCount)
      <4>1. Names(q) = Names(session) /\ DOMAIN q.verdicts = Names(session)
        BY <2>9 DEF Names
      <4>2. \A t \in DOMAIN o : o[t] \in Names(session) BY <2>2, <2>3
      <4> QED BY <2>3, <2>9, <2>10, <4>1, <4>2 DEF BatchFits
    <3>2. CriticStands(q, 5) BY <2>9, <2>10 DEF CriticStands
    <3> QED BY <2>11, <3>1, <3>2 DEF Stage
  <2>13. Grounded(q, q.evidence) BY <1>2, <2>9 DEF Grounded
  <2>14. /\ Stage(q, phases + 1, FirstCount)
         /\ resumes = 0 => Remembers(q, m, phases + 1, FALSE)
    BY <1>2, <1>5, <2>11, <2>12
  <2>15. OutputFits(q, m) BY <1>1, <1>2, <1>5, <2>9, <2>10, <2>13, <2>14, GoesOn
  <2> QED BY <1>1, <1>2, <1>5, <2>7, <2>8, <2>15, DoneStep
<1>7. CASE \E d \in [action: {"conclude", "inconclusive"}, published: SUBSET Names(session),
                     unsure: BOOLEAN] :
             /\ Publishable(session, m, verdicts, d)
             /\ Done([p EXCEPT !.decision = d], m)
  <2>1. PICK d \in [action: {"conclude", "inconclusive"}, published: SUBSET Names(session),
                    unsure: BOOLEAN] :
             /\ Publishable(session, m, verdicts, d)
             /\ Done([p EXCEPT !.decision = d], m)
    BY <1>7
  <2> DEFINE q == Written(session, 1, retried, verdicts, d)
  <2>2. d \in Decisions BY <1>2, NamesAreTasks DEF Decisions
  <2>3. /\ q \in Projections /\ q.verdicts = verdicts /\ q.reviewRound = 1
        /\ q.review = "open" /\ q.decision = d
        /\ q.executions = session.executions \cup CriticExecutions(1, retried)
        /\ q.status = "running" /\ q.calls = session.calls /\ q.evidence = session.evidence
        /\ q.plan = session.plan /\ q.tasks = session.tasks /\ q.owner = session.owner
        /\ q.candidates = session.candidates /\ q.diagnosis = session.diagnosis
    BY <1>2, <1>5, <2>2, CriticWrites
  <2>4. q = [p EXCEPT !.decision = d] BY <1>2 DEF Projections, Written
  <2>5. Done(q, m) BY <2>1, <2>4
  <2> HIDE DEF q
  <2>6. Extra(q) = {} /\ Planned(q) = Planned(session) /\ PlanFits(q) /\ DOMAIN session.owner = {}
    BY <1>2, <1>3, <2>3 DEF Extra, Planned, PlanFits
  <2>7. /\ Unvalidated(q) /\ PlanStands(q, 5) /\ DiagnosisStands(q, 5) /\ Ran(q, "critic")
        /\ Remembers(session, m, 4, FALSE) => Remembers(q, m, 5, FALSE)
    <3>1. 4 + 1 = 5 OBVIOUS
    <3>2. /\ Unvalidated(q) /\ PlanStands(q, 4 + 1) /\ DiagnosisStands(q, 4 + 1)
          /\ Ran(q, "critic") \/ (Extra(q) # {} /\ 4 = 4)
          /\ Remembers(session, m, 4, FALSE) => Remembers(q, m, 4 + 1, FALSE)
      BY <1>1, <1>2, <1>5, <2>3, <2>6, CriticKeeps
    <3> QED BY <2>6, <3>1, <3>2
  <2>8. Decided(q) BY <2>1, <2>3, <2>7, DecisionIs
  <2>9. Stage(q, 5, FirstCount)
    <3>1. BatchFits(q, FirstCount) BY <2>3, <2>6 DEF BatchFits
    <3>2. CriticStands(q, 5) BY <2>3, <2>6, <2>8 DEF CriticStands
    <3> QED BY <2>7, <3>1, <3>2 DEF Stage
  <2>10. Grounded(q, q.evidence) BY <1>2, <2>3 DEF Grounded
  <2>11. /\ Stage(q, phases + 1, FirstCount)
         /\ resumes = 0 => Remembers(q, m, phases + 1, FALSE)
    BY <1>2, <1>5, <2>7, <2>9
  <2>12. OutputFits(q, m) BY <1>1, <1>2, <1>5, <2>3, <2>6, <2>10, <2>11, GoesOn
  <2> QED BY <1>1, <1>2, <1>5, <2>3, <2>5, <2>12, DoneStep
<1> QED BY <1>4, <1>6, <1>7

\* An execution of an actor that is no task.
LEMMA ActorExecution ==
    ASSUME NEW a \in {"critic", "lead", "validator"}, NEW k \in 1..2, NEW s \in {"completed", "failed"}
    PROVE  /\ Exec(a, k, 1, s) \in Executions /\ Exec(a, k, 1, s).actor = a
           /\ Exec(a, k, 1, s).round = k /\ Exec(a, k, 1, s).status = s
BY DEF Exec, Executions

LEMMA CriticFailsStep == ASSUME V11Inv, CriticFails PROVE V11Inv'
<1> DEFINE new == session.executions \cup {Exec("critic", 1, 1, "failed")}
           p == [session EXCEPT !.verdicts = <<>>, !.review = "open", !.executions = new]
<1>1. runState = "running" /\ step = "phase" /\ phases = 4
  BY AtWork, PhaseIs DEF CriticFails, At
<1>2. session \in Projections /\ Grounded(session, session.evidence) BY <1>1, AtWork
<1>3. <<>> \in Rulings
  <2>1. Fresh.verdicts = <<>> BY DEF Fresh
  <2> QED BY <2>1, FreshIs, ProjectionsAre
<1>4. new \subseteq Executions
  <2>1. Exec("critic", 1, 1, "failed") \in Executions BY ActorExecution
  <2> QED BY <2>1, <1>2 DEF Projections
<1>5. Fails(p, TRUE) BY DEF CriticFails
<1> HIDE DEF new
<1>6. p \in Projections BY <1>2, <1>3, <1>4, ProjectionsAre
<1>7. /\ p.calls = session.calls /\ p.evidence = session.evidence /\ p.tasks = session.tasks
      /\ p.candidates = session.candidates
  BY <1>2 DEF Projections
<1> HIDE DEF p
<1>8. Grounded(p, p.evidence) /\ Planned(p) = Planned(session) BY <1>2, <1>7 DEF Grounded, Planned
<1>9. phases # 0 /\ ~(phases >= 8) /\ TRUE \in BOOLEAN BY <1>1
<1> QED BY <1>1, <1>5, <1>6, <1>7, <1>8, <1>9, FailsStep

\* A phase that fails after execution e; nothing else is lost.
LEMMA FailsWith ==
    ASSUME V11Inv, runState = "running", step = "phase", phases # 0, NEW e \in Executions,
           Fails([session EXCEPT !.executions = @ \cup {e}], TRUE),
           resumes = 0 /\ phases >= 8 => Faulty(session)
    PROVE  V11Inv'
<1> DEFINE p == [session EXCEPT !.executions = @ \cup {e}]
<1>1. session \in Projections /\ Grounded(session, session.evidence) BY AtWork
<1>2. p \in Projections BY <1>1 DEF Projections
<1>3. /\ p.calls = session.calls /\ p.evidence = session.evidence /\ p.tasks = session.tasks
      /\ p.candidates = session.candidates /\ p.executions = session.executions \cup {e}
  BY <1>1 DEF Projections
<1>4. Fails(p, TRUE) OBVIOUS
<1> HIDE DEF p
<1>5. Grounded(p, p.evidence) /\ Planned(p) = Planned(session) BY <1>1, <1>3 DEF Grounded, Planned
<1>6. resumes = 0 /\ phases >= 8 => Faulty(p) BY <1>3 DEF Faulty
<1>7. TRUE \in BOOLEAN OBVIOUS
<1> QED BY <1>2, <1>3, <1>4, <1>5, <1>6, <1>7, FailsStep

LEMMA ReconciliationFailsStep == ASSUME V11Inv, ReconciliationFails PROVE V11Inv'
<1>1. runState = "running" /\ step = "phase" /\ phases = 6
  BY AtWork, PhaseIs DEF ReconciliationFails, At
<1>2. Exec("critic", 2, 1, "failed") \in Executions BY ActorExecution
<1>3. Fails([session EXCEPT !.executions = @ \cup {Exec("critic", 2, 1, "failed")}], TRUE)
  BY DEF ReconciliationFails
<1>4. phases # 0 /\ ~(phases >= 8) BY <1>1
<1> QED BY <1>1, <1>2, <1>3, <1>4, FailsWith

LEMMA CriticReconcilesStep == ASSUME V11Inv, CriticReconciles PROVE V11Inv'
<1> DEFINE m == Restored(memory, session)
<1>1. runState = "running" /\ step = "phase" /\ phases = 6 /\ session.plan # "stop"
  BY AtWork, PhaseIs DEF CriticReconciles, At, Stopped
<1>2. /\ session \in Projections /\ m \in Memories /\ m.admitted = memory.admitted
      /\ session.status = "running" /\ Stage(session, 6, FirstCount)
      /\ resumes = 0 => Remembers(session, m, 6, FALSE)
      /\ Grounded(session, session.evidence) /\ PlanFits(session)
      /\ session.diagnosis = "none" /\ Extra(session) = DOMAIN session.owner
  BY <1>1, CriticFinds
<1>3. Supplemented <=> Extra(session) # {} BY <1>2 DEF Supplemented, Round, Extra, Projections
<1>4. CASE ~Supplemented /\ Passes BY <1>1, <1>3, <1>4, PassesStep
<1>5. CASE ~(~Supplemented /\ Passes)
  <2>1. PICK verdicts \in Assessments(2), retried \in BOOLEAN,
             d \in [action: {"conclude", "inconclusive"}, published: SUBSET Names(session),
                    unsure: BOOLEAN] :
           /\ Supplemented
           /\ Publishable(session, m, verdicts, d)
           /\ Done([session EXCEPT !.verdicts = verdicts, !.reviewRound = 2, !.decision = d,
                        !.executions = @ \cup CriticExecutions(2, retried)], m)
    BY <1>5 DEF CriticReconciles
  <2> HIDE DEF m
  <2>2. verdicts \in [Names(session) -> Verdicts] BY <2>1 DEF Assessments
  <2> DEFINE q == Written(session, 2, retried, verdicts, d)
  <2>3. d \in Decisions BY <1>2, NamesAreTasks DEF Decisions
  <2>4. 2 \in 1..2 /\ 6 \in {4, 6} /\ phases \in 1..9 /\ phases # 0 /\ phases + 1 = 7 BY <1>1
  <2>5. /\ q \in Projections /\ q.verdicts = verdicts /\ q.reviewRound = 2
        /\ q.review = "open" /\ q.decision = d
        /\ q.executions = session.executions \cup CriticExecutions(2, retried)
        /\ q.status = "running" /\ q.calls = session.calls /\ q.evidence = session.evidence
        /\ q.plan = session.plan /\ q.tasks = session.tasks /\ q.owner = session.owner
        /\ q.candidates = session.candidates /\ q.diagnosis = session.diagnosis
    BY <1>2, <2>1, <2>2, <2>3, <2>4, CriticWrites
  <2>6. session.review = "open" BY <1>1, <1>2 DEF Stage, CriticStands
  <2>7. q = [session EXCEPT !.verdicts = verdicts, !.reviewRound = 2, !.decision = d,
                !.executions = @ \cup CriticExecutions(2, retried)]
    BY <1>2, <2>6 DEF Projections, Written
  <2>8. Done(q, m) BY <2>1, <2>7
  <2> HIDE DEF q
  <2>9. Extra(q) = Extra(session) /\ Extra(q) # {} /\ Planned(q) = Planned(session) /\ PlanFits(q)
    BY <1>2, <1>3, <2>1, <2>5 DEF Extra, Planned, PlanFits
  <2>10. /\ Unvalidated(q) /\ PlanStands(q, 7) /\ DiagnosisStands(q, 7) /\ Ran(q, "critic")
         /\ Remembers(session, m, 6, FALSE) => Remembers(q, m, 7, FALSE)
    <3>1. 6 + 1 = 7 /\ 2 = (IF 6 = 4 THEN 1 ELSE 2) /\ 6 # 4 /\ 2 # 1 OBVIOUS
    <3>2. /\ Unvalidated(q) /\ PlanStands(q, 6 + 1) /\ DiagnosisStands(q, 6 + 1)
          /\ Ran(q, "critic") \/ (Extra(q) # {} /\ 6 = 4)
          /\ Remembers(session, m, 6, FALSE) => Remembers(q, m, 6 + 1, FALSE)
      BY <1>1, <1>2, <2>1, <2>4, <2>5, <2>9, <3>1, CriticKeeps
    <3> QED BY <3>1, <3>2
  <2>11. Decided(q) BY <2>1, <2>2, <2>5, <2>10, DecisionIs
  <2>12. Stage(q, 7, FirstCount)
    <3>1. BatchFits(q, FirstCount)
      <4>1. Names(q) = Names(session) /\ DOMAIN q.verdicts = Names(session)
        BY <2>2, <2>5 DEF Names
      <4> QED BY <1>2, <2>5, <2>9, <4>1 DEF Stage, BatchFits
    <3>2. CriticStands(q, 7) BY <2>5, <2>11 DEF CriticStands
    <3> QED BY <2>10, <3>1, <3>2 DEF Stage
  <2>13. Grounded(q, q.evidence) BY <1>2, <2>5 DEF Grounded
  <2>14. /\ Stage(q, phases + 1, FirstCount)
         /\ resumes = 0 => Remembers(q, m, phases + 1, FALSE)
    BY <1>2, <2>4, <2>10, <2>12
  <2>15. OutputFits(q, m) BY <1>1, <1>2, <2>4, <2>5, <2>9, <2>13, <2>14, GoesOn
  <2> QED BY <1>1, <1>2, <2>4, <2>5, <2>8, <2>15, DoneStep
<1> QED BY <1>4, <1>5

-----------------------------------------------------------------------------
(* Publication *)

\* A failure memory without failures: every failed execution was made good.
LEMMA NoFailureIsMended ==
    ASSUME NEW p \in Projections, NEW m \in Memories, Restored(m, p).failures = {}
    PROVE  Mended(p)
<1>1. {e \in p.executions : e.status = "failed"} \subseteq Resolved(p.executions)
  BY RestoredIs
<1> QED BY <1>1 DEF Resolved, Mended

LEMMA LeadAdjudicationStep == ASSUME V11Inv, LeadAdjudication PROVE V11Inv'
<1> DEFINE m == Restored(memory, session)
           round == IF m.rounds = 2 THEN 2 ELSE 1
           d == session.decision
           lead == Exec("lead", round, 1, "completed")
           q == [session EXCEPT !.diagnosis = DiagnosticStatus(m, d), !.executions = @ \cup {lead}]
<1>1. runState = "running" /\ step = "phase" /\ phases = 7 /\ session.plan # "stop"
  BY AtWork, PhaseIs DEF LeadAdjudication, At, Stopped
<1>2. /\ session \in Projections /\ memory \in Memories /\ session.status = "running"
      /\ Stage(session, 7, FirstCount)
      /\ resumes = 0 => Remembers(session, memory, 7, InTrouble)
      /\ Grounded(session, session.evidence) /\ PlanFits(session) /\ ~InTrouble
  BY <1>1, AtWork
<1>3. m \in Memories /\ m.admitted = memory.admitted BY <1>2, RestoredIs
<1>4. resumes = 0 => Remembers(session, m, 7, FALSE)
  <2> HAVE resumes = 0
  <2>1. Remembers(session, memory, 7, FALSE) BY <1>2 DEF Remembers
  <2>2. 7 \in Nat /\ FALSE \in BOOLEAN OBVIOUS
  <2> QED BY <1>2, <2>1, <2>2, RestoredRemembers, Zenon
<1>5. Decided(session) /\ session.review = "open" BY <1>1, <1>2 DEF Stage, CriticStands
<1>6. CASE d.action = "none"
  <2>1. FALSE BY <1>5, <1>6 DEF Decided
  <2> QED BY <2>1
<1>7. CASE d.action # "none"
  <2>1. Done(q, m) BY <1>7 DEF LeadAdjudication
  <2>2. m.failures = {} => Mended(session) BY <1>2, NoFailureIsMended
  <2> HIDE DEF m
  <2>3. round \in 1..2 OBVIOUS
  <2> HIDE DEF round
  <2>4. lead \in Executions /\ lead.actor = "lead" /\ lead.status = "completed" /\ lead.round = round
    BY <2>3, ActorExecution
  <2> HIDE DEF lead
  <2>5. DiagnosticStatus(m, d) \in {"partial", "complete", "inconclusive"}
    BY DEF DiagnosticStatus
  <2>6. /\ d.action = "conclude" \/ (d.action = "inconclusive" /\ ~d.unsure)
    BY <1>5 DEF Decided
  <2>7. /\ d.unsure => DiagnosticStatus(m, d) = "partial"
        /\ DiagnosticStatus(m, d) \in {"complete", "partial"} => d.action = "conclude"
        /\ DiagnosticStatus(m, d) = "complete" => ~Failing(m)
        /\ DiagnosticStatus(m, d) = "partial" => Failing(m) \/ d.unsure
    BY <2>6 DEF DiagnosticStatus
  <2> DEFINE s == DiagnosticStatus(m, d)
  <2> HIDE DEF s
  <2>8. s \in Diagnosis BY <2>5 DEF s, Diagnosis
  <2>9. q \in Projections BY <1>2, <2>4, <2>8 DEF s, Projections
  <2>10. /\ q.status = "running" /\ q.calls = session.calls /\ q.evidence = session.evidence
         /\ q.plan = session.plan /\ q.tasks = session.tasks /\ q.owner = session.owner
         /\ q.candidates = session.candidates /\ q.verdicts = session.verdicts
         /\ q.reviewRound = session.reviewRound /\ q.decision = d /\ q.review = session.review
         /\ q.executions = session.executions \cup {lead} /\ q.diagnosis = s
    BY <1>2 DEF s, Projections
  <2> HIDE DEF q
  <2>11. Extra(q) = Extra(session) /\ Planned(q) = Planned(session) /\ PlanFits(q)
           /\ Names(q) = Names(session)
    BY <1>2, <2>10 DEF Extra, Planned, PlanFits, Names
  <2>12. Stage(q, 8, FirstCount)
    <3>1. Unvalidated(q) BY <1>2, <2>4, <2>10 DEF Stage, Unvalidated
    <3>2. BatchFits(q, FirstCount) BY <1>2, <2>10, <2>11 DEF Stage, BatchFits
    <3>3. PlanStands(q, 8) BY <1>1, <2>10 DEF PlanStands
    <3>4. CriticStands(q, 8)
      <4>1. Ran(q, "critic") BY <1>5, <2>10, <2>11 DEF Decided, Ran, LastRound
      <4>2. Decided(q) BY <1>5, <2>10, <2>11, <4>1 DEF Decided
      <4>3. Extra(q) # {} => q.reviewRound = 2
        BY <1>1, <1>2, <2>10, <2>11 DEF Stage, CriticStands
      <4> QED BY <1>5, <2>10, <4>2, <4>3 DEF CriticStands
    <3>5. s = "complete" => Mended(q)
      <4> HAVE s = "complete"
      <4>1. Mended(session) BY <2>2, <2>7 DEF s, Failing
      <4> QED BY <2>4, <2>10, <4>1 DEF Mended
    <3>6. DiagnosisStands(q, 8) BY <2>7, <2>10, <3>5 DEF DiagnosisStands, s
    <3> QED BY <3>1, <3>2, <3>3, <3>4, <3>6 DEF Stage
  <2>13. resumes = 0 => Remembers(q, m, 8, FALSE)
    <3> HAVE resumes = 0
    <3>1. Remembers(session, m, 7, FALSE) BY <1>4
    <3>2. m.failures \subseteq {e \in q.executions : e.status = "failed"}
      BY <2>10, <3>1 DEF Remembers
    <3>3. m.noted => Faulty(q) BY <2>10, <3>1 DEF Remembers, Faulty
    <3>4. m.rounds = 2 <=> Extra(q) # {} BY <2>11, <3>1 DEF Remembers
    <3>5. Ran(q, "lead")
      <4>1. round = LastRound(q) BY <3>4 DEF LastRound, round
      <4> QED BY <2>4, <2>10, <4>1 DEF Ran
    <3>6. Failing(m) => Faulty(q)
      <4>1. Unvalidated(session) BY <1>2 DEF Stage
      <4>2. m.failures # {} => Faulty(session) BY <3>1, <4>1 DEF Remembers, Faulty, Unvalidated
      <4> QED BY <2>10, <3>3, <4>2 DEF Failing, Faulty
    <3>7. q.diagnosis = "partial" => Faulty(q) \/ q.decision.unsure BY <2>7, <2>10, <3>6 DEF s
    <3>8. m.rounds = 2 <=> (8 >= 6 /\ Extra(q) # {}) BY <3>4
    <3> QED BY <3>2, <3>3, <3>5, <3>7, <3>8 DEF Remembers
  <2>14. Grounded(q, q.evidence) BY <1>2, <2>10 DEF Grounded
  <2>15. phases \in 1..9 /\ phases # 0 /\ phases + 1 = 8 BY <1>1
  <2>16. /\ Stage(q, phases + 1, FirstCount)
         /\ resumes = 0 => Remembers(q, m, phases + 1, FALSE)
    BY <2>12, <2>13, <2>15
  <2>17. OutputFits(q, m) BY <1>1, <1>3, <2>10, <2>11, <2>14, <2>15, <2>16, GoesOn
  <2> QED BY <1>1, <1>3, <2>1, <2>9, <2>15, <2>17, DoneStep
<1> QED BY <1>6, <1>7

\* A run that was not resumed and lost no actor passes the validation.
LEMMA CleanIsValid ==
    ASSUME V11Inv, NEW p \in Projections, NEW m, NEW n, NEW b, Stage(p, 8, n), Remembers(p, m, 8, b),
           Grounded(p, p.evidence), p.plan # "stop", ~Faulty(p)
    PROVE  ValidResult(p)
<1>1. /\ p.review = "open" /\ Decided(p)
      /\ Extra(p) # {} => p.reviewRound = 2
  BY DEF Stage, CriticStands
<1>2. BatchFits(p, n) BY DEF Stage
<1>3. /\ p.decision.unsure => p.diagnosis = "partial"
      /\ p.diagnosis \in {"complete", "partial"} => p.decision.action = "conclude"
  BY DEF Stage, DiagnosisStands
<1>4. Ran(p, "lead") /\ (p.diagnosis = "partial" => p.decision.unsure) BY DEF Remembers
<1>5. \A c \in p.candidates : c.support \subseteq p.evidence BY DEF Grounded
<1>6. ReviewConsistent(p) BY <1>1 DEF ReviewConsistent, Decided
<1>7. AssessmentsValid(p) BY <1>1 DEF AssessmentsValid, Decided
<1>8. SupplementLinked(p) BY <1>1, <1>2 DEF SupplementLinked, BatchFits, Extra
<1>9. \A t \in p.decision.published : p.verdicts[t] = "doubt" => p.decision.unsure
  BY <1>1 DEF Decided
<1>10. Covered(p) BY <1>1, <1>4 DEF Covered, Decided, Ran, LastRound, Extra
<1>11. p.diagnosis = "partial" =>
         \A c \in p.candidates : c.task \in p.decision.published => Cardinality(c.support) >= 2
  BY <1>1, <1>4 DEF Decided
<1> QED BY <1>1, <1>3, <1>5, <1>6, <1>7, <1>8, <1>9, <1>10, <1>11 DEF ValidResult

LEMMA ResultValidationStep == ASSUME V11Inv, ResultValidation PROVE V11Inv'
<1>1. runState = "running" /\ step = "phase" /\ phases = 8 /\ session.plan # "stop"
  BY AtWork, PhaseIs DEF ResultValidation, At, Stopped
<1>2. /\ session \in Projections /\ memory \in Memories /\ session.status = "running"
      /\ Stage(session, 8, FirstCount)
      /\ resumes = 0 => Remembers(session, memory, 8, InTrouble)
      /\ Grounded(session, session.evidence) /\ PlanFits(session) /\ ~InTrouble
  BY <1>1, AtWork
<1>3. resumes = 0 => Remembers(session, memory, 8, FALSE) BY <1>2 DEF Remembers
<1>4. CASE ValidResult(session)
  <2>1. Done(session, memory) BY <1>4 DEF ResultValidation
  <2>2. Justified(session)
    <3>1. \A t \in session.decision.published : session.verdicts[t] \in {"accept", "doubt"}
      BY <1>4 DEF ValidResult, ReviewConsistent
    <3>2. session.diagnosis = "partial" =>
            \A c \in session.candidates : c.task \in session.decision.published =>
              Cardinality(c.support) >= 2
      BY <1>4 DEF ValidResult
    <3> QED BY <3>1, <3>2 DEF Justified
  <2>3. Stage(session, 9, FirstCount)
    <3>1. PlanStands(session, 9) BY <1>1 DEF PlanStands
    <3>2. CriticStands(session, 9) BY <1>2 DEF Stage, CriticStands
    <3>3. DiagnosisStands(session, 9) BY <1>2, <2>2 DEF Stage, DiagnosisStands
    <3> QED BY <1>2, <3>1, <3>2, <3>3 DEF Stage
  <2>4. resumes = 0 => Remembers(session, memory, 9, FALSE) BY <1>3 DEF Remembers
  <2>5. phases \in 1..9 /\ phases # 0 /\ phases + 1 = 9 BY <1>1
  <2>6. /\ Stage(session, phases + 1, FirstCount)
        /\ resumes = 0 => Remembers(session, memory, phases + 1, FALSE)
    BY <2>3, <2>4, <2>5
  <2>7. OutputFits(session, memory) BY <1>1, <1>2, <2>5, <2>6, GoesOn
  <2> QED BY <1>1, <1>2, <2>1, <2>5, <2>7, DoneStep
<1>5. CASE ~ValidResult(session)
  <2>1. Exec("validator", 1, 1, "failed") \in Executions BY ActorExecution
  <2>2. Fails([session EXCEPT !.executions = @ \cup {Exec("validator", 1, 1, "failed")}], TRUE)
    BY <1>5 DEF ResultValidation, ValidatorRejects
  <2>3. resumes = 0 => Faulty(session) BY <1>1, <1>2, <1>3, <1>5, CleanIsValid
  <2>4. phases # 0 BY <1>1
  <2> QED BY <1>1, <2>1, <2>2, <2>3, <2>4, FailsWith
<1> QED BY <1>4, <1>5

-----------------------------------------------------------------------------
(* Sessions and commits *)

LEMMA BeginStep == ASSUME V11Inv, Begin PROVE V11Inv'
<1>1. /\ runState = "running" /\ step = "idle" /\ step' = "phase"
      /\ session' = [session EXCEPT !.status = durable.status, !.evidence = durable.evidence,
                                    !.calls = durable.calls, !.summary = durable.summary,
                                    !.report = durable.report]
      /\ UNCHANGED <<durable, phases, called, runState, resumes, memory, work>>
  BY DEF Begin
<1>2. session \in Projections /\ durable \in Projections
  BY DEF V11Inv, WorkflowTyped, WorkflowTypeOK
<1>3. session' \in Projections BY <1>1, <1>2 DEF Projections
<1>4. /\ SameWork(session, session') /\ session'.status = durable.status
      /\ session'.evidence = durable.evidence /\ session'.calls = durable.calls
  BY <1>1, <1>2 DEF Projections, SameWork
<1>5. Spent' = Spent /\ FirstSpent' = FirstSpent /\ FirstCount' = FirstCount
  BY <1>1 DEF Spent, FirstSpent, FirstCount
<1>6. /\ CopyFits /\ phases \in 0..10 /\ Applied = phases /\ Applied' = phases /\ ~InTrouble
      /\ durable.status = "running"
  <2>1. durable.status = "running" /\ CopyFits BY <1>1 DEF V11Inv, DurableFits, SessionFits
  <2>2. phases \in 0..10
    BY <1>1, WorkflowAssumption DEF V11Inv, ControlFits, WorkflowTyped, WorkflowTypeOK, Order
  <2> QED BY <2>1, <2>2, <1>1 DEF Applied, InTrouble
<1>7. session.status # "failed" BY <1>1, <1>6 DEF CopyFits
<1>8. WorkflowTyped' BY <1>1, <1>3 DEF V11Inv, WorkflowTyped, WorkflowTypeOK, Memories
<1>9. ControlFits' BY <1>1, <1>5 DEF V11Inv, ControlFits
<1>10. DurableFits' BY <1>1, <1>5 DEF V11Inv, DurableFits, PlanFits, Planned
<1>11. CopyFits'
  <2>1. Stage(session', Applied', FirstCount')
    BY <1>4, <1>5, <1>6, <1>7, SameStage DEF CopyFits
  <2>2. resumes' = 0 => Remembers(session', memory', Applied', InTrouble')
    <3> HAVE resumes' = 0
    <3>1. Remembers(session, memory, Applied, InTrouble) BY <1>1, <1>6, <1>7 DEF CopyFits
    <3>2. Remembers(session', memory, Applied, InTrouble) BY <1>4, <3>1, SameMemory
    <3> QED BY <1>1, <1>6, <3>2 DEF Remembers
  <2>3. Grounded(session', session'.evidence)
    BY <1>1, <1>4, <1>6 DEF CopyFits, Grounded, SameWork
  <2>4. PlanFits(session)' /\ Planned(session)' = Planned(session)
    BY <1>4, <1>6 DEF CopyFits, PlanFits, Planned, SameWork
  <2>5. Planned(durable)' = Planned(durable) BY <1>1 DEF Planned
  <2> QED BY <1>1, <1>4, <1>6, <2>1, <2>2, <2>3, <2>4, <2>5 DEF CopyFits
<1>12. BudgetFits'
  <2>1. Planned(durable)' = Planned(durable) BY <1>1 DEF Planned
  <2> QED BY <1>1, <1>4, <1>5, <2>1 DEF V11Inv, BudgetFits, RoundToolLimit
<1> QED BY <1>8, <1>9, <1>10, <1>11, <1>12 DEF V11Inv, SessionFits

LEMMA CommitStep == ASSUME V11Inv, Commit PROVE V11Inv'
<1>1. /\ runState = "running" /\ step = "output" /\ step' = "idle" /\ work' = <<>>
      /\ durable' = IF Phase = "intake" THEN session ELSE Merged
      /\ session' = session /\ phases' = phases + 1
      /\ runState' = CASE session.status = "failed"    -> "failed"
                       [] Phase = "finalize" /\ session.status # "failed" -> "completed"
                       [] OTHER                        -> "running"
      /\ UNCHANGED <<called, resumes, memory>>
  BY DEF Commit
<1>2. /\ session \in Projections /\ durable \in Projections /\ phases \in 0..10
      /\ phases + 1 \in 0..Len(Order)
  <2>1. phases \in 0..10 /\ Len(Order) = 11
    BY <1>1, WorkflowAssumption DEF V11Inv, ControlFits, WorkflowTyped, WorkflowTypeOK, Order
  <2> QED BY <2>1 DEF V11Inv, WorkflowTyped, WorkflowTypeOK
<1>3. /\ durable' \in Projections /\ SameWork(session, durable') /\ durable'.status = session.status
      /\ session.evidence \subseteq durable'.evidence
      /\ phases # 0 => durable'.calls = session.calls \cup durable.calls
      /\ phases = 0 => durable'.calls = session.calls
  <2>1. Phase = "intake" <=> phases = 0 BY <1>2, PhaseIs
  <2>2. /\ Merged \in Projections /\ SameWork(session, Merged) /\ Merged.status = session.status
        /\ session.evidence \subseteq Merged.evidence
        /\ Merged.calls = session.calls \cup durable.calls
    BY <1>2 DEF Projections, SameWork, Merged
  <2>3. SameWork(session, session) BY DEF SameWork
  <2> QED BY <1>1, <1>2, <2>1, <2>2, <2>3
<1>4. /\ CopyFits /\ Applied = phases + 1 /\ Applied' = phases + 1 /\ ~InTrouble /\ ~InTrouble'
  BY <1>1 DEF V11Inv, SessionFits, Applied, InTrouble
<1>5. Spent' = Spent /\ FirstSpent' = FirstSpent /\ FirstCount' = FirstCount
  BY <1>1 DEF Spent, FirstSpent, FirstCount
<1>6. /\ session.status \in {"running", "completed", "failed"}
      /\ session.status = "completed" <=> (session.status # "failed" /\ phases = 10)
      /\ runState' = CASE session.status = "failed" -> "failed"
                       [] session.status = "completed" -> "completed"
                       [] OTHER -> "running"
  <2>1. session.status \in {"running", "completed", "failed"} BY <1>2 DEF Projections
  <2>2. session.status # "failed" => (session.status = "completed" <=> phases + 1 = 11)
    BY <1>4 DEF CopyFits
  <2>3. Phase = "finalize" <=> phases = 10 BY <1>2, PhaseIs
  <2> QED BY <1>1, <1>2, <2>1, <2>2, <2>3
<1>7. WorkflowTyped'
  BY <1>1, <1>2, <1>3, <1>6, FreshIs DEF V11Inv, WorkflowTyped, WorkflowTypeOK, Memories
<1>8. phases' <= 2 => Spent = {}
  BY <1>1, <1>2 DEF V11Inv, ControlFits
<1>9. ControlFits'
  BY <1>1, <1>2, <1>5, <1>6, <1>8 DEF ControlFits
<1>10. /\ Planned(durable)' = Planned(session) /\ Planned(session)' = Planned(session)
       /\ PlanFits(durable)' /\ PlanFits(session)'
  BY <1>1, <1>3, <1>4 DEF CopyFits, PlanFits, Planned, SameWork
<1>11. session.status # "failed" => Stage(session, phases + 1, FirstCount)
  BY <1>4 DEF CopyFits
<1>12. /\ Faulty(durable') <=> Faulty(session)
       /\ Unvalidated(durable') <=> Unvalidated(session)
       /\ Justified(durable') <=> Justified(session)
       /\ Mended(durable') <=> Mended(session)
  BY <1>3, SameParts
<1>13. Grounded(session, session.evidence) BY <1>1, <1>4 DEF CopyFits
<1>14. DurableFits'
  <2>1. (durable'.status = "running") <=> runState' \in {"running", "interrupted"} BY <1>3, <1>6
  <2>2. durable'.status = "running" => Stage(durable', phases', FirstCount')
    BY <1>1, <1>3, <1>5, <1>11, SameStage
  <2>3. runState' = "completed" =>
          /\ durable'.status = "completed" /\ durable'.diagnosis # "none" /\ Justified(durable')
          /\ durable'.diagnosis = "complete" => Mended(durable')
    <3> HAVE runState' = "completed"
    <3>1. session.status = "completed" /\ phases = 10 BY <1>6
    <3>2. Stage(session, 11, FirstCount) BY <1>11, <3>1
    <3>3. session.diagnosis # "none" /\ durable'.diagnosis = session.diagnosis
      BY <1>3, <1>4, <3>1 DEF CopyFits, SameWork
    <3>4. Justified(session) /\ (session.diagnosis = "complete" => Mended(session))
      BY <3>2 DEF Stage, DiagnosisStands
    <3> QED BY <1>3, <1>12, <3>1, <3>3, <3>4
  <2>4. resumes' = 0 /\ phases' >= 9 => Faulty(durable') \/ Unvalidated(durable')
    <3>1. session.status # "failed" => Unvalidated(session) BY <1>11 DEF Stage
    <3>2. session.status = "failed" /\ resumes = 0 /\ phases >= 8 => Faulty(session) \/ Unvalidated(session)
      BY <1>4 DEF CopyFits
    <3> QED BY <1>1, <1>2, <1>12, <3>1, <3>2
  <2>5. Grounded(durable', durable'.evidence) BY <1>3, <1>13 DEF Grounded, SameWork
  <2> QED BY <1>10, <2>1, <2>2, <2>3, <2>4, <2>5 DEF DurableFits
<1>15. runState' = "running" => CopyFits'
  <2> HAVE runState' = "running"
  <2>1. session.status = "running" /\ phases # 10 BY <1>6
  <2>2. Stage(session', Applied', FirstCount') BY <1>1, <1>4, <1>5, <1>11, <2>1
  <2>3. resumes' = 0 => Remembers(session', memory', Applied', InTrouble')
    BY <1>1, <1>4, <2>1 DEF CopyFits, Remembers
  <2>4. Grounded(session', durable'.evidence) BY <1>1, <1>3, <1>13 DEF Grounded
  <2>5. session'.status # "completed" /\ Applied' # 11 BY <1>1, <1>2, <1>4, <2>1
  <2> QED BY <1>1, <1>10, <2>1, <2>2, <2>3, <2>4, <2>5 DEF CopyFits
<1>16. BudgetFits'
  <2>1. /\ IsFiniteSet(Spent) /\ Cardinality(Spent) <= ToolBudget
        /\ Spent = durable.calls /\ session.calls \subseteq Spent /\ memory.admitted \subseteq Spent
        /\ FirstSpent \subseteq Planned(durable) \X (1..RoundToolLimit(1))
    BY DEF V11Inv, BudgetFits
  <2>2. durable'.calls = Spent
    <3>1. phases = 0 => Spent = {} BY <1>8, <1>1
    <3> QED BY <1>3, <2>1, <3>1
  <2>3. FirstSpent \subseteq Planned(session) \X (1..RoundToolLimit(1))
    <3>1. CASE phases <= 2
      <4>1. Spent = {} BY <1>2, <3>1 DEF V11Inv, ControlFits
      <4> QED BY <4>1 DEF FirstSpent
    <3>2. CASE ~(phases <= 2)
      <4>1. Planned(session) = Planned(durable) BY <1>2, <1>4, <3>2 DEF CopyFits
      <4> QED BY <2>1, <4>1
    <3> QED BY <3>1, <3>2
  <2> QED BY <1>1, <1>5, <1>10, <2>1, <2>2, <2>3 DEF BudgetFits, RoundToolLimit
<1> QED BY <1>7, <1>9, <1>14, <1>15, <1>16 DEF V11Inv, SessionFits

\* The attempt ends without a commit.
LEMMA LostStep ==
    ASSUME V11Inv, runState' \in {"failed", "interrupted"}, runState = "running",
           session' = Fresh, memory' = NoMemory, work' = <<>>, step' = "idle",
           UNCHANGED <<phases, resumes>>, runState' = "interrupted" => resumes < MaxResumes,
           \/ runState' = "failed" /\ durable' = [durable EXCEPT !.status = "failed"] /\ called' = called
           \/ /\ runState' = "interrupted" /\ durable' = durable
              /\ called' = [c \in Calls |-> IF called[c] = "running" THEN "interrupted" ELSE called[c]]
    PROVE  V11Inv'
<1>1. /\ durable \in Projections
      /\ called \in [Calls -> {"none", "running", "success", "failed", "interrupted"}]
  BY DEF V11Inv, WorkflowTyped, WorkflowTypeOK
<1>2. /\ durable' \in Projections /\ SameWork(durable, durable') /\ durable'.calls = durable.calls
      /\ durable'.evidence = durable.evidence
      /\ durable'.status = IF runState' = "failed" THEN "failed" ELSE durable.status
  BY <1>1 DEF Projections, SameWork
<1>3. /\ called' \in [Calls -> {"none", "running", "success", "failed", "interrupted"}]
      /\ Spent' = Spent
  BY <1>1 DEF Spent
<1>4. FirstSpent' = FirstSpent /\ FirstCount' = FirstCount BY <1>3 DEF FirstSpent, FirstCount
<1>5. WorkflowTyped'
  <2>1. {} \subseteq Executions /\ NoMemory.failures = {} /\ NoMemory.admitted = {}
    BY DEF NoMemory
  <2> QED BY <1>2, <1>3, <2>1, FreshIs DEF V11Inv, WorkflowTyped, WorkflowTypeOK
<1>6. ControlFits' BY <1>3 DEF V11Inv, ControlFits
<1>7. DurableFits'
  <2>1. durable.status = "running" /\ Stage(durable, phases, FirstCount) BY DEF V11Inv, DurableFits
  <2>2. Stage(durable', phases', FirstCount') BY <1>2, <1>4, <2>1, SameStage
  <2>3. Grounded(durable', durable'.evidence)
    BY <1>2 DEF V11Inv, DurableFits, Grounded, SameWork
  <2>4. Faulty(durable') <=> Faulty(durable) BY <1>2, SameParts
  <2>5. Unvalidated(durable') <=> Unvalidated(durable) BY <1>2, SameParts
  <2>6. PlanFits(durable)' BY <1>2 DEF V11Inv, DurableFits, PlanFits, Planned, SameWork
  <2> QED BY <1>2, <2>1, <2>2, <2>3, <2>4, <2>5, <2>6 DEF V11Inv, DurableFits
<1>8. BudgetFits'
  <2>1. Fresh.calls = {} /\ NoMemory.admitted = {} BY DEF Fresh, NoMemory
  <2>2. Planned(durable)' = Planned(durable) BY <1>2 DEF Planned, SameWork
  <2> QED BY <1>2, <1>3, <1>4, <2>1, <2>2 DEF V11Inv, BudgetFits, RoundToolLimit
<1> QED BY <1>5, <1>6, <1>7, <1>8 DEF V11Inv, SessionFits

LEMMA ResumeStep == ASSUME V11Inv, Resume PROVE V11Inv'
<1>1. /\ runState = "interrupted" /\ runState' = "running" /\ resumes' = resumes + 1
      /\ session' = durable
      /\ UNCHANGED <<durable, phases, called, memory, work, step>>
  BY DEF Resume
<1>2. step = "idle" /\ phases <= 10 BY <1>1 DEF V11Inv, ControlFits
<1>3. durable \in Projections /\ resumes \in 0..MaxResumes /\ phases \in 0..10
  BY <1>2, WorkflowAssumption DEF V11Inv, WorkflowTyped, WorkflowTypeOK, Order
<1>4. Spent' = Spent /\ FirstSpent' = FirstSpent /\ FirstCount' = FirstCount
  BY <1>1 DEF Spent, FirstSpent, FirstCount
<1>5. durable.status = "running" /\ Stage(durable, phases, FirstCount)
        /\ Grounded(durable, durable.evidence) /\ PlanFits(durable)
  BY <1>1 DEF V11Inv, DurableFits
<1>6. WorkflowTyped'
  <2>1. resumes' \in 0..MaxResumes
    BY <1>1, <1>3, WorkflowAssumption DEF V11Inv, ControlFits
  <2> QED BY <1>1, <1>3, <2>1 DEF V11Inv, WorkflowTyped, WorkflowTypeOK, Memories
<1>7. ControlFits' BY <1>1, <1>2, <1>4 DEF V11Inv, ControlFits
<1>8. DurableFits'
  <2>1. resumes' # 0 BY <1>1, <1>3
  <2> QED BY <1>1, <1>4, <2>1 DEF V11Inv, DurableFits, PlanFits, Planned
<1>9. CopyFits'
  <2>1. Applied' = phases /\ resumes' # 0 BY <1>1, <1>2, <1>3 DEF Applied
  <2>2. Stage(session', Applied', FirstCount') BY <1>1, <1>4, <1>5, <2>1
  <2>3. PlanFits(session)' /\ Planned(session)' = Planned(durable) /\ Planned(durable)' = Planned(durable)
    BY <1>1, <1>5 DEF PlanFits, Planned
  <2>4. session'.status = "running" /\ Applied' # 11 BY <1>1, <1>3, <1>5, <2>1
  <2> QED BY <1>1, <1>2, <1>5, <2>1, <2>2, <2>3, <2>4 DEF CopyFits
<1>10. BudgetFits'
  <2>1. Planned(durable)' = Planned(durable) BY <1>1 DEF Planned
  <2> QED BY <1>1, <1>2, <1>4, <2>1 DEF V11Inv, BudgetFits, RoundToolLimit
<1> QED BY <1>6, <1>7, <1>8, <1>9, <1>10 DEF V11Inv, SessionFits

-----------------------------------------------------------------------------
(* The theorems *)

LEMMA StutterKeeps == ASSUME V11Inv, UNCHANGED v11Vars PROVE V11Inv'
<1>1. /\ durable' = durable /\ phases' = phases /\ called' = called /\ runState' = runState
      /\ resumes' = resumes /\ session' = session /\ memory' = memory /\ work' = work /\ step' = step
  BY DEF v11Vars
<1>2. WorkflowTyped' BY <1>1 DEF V11Inv, WorkflowTyped, WorkflowTypeOK
<1>3. Spent' = Spent /\ FirstSpent' = FirstSpent /\ FirstCount' = FirstCount
  BY <1>1 DEF Spent, FirstSpent, FirstCount
<1>4. ControlFits' BY <1>1, <1>3 DEF V11Inv, ControlFits, RoundOf, Phase, Round
<1>5. DurableFits' BY <1>1, <1>3 DEF V11Inv, DurableFits, PlanFits, Planned
<1>6. CopyFits => CopyFits'
  <2>1. Applied' = Applied /\ (InTrouble' <=> InTrouble) BY <1>1 DEF Applied, InTrouble
  <2> QED BY <1>1, <1>3, <2>1 DEF CopyFits, PlanFits, Planned, Remembers
<1>7. BudgetFits' BY <1>1, <1>3 DEF V11Inv, BudgetFits, Planned, RoundToolLimit
<1> QED BY <1>1, <1>2, <1>4, <1>5, <1>6, <1>7 DEF V11Inv, SessionFits

LEMMA HandlerStep == ASSUME V11Inv, Handler PROVE V11Inv'
<1>1. CASE Intake BY <1>1, IntakeStep
<1>2. CASE CollectEvidence BY <1>2, CollectEvidenceStep
<1>3. CASE PlanLead BY <1>3, PlanLeadStep
<1>4. CASE StopInconclusive BY <1>4, StopInconclusiveStep
<1>5. CASE StartRound BY <1>5, StartRoundStep
<1>6. CASE EndRound BY <1>6, EndRoundStep
<1>7. CASE \E t \in AllTasks : InvestigatorFails(t) \/ InvestigatorReturns(t)
  BY <1>7, InvestigatorFailsStep, InvestigatorReturnsStep
<1>8. CASE CriticReview BY <1>8, CriticReviewStep
<1>9. CASE CriticFails BY <1>9, CriticFailsStep
<1>10. CASE CriticReconciles BY <1>10, CriticReconcilesStep
<1>11. CASE ReconciliationFails BY <1>11, ReconciliationFailsStep
<1>12. CASE LeadAdjudication BY <1>12, LeadAdjudicationStep
<1>13. CASE ResultValidation BY <1>13, ResultValidationStep
<1>14. CASE GenerateReport BY <1>14, GenerateReportStep
<1>15. CASE Finalize BY <1>15, FinalizeStep
<1> QED
  BY <1>1, <1>2, <1>3, <1>4, <1>5, <1>6, <1>7, <1>8, <1>9, <1>10, <1>11, <1>12, <1>13, <1>14,
     <1>15 DEF Handler

LEMMA NextKeeps == ASSUME V11Inv, [WorkflowNext]_v11Vars PROVE V11Inv'
<1>1. CASE Begin BY <1>1, BeginStep
<1>2. CASE Commit BY <1>2, CommitStep
<1>3. CASE Handler BY <1>3, HandlerStep
<1>4. CASE Tool BY <1>4, AdmitToolStep, ToolReturnsStep DEF Tool
<1>5. CASE Raises BY <1>5, LostStep DEF Raises
<1>6. CASE Crash BY <1>6, LostStep DEF Crash
<1>7. CASE Resume BY <1>7, ResumeStep
<1>8. CASE UNCHANGED v11Vars BY <1>8, StutterKeeps
<1> QED BY <1>1, <1>2, <1>3, <1>4, <1>5, <1>6, <1>7, <1>8 DEF WorkflowNext

\* The calls made fit the budget, in all, per task and per round: a call's number
\* is within the limit of its round, and at most max_investigators tasks make
\* calls of the first round.
LEMMA CallsFit == ASSUME V11Inv PROVE ToolBudgetHolds /\ ReserveIsKept
<1>1. /\ IsFiniteSet(Spent) /\ Cardinality(Spent) <= ToolBudget
      /\ FirstSpent \subseteq Planned(durable) \X (1..RoundToolLimit(1))
      /\ IsFiniteSet(Planned(durable)) /\ Cardinality(Planned(durable)) <= MaxInvestigators
  BY DEF V11Inv, BudgetFits, DurableFits, PlanFits
<1>2. /\ MaxInvestigators \in 1..3 /\ ToolBudget \in Nat /\ PerTask \in Nat
  BY WorkflowAssumption
<1>3. ASSUME NEW t \in AllTasks
      PROVE  Cardinality({c \in Spent : c[1] = t}) <= PerTask
  <2>1. {c \in Spent : c[1] = t} \subseteq {t} \X (1..PerTask) BY DEF Spent, Calls
  <2>4. IsFiniteSet({t} \X (1..PerTask)) /\ Cardinality({t} \X (1..PerTask)) = PerTask
    BY <1>2, CallsOfOne
  <2>5. Cardinality({c \in Spent : c[1] = t}) <= Cardinality({t} \X (1..PerTask))
    BY <2>1, <2>4, FS_Subset
  <2> QED BY <1>2, <2>4, <2>5
<1>4. ToolBudgetHolds
  <2>1. Spent = {c \in Calls : called[c] # "none"} BY DEF Spent
  <2> QED BY <1>1, <1>3, <2>1 DEF ToolBudgetHolds
<1>5. MaxInvestigators >= 2 => Cardinality(FirstSpent) <= ToolBudget - Reserve
  <2> HAVE MaxInvestigators >= 2
  <2>1. IsFiniteSet(FirstSpent) /\ Cardinality(FirstSpent) <= Cardinality(Spent)
          /\ Cardinality(FirstSpent) \in Nat /\ Cardinality(Spent) \in Nat
    <3>1. FirstSpent \subseteq Spent BY DEF FirstSpent
    <3> QED BY <1>1, <3>1, FS_Subset, FS_CardinalityType
  <2>2. CASE ToolBudget < 4 BY <1>1, <1>2, <2>1, <2>2, LimitIs
  <2>3. CASE ToolBudget >= 4
    <3>1. PICK limit \in Nat : limit = RoundToolLimit(1) BY LimitIs, WorkflowAssumption
    <3>2. MaxInvestigators * limit <= ToolBudget - Reserve /\ Reserve \in 0..ToolBudget
      BY <2>3, <3>1, LimitIs
    <3>3. IsFiniteSet(1..limit) /\ Cardinality(1..limit) = limit BY UpTo
    <3>4. /\ IsFiniteSet(Planned(durable) \X (1..limit))
          /\ Cardinality(Planned(durable) \X (1..limit)) = Cardinality(Planned(durable)) * limit
      BY <1>1, <3>3, FS_Product
    <3>5. PICK n \in Nat : n = Cardinality(Planned(durable)) BY <1>1, FS_CardinalityType
    <3>6. Cardinality(FirstSpent) <= n * limit
      BY <1>1, <3>1, <3>4, <3>5, FS_Subset
    <3>7. n * limit <= MaxInvestigators * limit
      <4>1. n \in {0, 1, 2, 3} /\ n <= MaxInvestigators /\ MaxInvestigators \in {2, 3}
        BY <1>1, <1>2, <3>5
      <4> QED BY <4>1
    <3> QED BY <1>2, <2>1, <3>2, <3>6, <3>7
  <2> QED BY <1>2, <2>2, <2>3
<1>6. ReserveIsKept
  <2>1. FirstSpent = {c \in Calls : called[c] # "none" /\ c[1] \in FirstTasks}
    BY DEF FirstSpent, Spent
  <2> QED BY <1>5, <2>1 DEF ReserveIsKept, Reserve
<1> QED BY <1>4, <1>6

LEMMA InvImplies == ASSUME V11Inv PROVE V11Consistent /\ VerdictIsFair
<1>1. WorkflowTypeOK BY DEF V11Inv, WorkflowTyped
<1>2. EvidenceBeforeCitation BY DEF V11Inv, DurableFits, Grounded, EvidenceBeforeCitation
<1>3. SupplementIsOwned
  <2>1. FirstSpent = {c \in FirstTasks \X (1..PerTask) : called[c] # "none"}
    BY DEF FirstSpent, Spent, Calls, AllTasks
  <2>2. durable.status = "running" => BatchFits(durable, FirstCount)
    BY DEF V11Inv, DurableFits, Stage
  <2> QED BY <2>1, <2>2 DEF SupplementIsOwned, BatchFits, FirstCount, Extra
<1>4. ToolBudgetHolds /\ ReserveIsKept BY CallsFit
<1>5. PublishedIsJustified
  BY DEF V11Inv, DurableFits, PublishedIsJustified, Justified, Mended, Grounded
<1>6. CleanRunIsPublished
  BY DEF V11Inv, DurableFits, CleanRunIsPublished, Faulty, Unvalidated
<1> QED BY <1>1, <1>2, <1>3, <1>4, <1>5, <1>6 DEF V11Consistent, VerdictIsFair

LEMMA V11InvHolds == WorkflowSpec => []V11Inv
<1>1. WorkflowInit => V11Inv BY StartHolds
<1>2. V11Inv /\ [WorkflowNext]_v11Vars => V11Inv' BY NextKeeps
<1> QED BY <1>1, <1>2, PTL DEF WorkflowSpec

\* The committed projection of a V11 run fits together in every state, for every
\* set of tasks and every budget.
THEOREM V11Holds == WorkflowSpec => []V11Consistent
<1>1. V11Inv => V11Consistent BY InvImplies
<1> QED BY <1>1, V11InvHolds, PTL

\* The validation is fair: what a run publishes is justified, and a run whose
\* actors did their part is published.
THEOREM VerdictHolds == WorkflowSpec => []VerdictIsFair
<1>1. V11Inv => VerdictIsFair BY InvImplies
<1> QED BY <1>1, V11InvHolds, PTL

\* No commit takes back evidence that a tool has committed.
THEOREM EvidenceHolds == WorkflowSpec => ToolEvidenceStays
<1>1. V11Inv /\ [WorkflowNext]_v11Vars => [phases > 0 => durable.evidence \subseteq durable'.evidence]_v11Vars
  <2> SUFFICES ASSUME V11Inv, WorkflowNext, phases > 0
               PROVE  durable.evidence \subseteq durable'.evidence
    OBVIOUS
  <2>1. durable \in Projections BY DEF V11Inv, WorkflowTyped, WorkflowTypeOK
  <2>2. CASE Commit
    <3>1. phases \in 0..10
      BY <2>2, WorkflowAssumption DEF Commit, V11Inv, ControlFits, WorkflowTyped, WorkflowTypeOK, Order
    <3>2. durable' = Merged BY <2>2, <3>1, PhaseIs DEF Commit
    <3>3. session \in Projections BY DEF V11Inv, WorkflowTyped, WorkflowTypeOK
    <3> QED BY <3>2, <3>3 DEF Merged, Projections
  <2>3. CASE Raises BY <2>1, <2>3 DEF Raises, Projections
  <2>4. CASE Tool BY <2>1, <2>4 DEF Tool, AdmitTool, ToolReturns, Projections
  <2>5. CASE durable' = durable BY <2>5
  <2>6. CASE Handler
    <3>1. UNCHANGED durable
      BY <2>6 DEF Handler, Intake, CollectEvidence, PlanLead, StopInconclusive, StartRound, EndRound,
            InvestigatorFails, InvestigatorReturns, CriticReview, CriticFails, CriticReconciles,
            ReconciliationFails, LeadAdjudication, ResultValidation, ValidatorRejects, GenerateReport,
            Finalize, Passes, Fails, Done
    <3> QED BY <3>1
  <2> QED BY <2>2, <2>3, <2>4, <2>5, <2>6 DEF WorkflowNext, Begin, Crash, Resume
<1> QED BY <1>1, V11InvHolds, PTL DEF WorkflowSpec, ToolEvidenceStays

-----------------------------------------------------------------------------
(* The V10 run: typing *)

LegacyDrafts   == SpecialistDrafts \cup {NoDraft}
TurnRec  == [stage: {"announce", "ask", "work", "synth", "return"}, kind: TurnKinds,
             names: SUBSET Specialists, picked: SUBSET Specialists,
             calls: [Actors -> {"idle", "open", "done"}], drafts: [Specialists -> LegacyDrafts],
             used: Nat, outcome: {"none", "proposal", "invalid", "transport", "timeout", "unknown"}]

LegacyTyped == LegacyTypeOK /\ turn \in TurnRec \cup {NoTurn}

-----------------------------------------------------------------------------
(* The V10 run: the invariant *)

Published == {"partial", "completed"}

\* No review of this run's specialists is published or stored.
Unpublished(s) == s.review \notin Published /\ s.stored \notin Published

\* Every specialist has a first finding, or a failure of its own or of the
\* Coordinator is on record.
Accounted(s) == Missing10(s) = {} \/ \E e \in s.execs : Failed10(e) /\ e # PlanFailure

FindingsFit(s) ==
    /\ \A f, g \in s.findings : f.agent = g.agent /\ f.round = g.round => f = g
    /\ \A f \in s.findings : f.round = 2 => f.agent \notin Missing10(s)
FirstRoundOnly(s) == \A f \in s.findings : f.round = 1

\* What is published or stored after the synthesis.
ReviewFits(s) ==
    /\ s.review \in Published => s.stored = s.review
    /\ s.stored = "completed" => Missing10(s) = {}
    /\ TimedOut(s) => Unpublished(s)

\* What the result holds after n phases, committed or in the memory of an attempt.
Reached(s, n, configured) ==
    /\ FindingsFit(s)
    /\ n <= 3 => s.findings = {}
    /\ n <= 4 => FirstRoundOnly(s)
    /\ n <= 5 => Unpublished(s)
    /\ n >= 4 => s.review # "oldSdk" /\ s.stored # "oldSdk" /\ (configured => Accounted(s))
    /\ n >= 6 => ReviewFits(s)
    /\ n >= 7 => \A r \in Published : (s.report = r) <=> (s.stored = r)

\* The memory of an attempt shows what it has stored.
ShowsStored(s) == s.stored \in Published => s.review = s.stored

ToolsHaveTasks(s) == \A c \in s.tools : \E e \in s.execs : <<e.agent, e.attempt>> = c

\* The memory of an attempt whose handler is at h of phase n + 1.
AttemptFits(s, n, h, configured) ==
    /\ ShowsStored(s)
    /\ h = "idle"      => Reached(s, n, configured)
    /\ h = "collect"   => n = 3 /\ configured /\ s.findings = {} /\ s.review = "none" /\ Unpublished(s)
    /\ h = "recollect" => /\ n = 3 /\ configured /\ FindingsFit(s) /\ FirstRoundOnly(s)
                          /\ s.review = "none" /\ Unpublished(s) /\ Accounted(s)
    /\ h = "review"    => n = 4 /\ configured /\ Reached(s, 4, configured)
    /\ h = "synth"     => n = 5 /\ configured /\ Reached(s, 5, configured) /\ ~TimedOut(s)
    /\ h = "fallback"  => n = 5 /\ Reached(s, 6, configured)
    /\ h = "out"       => n \in 0..7 /\ Reached(s, n + 1, configured) /\ (n = 3 => ToolsHaveTasks(s))

\* An attempt that is over left nothing in memory.
MemoryFits ==
    /\ legacyRun \in {"interrupted", "failed"} => state = Blank10
    /\ legacyRun = "completed" => handler = "idle" /\ legacyPhase = 8
    /\ legacyRun \in {"running", "completed"} =>
          AttemptFits(state, legacyPhase, handler, setting.configured)

\* The open requests of a turn, and the agents that may have one.
OpenCalls(t) == {a \in Actors : t.calls[a] = "open"}
MayCall(t)   == CASE t.stage \in {"announce", "return"} -> {}
                  [] t.stage \in {"ask", "synth"}       -> {Coordinator}
                  [] t.stage = "work"                   -> t.picked

TurnFits ==
    turn # NoTurn =>
        /\ Running10 /\ turn.kind = handler /\ turn.names = Asked(handler)
        /\ OpenCalls(turn) \subseteq MayCall(turn)
        /\ ~expired => openModels = OpenCalls(turn)
        /\ expired \/ ~fence \/ openAgents \subseteq Members(turn)
        /\ TokenBudget <= spent + Left(turn.used)

\* Without a turn, nothing is open.
BetweenTurnsFits ==
    turn = NoTurn /\ Running10 =>
        /\ openAgents # {} => expired \/ ~fence
        /\ openModels # {} => expired
        /\ state.review \in Published => openAgents = {} /\ openModels = {}

\* What the runtime counted is in the durable events.
TokensFit == TokenBudget <= spent + tokens

LegacyInv ==
    /\ LegacyTyped /\ Reached(saved, legacyPhase, setting.configured) /\ saved.review = "none"
    /\ MemoryFits /\ TurnFits /\ BetweenTurnsFits /\ TokensFit

-----------------------------------------------------------------------------
(* The V10 run: operators of the result *)

LEMMA ConflictingFound ==
    ASSUME NEW s, NEW a \in conflicting_agent_names(s)
    PROVE  \E f \in s.findings : f.agent = a
BY DEF conflicting_agent_names, Active10

LEMMA SameMissing ==
    ASSUME NEW s, NEW t, s.findings = t.findings
    PROVE  Missing10(s) = Missing10(t)
BY DEF Missing10

LEMMA SameFindings ==
    ASSUME NEW s, NEW t, s.findings = t.findings
    PROVE  /\ FindingsFit(s) => FindingsFit(t)
           /\ FirstRoundOnly(s) => FirstRoundOnly(t)
           /\ s.execs \subseteq t.execs /\ Accounted(s) => Accounted(t)
<1>1. Missing10(s) = Missing10(t)
  BY SameMissing
<1> QED
  BY <1>1 DEF FindingsFit, FirstRoundOnly, Accounted

LEMMA StoredNever ==
    ASSUME NEW s \in States10
    PROVE  /\ Stored(s, "none") \in Reviews10
           /\ Stored(s, "none") \notin Published /\ Stored(s, "none") # "oldSdk"
           /\ \A r \in Reviews10 \ {"none"} : Stored(s, r) = r
BY DEF Stored, Published, SdkReviews, Reviews10, States10

\* What EndOf changes: the tools get their tasks, and the stored review is settled.
LEMMA EndKeeps ==
    ASSUME NEW s \in States10, NEW k \in TurnKinds
    PROVE  /\ EndOf(k, s) \in States10
           /\ EndOf(k, s).findings = s.findings /\ EndOf(k, s).tools = s.tools
           /\ EndOf(k, s).review = s.review /\ EndOf(k, s).report = s.report
           /\ s.execs \subseteq EndOf(k, s).execs
           /\ EndOf(k, s).stored = Stored(s, IF k = "synth" THEN s.review ELSE "none")
           /\ k \in {"review", "synth"} => EndOf(k, s).execs = s.execs
           /\ k \in {"collect", "recollect"} => ToolsHaveTasks(EndOf(k, s))
<1>1. \A r \in Reviews10 : Stored(s, r) \in Reviews10
  BY StoredNever
<1>2. s.review \in Reviews10 /\ "none" \in Reviews10
  BY DEF States10, Reviews10
<1>3. CASE k = "synth"
  BY <1>1, <1>2, <1>3 DEF EndOf, States10
<1>4. CASE k = "review"
  BY <1>1, <1>2, <1>4 DEF EndOf, EndOfReview, States10
<1>5. CASE k \in {"collect", "recollect"}
  <2> DEFINE tasks == {<<e.agent, e.attempt>> : e \in {r \in s.execs : r.round = 1}}
             late  == {[agent |-> c[1], round |-> 1, attempt |-> c[2], category |-> "timeout"] :
                          c \in s.tools \ tasks}
             t     == [s EXCEPT !.execs = @ \cup late]
  <2>1. late \subseteq Records10
    BY DEF States10, Records10, Actors, Failures10
  <2>2. \A c \in s.tools : \E e \in s.execs \cup late : <<e.agent, e.attempt>> = c
    <3> SUFFICES ASSUME NEW c \in s.tools
                 PROVE  \E e \in s.execs \cup late : <<e.agent, e.attempt>> = c
      OBVIOUS
    <3>1. CASE c \in tasks
      BY <3>1
    <3>2. CASE c \notin tasks
      <4>1. PICK e \in late : e = [agent |-> c[1], round |-> 1, attempt |-> c[2], category |-> "timeout"]
        BY <3>2
      <4>2. c = <<c[1], c[2]>>
        BY DEF States10
      <4> QED
        BY <4>1, <4>2
    <3> QED
      BY <3>1, <3>2
  <2>3. Attached(s) = t
    BY DEF Attached
  <2> HIDE DEF late
  <2>4. /\ t \in States10 /\ t.findings = s.findings /\ t.tools = s.tools /\ t.review = s.review
        /\ t.report = s.report /\ t.execs = s.execs \cup late /\ t.stored = s.stored
    BY <2>1 DEF States10
  <2> HIDE DEF t
  <2>5. EndOf(k, s) = [t EXCEPT !.stored = Stored(t, "none")]
    BY <1>5, <2>3 DEF EndOf, EndOfRun
  <2>6. Stored(t, "none") = Stored(s, "none")
    BY <2>4 DEF Stored
  <2>7. /\ EndOf(k, s) \in States10 /\ EndOf(k, s).findings = s.findings
        /\ EndOf(k, s).tools = s.tools /\ EndOf(k, s).review = s.review
        /\ EndOf(k, s).report = s.report /\ EndOf(k, s).execs = s.execs \cup late
        /\ EndOf(k, s).stored = Stored(s, "none")
    BY <2>4, <2>5, <2>6, <1>1, <1>2 DEF States10
  <2> QED
    BY <1>5, <2>2, <2>7 DEF ToolsHaveTasks
<1> QED
  BY <1>3, <1>4, <1>5 DEF TurnKinds

\* The finding a draft becomes.
FindingOf(a, t) == [agent |-> a, round |-> RoundIn(t.kind), claim |-> t.drafts[a].claim,
                    item |-> Cited(a, t.kind, t.drafts[a])]
Believed(t) == {a \in t.names : CategoryOf(a, t) = "none"}

LEMMA CitedItem ==
    ASSUME NEW a \in Specialists, NEW k, NEW d
    PROVE  Cited(a, k, d) \in Items /\ (d.ref = "tool" => Cited(a, k, d) \in Specialists \X (1..2))
BY DEF Cited, Items, AttemptIn

LEMMA DraftTyped ==
    ASSUME NEW d \in LegacyDrafts
    PROVE  /\ d.claim \in {"base", "other", "unset", "none"}
           /\ d.claim = "none" => d = NoDraft
BY DEF LegacyDrafts, SpecialistDrafts, NoDraft

LEMMA CategoryTyped ==
    ASSUME NEW a \in Specialists, NEW t \in TurnRec
    PROVE  /\ CategoryOf(a, t) \in {"missing", "reference", "invalid", "none"}
           /\ CategoryOf(a, t) = "none" => t.drafts[a].claim \in {"base", "other"}
<1>1. t.drafts[a] \in LegacyDrafts
  BY DEF TurnRec
<1>2. t.drafts[a].claim \in {"base", "other", "unset", "none"}
  BY <1>1, DraftTyped
<1>3. t.drafts[a].claim = "none" => t.drafts[a] = NoDraft
  BY <1>1, DraftTyped
<1>4. NoDraft.claim = "none"
  BY DEF NoDraft
<1> QED
  BY <1>2, <1>3, <1>4 DEF CategoryOf

LEMMA RecordTyped ==
    ASSUME NEW a \in Actors, NEW k \in TurnKinds, NEW c \in Failures10 \cup {"none"}
    PROVE  /\ Record10(a, k, c) \in Records10 /\ Record10(a, k, c).category = c
           /\ Failed10(Record10(a, k, c)) <=> c # "none"
           /\ c # "provider" => Record10(a, k, c) # PlanFailure
<1>1. Record10(a, k, c) \in Records10 /\ Record10(a, k, c).category = c
  BY DEF Record10, Records10, RoundIn, AttemptIn
<1>2. "skipped" \notin Failures10 \cup {"none"} /\ PlanFailure.category = "provider"
  BY DEF Failures10, PlanFailure
<1> QED
  BY <1>1, <1>2 DEF Failed10

\* What the result of a turn adds.
LEMMA ConsumedIs ==
    ASSUME NEW s \in States10, NEW t \in TurnRec, NEW c \in BOOLEAN
    PROVE  LET u == Consumed(s, t, c)
           IN  /\ u \in States10
               /\ u.findings = s.findings \cup {FindingOf(a, t) : a \in Believed(t)}
               /\ u.execs = s.execs \cup (IF c THEN {Record10(Coordinator, t.kind, CoordinatorCategory(t))}
                                               ELSE {})
                                    \cup {Record10(a, t.kind, CategoryOf(a, t)) : a \in t.names}
               /\ u.review = s.review /\ u.stored = s.stored /\ u.report = s.report
               /\ u.tools = s.tools /\ u.support = s.support
<1> DEFINE found == {FindingOf(a, t) : a \in Believed(t)}
           done  == (IF c THEN {Record10(Coordinator, t.kind, CoordinatorCategory(t))} ELSE {})
                    \cup {Record10(a, t.kind, CategoryOf(a, t)) : a \in t.names}
           u     == [s EXCEPT !.findings = @ \cup found, !.execs = @ \cup done]
<1>1. found \subseteq Findings10
  <2> SUFFICES ASSUME NEW a \in Believed(t)
               PROVE  FindingOf(a, t) \in Findings10
    OBVIOUS
  <2>1. a \in Specialists
    BY DEF Believed, TurnRec
  <2>2. Cited(a, t.kind, t.drafts[a]) \in Items
    BY <2>1, CitedItem
  <2>3. t.drafts[a].claim \in {"base", "other"}
    BY <2>1, CategoryTyped DEF Believed
  <2>4. RoundIn(t.kind) \in 1..2
    BY DEF RoundIn
  <2> QED
    BY <2>1, <2>2, <2>3, <2>4 DEF FindingOf, Findings10
<1>2. done \subseteq Records10
  <2>1. t.kind \in TurnKinds /\ t.names \subseteq Specialists
    BY DEF TurnRec
  <2>2. CoordinatorCategory(t) \in Failures10 \cup {"none"}
    BY DEF CoordinatorCategory, TurnRec, Failures10
  <2>3. \A a \in Specialists : CategoryOf(a, t) \in Failures10 \cup {"none"}
    BY CategoryTyped DEF Failures10
  <2>4. Coordinator \in Actors /\ Specialists \subseteq Actors
    BY DEF Actors
  <2> QED
    BY <2>1, <2>2, <2>3, <2>4, RecordTyped
<1>3. Consumed(s, t, c) = [s EXCEPT !.findings = @ \cup found, !.execs = @ \cup done]
  BY DEF Consumed, FindingOf, Believed
<1> HIDE DEF found, done
<1>4. /\ u \in States10 /\ u.findings = s.findings \cup found /\ u.execs = s.execs \cup done
      /\ u.review = s.review /\ u.stored = s.stored /\ u.report = s.report
      /\ u.tools = s.tools /\ u.support = s.support
  BY <1>1, <1>2 DEF States10
<1>5. u = Consumed(s, t, c)
  BY <1>3
<1> HIDE DEF u
<1> QED
  BY <1>4, <1>5 DEF found, done

\* A result leaves everybody asked with a finding of the round or a failure.
LEMMA ConsumedAccounts ==
    ASSUME NEW s \in States10, NEW t \in TurnRec, NEW c \in BOOLEAN, NEW u, u = Consumed(s, t, c)
    PROVE  /\ s.findings \subseteq u.findings /\ s.execs \subseteq u.execs
           /\ \A f \in u.findings : f \in s.findings \/ (f.round = RoundIn(t.kind) /\ f.agent \in t.names)
           /\ \A f, g \in u.findings :
                  f.agent = g.agent /\ f \notin s.findings /\ g \notin s.findings => f = g
           /\ \A a \in t.names : \/ \E f \in u.findings : f.agent = a /\ f.round = RoundIn(t.kind)
                                 \/ \E e \in u.execs : Failed10(e) /\ e # PlanFailure
<1>1. /\ u.findings = s.findings \cup {FindingOf(a, t) : a \in Believed(t)}
      /\ s.execs \subseteq u.execs
      /\ \A a \in t.names : Record10(a, t.kind, CategoryOf(a, t)) \in u.execs
  BY ConsumedIs
<1>2. \A a \in Believed(t) : /\ FindingOf(a, t).agent = a /\ FindingOf(a, t).round = RoundIn(t.kind)
                             /\ a \in t.names
  BY DEF FindingOf, Believed
<1>3. ASSUME NEW a \in t.names
      PROVE  \/ \E f \in u.findings : f.agent = a /\ f.round = RoundIn(t.kind)
             \/ \E e \in u.execs : Failed10(e) /\ e # PlanFailure
  <2>1. CASE CategoryOf(a, t) = "none"
    BY <1>1, <1>2, <2>1 DEF Believed
  <2>2. CASE CategoryOf(a, t) # "none"
    <3>1. a \in Specialists /\ a \in Actors /\ t.kind \in TurnKinds
      BY DEF TurnRec, Actors
    <3>2. CategoryOf(a, t) \in {"missing", "reference", "invalid"}
      BY <2>2, <3>1, CategoryTyped
    <3>3. CategoryOf(a, t) \in Failures10 \cup {"none"} /\ CategoryOf(a, t) # "provider"
      BY <3>2 DEF Failures10
    <3> QED
      BY <1>1, <2>2, <3>1, <3>3, RecordTyped
  <2> QED
    BY <2>1, <2>2
<1>4. \A f \in u.findings : f \in s.findings \/ (f = FindingOf(f.agent, t) /\ f.agent \in Believed(t))
  BY <1>1, <1>2
<1>5. \A f, g \in u.findings :
                  f.agent = g.agent /\ f \notin s.findings /\ g \notin s.findings => f = g
  BY <1>4
<1>6. \A f \in u.findings : f \in s.findings \/ (f.round = RoundIn(t.kind) /\ f.agent \in t.names)
  BY <1>2, <1>4
<1> QED
  BY <1>1, <1>3, <1>5, <1>6

LEMMA AnalysisAdds ==
    ASSUME NEW s \in States10, NEW t \in TurnRec, NEW c \in BOOLEAN, NEW u, u = Consumed(s, t, c),
           t.kind \in {"collect", "recollect"}, t.names = Missing10(s), FindingsFit(s), FirstRoundOnly(s)
    PROVE  FindingsFit(u) /\ FirstRoundOnly(u) /\ Accounted(u)
<1>1. RoundIn(t.kind) = 1
  BY DEF RoundIn
<1>2. /\ s.findings \subseteq u.findings
      /\ \A f \in u.findings : f \in s.findings \/ (f.round = 1 /\ f.agent \in Missing10(s))
      /\ \A f, g \in u.findings :
            f.agent = g.agent /\ f \notin s.findings /\ g \notin s.findings => f = g
      /\ \A a \in Missing10(s) : \/ \E f \in u.findings : f.agent = a /\ f.round = 1
                                 \/ \E e \in u.execs : Failed10(e) /\ e # PlanFailure
  BY <1>1, ConsumedAccounts
<1>3. FirstRoundOnly(u)
  BY <1>2 DEF FirstRoundOnly
<1>4. \A f \in s.findings : f.agent \notin Missing10(s)
  BY DEF FirstRoundOnly, Missing10
<1>5. \A f, g \in u.findings : f.agent = g.agent /\ f.round = g.round => f = g
  BY <1>2, <1>4 DEF FindingsFit
<1>6. FindingsFit(u)
  BY <1>3, <1>5 DEF FindingsFit, FirstRoundOnly
<1>7. Missing10(u) \subseteq Missing10(s)
  BY <1>2 DEF Missing10
<1>8. Accounted(u)
  <2>1. CASE Missing10(u) = {}
    BY <2>1 DEF Accounted
  <2>2. CASE Missing10(u) # {}
    <3>1. PICK a \in Missing10(u) : TRUE
      BY <2>2
    <3>2. a \in Missing10(s) /\ ~\E f \in u.findings : f.agent = a /\ f.round = 1
      BY <1>7, <3>1 DEF Missing10
    <3> QED
      BY <1>2, <3>2 DEF Accounted
  <2> QED
    BY <2>1, <2>2
<1> QED
  BY <1>3, <1>6, <1>8

LEMMA ReviewAdds ==
    ASSUME NEW s \in States10, NEW t \in TurnRec, NEW c \in BOOLEAN, NEW u, u = Consumed(s, t, c),
           t.kind = "review", t.names = conflicting_agent_names(s), FindingsFit(s), FirstRoundOnly(s)
    PROVE  FindingsFit(u) /\ (Accounted(s) => Accounted(u))
<1>1. RoundIn(t.kind) = 2
  BY DEF RoundIn
<1>2. /\ s.findings \subseteq u.findings /\ s.execs \subseteq u.execs
      /\ \A f \in u.findings : f \in s.findings \/ (f.round = 2 /\ f.agent \in conflicting_agent_names(s))
      /\ \A f, g \in u.findings :
            f.agent = g.agent /\ f \notin s.findings /\ g \notin s.findings => f = g
  BY <1>1, ConsumedAccounts
<1>3. \A f \in u.findings : f \in s.findings => f.round = 1
  BY DEF FirstRoundOnly
<1>4. Missing10(u) = Missing10(s)
  BY <1>2, <1>3 DEF Missing10
<1>5. \A f, g \in u.findings : f.agent = g.agent /\ f.round = g.round => f = g
  BY <1>2, <1>3 DEF FindingsFit
<1>6. ASSUME NEW f \in u.findings, f.round = 2
      PROVE  f.agent \notin Missing10(u)
  <2>1. f.agent \in conflicting_agent_names(s)
    BY <1>2, <1>3, <1>6
  <2>2. \E g \in s.findings : g.agent = f.agent
    BY <2>1, ConflictingFound
  <2> QED
    BY <1>4, <2>2 DEF Missing10, FirstRoundOnly
<1> QED
  BY <1>2, <1>4, <1>5, <1>6 DEF FindingsFit, Accounted

-----------------------------------------------------------------------------
(* The V10 run: the end of a handler *)

LEMMA FailureIs ==
    ASSUME NEW s \in States10, NEW k \in TurnKinds, NEW c \in {"unknown", "timeout"}
    PROVE  LET u == RecordFailure(s, k, c)
           IN  /\ u \in States10 /\ u.review = "none"
               /\ u.findings = s.findings /\ u.stored = s.stored /\ u.tools = s.tools
               /\ u.execs = s.execs \cup {Record10(Coordinator, k, c)}
               /\ Accounted(u)
<1> DEFINE r == Record10(Coordinator, k, c)
           u == RecordFailure(s, k, c)
<1>1. r \in Records10 /\ Failed10(r) /\ r # PlanFailure
  BY RecordTyped DEF Actors, Failures10
<1> HIDE DEF r
<1> DEFINE all == s.execs \cup {r}
<1>2. u = [s EXCEPT !.execs = all, !.review = "none", !.summary = "failed"]
  BY DEF RecordFailure, r
<1>5. all \subseteq Records10
  BY <1>1 DEF States10
<1> HIDE DEF all, u
<1>3. /\ u \in States10 /\ u.review = "none"
      /\ u.findings = s.findings /\ u.stored = s.stored /\ u.tools = s.tools
      /\ u.execs = all
  BY <1>2, <1>5 DEF States10, Reviews10
<1>4. Accounted(u)
  BY <1>1, <1>3 DEF Accounted, all
<1> QED
  BY <1>3, <1>4 DEF r, u, all

LEMMA FinishFailedIs ==
    ASSUME NEW s \in States10
    PROVE  LET u == FinishFailed(s)
           IN  /\ u \in States10 /\ u.review = "none"
               /\ u.findings = s.findings /\ u.stored = s.stored /\ u.tools = s.tools
               /\ u.execs = s.execs
BY DEF FinishFailed, States10, Reviews10

LEMMA AnalysisDone ==
    ASSUME NEW s \in States10, NEW k \in {"collect", "recollect"}, NEW c \in BOOLEAN,
           FindingsFit(s), FirstRoundOnly(s), Accounted(s), s.review = "none"
    PROVE  EndOf(k, s) \in States10 /\ AttemptFits(EndOf(k, s), 3, "out", c)
<1> DEFINE u == EndOf(k, s)
<1>1. /\ u \in States10 /\ u.findings = s.findings /\ u.review = "none"
      /\ s.execs \subseteq u.execs /\ u.stored = Stored(s, "none") /\ ToolsHaveTasks(u)
  BY EndKeeps DEF TurnKinds
<1>2. u.stored \notin Published /\ u.stored # "oldSdk"
  BY <1>1, StoredNever
<1>3. FindingsFit(u) /\ FirstRoundOnly(u) /\ Accounted(u)
  BY <1>1, SameFindings
<1> HIDE DEF u
<1> QED
  BY <1>1, <1>2, <1>3 DEF AttemptFits, Reached, ShowsStored, Unpublished, Published, u

LEMMA ReviewDone ==
    ASSUME NEW s \in States10, NEW c \in BOOLEAN, FindingsFit(s), Accounted(s),
           s.review \notin Published, s.review # "oldSdk"
    PROVE  EndOf("review", s) \in States10 /\ AttemptFits(EndOf("review", s), 4, "out", c)
<1> DEFINE u == EndOf("review", s)
<1>1. /\ u \in States10 /\ u.findings = s.findings /\ u.review = s.review
      /\ u.execs = s.execs /\ u.stored = Stored(s, "none")
  BY EndKeeps DEF TurnKinds
<1>2. u.stored \notin Published /\ u.stored # "oldSdk"
  BY <1>1, StoredNever
<1>3. FindingsFit(u) /\ Accounted(u)
  BY <1>1, SameFindings
<1> HIDE DEF u
<1> QED
  BY <1>1, <1>2, <1>3 DEF AttemptFits, Reached, ShowsStored, Unpublished, Published, u

LEMMA SynthesisDone ==
    ASSUME NEW s \in States10, NEW c \in BOOLEAN, FindingsFit(s), c => Accounted(s),
           s.review # "oldSdk", s.review = "completed" => Missing10(s) = {},
           TimedOut(s) => s.review \notin Published
    PROVE  EndOf("synth", s) \in States10 /\ AttemptFits(EndOf("synth", s), 5, "fallback", c)
<1> DEFINE u == EndOf("synth", s)
<1>1. /\ u \in States10 /\ u.findings = s.findings /\ u.review = s.review
      /\ u.execs = s.execs /\ u.stored = Stored(s, s.review)
  BY EndKeeps DEF TurnKinds
<1>2. IF s.review = "none" THEN u.stored \notin Published /\ u.stored # "oldSdk"
                           ELSE u.stored = s.review
  BY <1>1, StoredNever DEF States10
<1>3. /\ FindingsFit(u) /\ (c => Accounted(u)) /\ Missing10(u) = Missing10(s)
      /\ TimedOut(u) <=> TimedOut(s)
  BY <1>1, SameFindings, SameMissing DEF TimedOut
<1>4. ShowsStored(u) /\ ReviewFits(u)
  BY <1>1, <1>2, <1>3 DEF ShowsStored, ReviewFits, Unpublished, Published
<1> HIDE DEF u
<1> QED
  BY <1>1, <1>2, <1>3, <1>4 DEF AttemptFits, Reached, u

-----------------------------------------------------------------------------
(* The V10 run: the steps of a turn *)

LEMMA TurnStages ==
    ASSUME LegacyInv
    PROVE  /\ turn = NoTurn <=> turn.stage = "none"
           /\ turn # NoTurn => turn \in TurnRec
           /\ turn # NoTurn => /\ Running10 /\ turn.kind = handler /\ turn.names = Asked(handler)
                               /\ handler \in TurnKinds
BY DEF LegacyInv, LegacyTyped, TurnFits, TurnRec, NoTurn

LEMMA BlankFits ==
    /\ Blank10 \in States10
    /\ \A c \in BOOLEAN : Reached(Blank10, 0, c)
<1>1. /\ Blank10 \in States10 /\ Blank10.findings = {} /\ Blank10.review = "none"
      /\ Blank10.stored = "none" /\ Blank10.execs = {} /\ Blank10.tools = {}
  BY DEF Blank10, States10, Reviews10
<1> QED
  BY <1>1 DEF Reached, FindingsFit, FirstRoundOnly, Unpublished, Published

LEMMA LegacyInitFits ==
    ASSUME LegacyInit PROVE LegacyInv
<1> USE AgentsAssumption
<1>1. PICK old \in {"none", "oldSdk", "oldV5"} :
         /\ saved = [Blank10 EXCEPT !.stored = old]
         /\ state = [Blank10 EXCEPT !.stored = old, !.review = old]
  BY DEF LegacyInit
<1>2. old \in Reviews10 /\ old \notin Published
  BY DEF Reviews10, SdkReviews, Published
<1>3. /\ saved \in States10 /\ saved.findings = {} /\ saved.stored = old /\ saved.review = "none"
      /\ state \in States10 /\ state.findings = {} /\ state.stored = old /\ state.review = old
  BY <1>1, <1>2 DEF Blank10, States10, Reviews10
<1>4. setting.configured \in BOOLEAN
  BY DEF LegacyInit, Settings
<1>5. Reached(saved, 0, setting.configured) /\ Reached(state, 0, setting.configured)
  BY <1>2, <1>3, <1>4 DEF Reached, FindingsFit, FirstRoundOnly, Unpublished, Published
<1>6. LegacyTyped
  <2>1. /\ setting \in Settings /\ legacyRun = "running" /\ legacyPhase = 0 /\ attempts = 0
        /\ handler = "idle" /\ turn = NoTurn /\ openAgents = {} /\ openModels = {}
        /\ tokens = TokenBudget /\ spent = 0 /\ expired = FALSE /\ fence = TRUE
    BY DEF LegacyInit
  <2>2. /\ legacyPhase \in 0..8 /\ attempts \in 0..LegacyResumes
        /\ tokens \in 0..TokenBudget /\ spent \in 0..TokenBudget
    BY <2>1
  <2>3. /\ legacyRun \in {"running", "interrupted", "completed", "failed"}
        /\ handler \in TurnKinds \cup {"idle", "fallback", "out"}
        /\ openAgents \subseteq Actors /\ openModels \subseteq Actors
        /\ expired \in BOOLEAN /\ fence \in BOOLEAN /\ turn \in TurnRec \cup {NoTurn}
    BY <2>1
  <2> QED
    BY <1>3, <2>1, <2>2, <2>3 DEF LegacyTyped, LegacyTypeOK
<1>7. MemoryFits
  BY <1>2, <1>3, <1>5 DEF LegacyInit, MemoryFits, AttemptFits, ShowsStored
<1>8. TurnFits /\ BetweenTurnsFits /\ TokensFit
  BY DEF LegacyInit, TurnFits, BetweenTurnsFits, TokensFit
<1> QED
  BY <1>3, <1>5, <1>6, <1>7, <1>8 DEF LegacyInv, LegacyInit

LEMMA SettledIs ==
    ASSUME NEW t \in TurnRec, OpenCalls(t) \subseteq MayCall(t)
    PROVE  /\ Settled(t) \in TurnRec /\ Settled(t).kind = t.kind /\ Settled(t).names = t.names
           /\ Settled(t).used = t.used
           /\ OpenCalls(Settled(t)) = OpenCalls(t)
           /\ OpenCalls(Settled(t)) \subseteq MayCall(Settled(t))
<1>1. \A st \in {"return", "synth"} :
         LET u == [t EXCEPT !.stage = st]
         IN  /\ u \in TurnRec /\ u.kind = t.kind /\ u.names = t.names /\ u.used = t.used
             /\ u.calls = t.calls /\ u.stage = st
  BY DEF TurnRec
<1>2. t.stage = "work" => MayCall(t) = t.picked
  BY DEF MayCall
<1>3. t.picked \subseteq Actors
  BY DEF TurnRec, Actors
<1>4. t.stage = "work" /\ ~(\E a \in t.picked : t.calls[a] = "open") => OpenCalls(t) = {}
  BY <1>2 DEF OpenCalls
<1>5. \/ Settled(t) = t
      \/ /\ t.stage = "work" /\ ~(\E a \in t.picked : t.calls[a] = "open")
         /\ \E st \in {"return", "synth"} : Settled(t) = [t EXCEPT !.stage = st]
  BY DEF Settled
<1>6. ASSUME NEW st \in {"return", "synth"}, OpenCalls(t) = {}, Settled(t) = [t EXCEPT !.stage = st]
      PROVE  /\ Settled(t) \in TurnRec /\ Settled(t).kind = t.kind /\ Settled(t).names = t.names
             /\ Settled(t).used = t.used
             /\ OpenCalls(Settled(t)) = OpenCalls(t)
             /\ OpenCalls(Settled(t)) \subseteq MayCall(Settled(t))
  BY <1>1, <1>6 DEF OpenCalls
<1> QED
  BY <1>4, <1>5, <1>6

LEMMA TokensGoOn ==
    ASSUME LegacyInv, NEW used \in Nat, TokenBudget <= spent + Left(used)
    PROVE  /\ Billed(spent) \in 0..TokenBudget /\ Counted(used) \in Nat
           /\ TokenBudget <= Billed(spent) + Left(Counted(used))
           /\ TokenBudget <= Billed(spent) + Left(used)
           /\ TokenBudget <= Billed(spent) + tokens
<1>1. tokens \in 0..TokenBudget /\ spent \in 0..TokenBudget /\ TokenBudget \in Nat
      /\ TokenBudget <= spent + tokens
  BY AgentsAssumption DEF LegacyInv, LegacyTyped, LegacyTypeOK, TokensFit
<1> QED
  BY <1>1 DEF Left, Billed, Counted

\* A step inside a turn that leaves the result as it is, or adds what tools found.
LEMMA TurnGoesOn ==
    ASSUME LegacyInv, turn # NoTurn, ~expired,
           UNCHANGED <<setting, legacyRun, legacyPhase, attempts, handler, tokens, expired, fence>>,
           \/ UNCHANGED <<state, saved>>
           \/ \E a \in Specialists, gathered \in BOOLEAN : Gathers(a, gathered),
           turn' \in TurnRec, turn'.kind = turn.kind, turn'.names = turn.names,
           OpenCalls(turn') \subseteq MayCall(turn'), openModels' = OpenCalls(turn'),
           openAgents' \subseteq openAgents \cup Members(turn), openAgents' \subseteq Actors,
           spent' \in 0..TokenBudget,
           TokenBudget <= spent' + Left(turn'.used), TokenBudget <= spent' + tokens
    PROVE  LegacyInv'
<1>1. /\ state \in States10 /\ saved \in States10 /\ turn \in TurnRec
      /\ Running10 /\ turn.kind = handler /\ turn.names = Asked(handler) /\ handler \in TurnKinds
  BY TurnStages DEF LegacyInv, LegacyTyped, LegacyTypeOK
<1>2. /\ state' \in States10 /\ saved' \in States10
      /\ state'.findings = state.findings /\ state'.execs = state.execs
      /\ state'.review = state.review /\ state'.stored = state.stored
      /\ state'.baseline = state.baseline
      /\ saved'.findings = saved.findings /\ saved'.execs = saved.execs
      /\ saved'.review = saved.review /\ saved'.stored = saved.stored
      /\ saved'.report = saved.report
  <2>1. CASE UNCHANGED <<state, saved>>
    BY <1>1, <2>1
  <2>2. CASE \E a \in Specialists, gathered \in BOOLEAN : Gathers(a, gathered)
    <3>1. PICK a \in Specialists, gathered \in BOOLEAN : Gathers(a, gathered)
      BY <2>2
    <3>2. PICK item : item = Cited(a, turn.kind, [claim |-> "none", ref |-> "tool"])
      OBVIOUS
    <3>3. item \in Items /\ item \in Specialists \X (1..2)
      BY <3>2, CitedItem
    <3>4. CASE gathered
      <4>1. /\ state' = [state EXCEPT !.tools = @ \cup {item}, !.known = @ \cup {item}]
            /\ saved' = [saved EXCEPT !.known = @ \cup {item}]
        BY <3>1, <3>2, <3>4, Zenon DEF Gathers
      <4>2. PICK tools, known, kept : /\ tools = state.tools \cup {item}
                                      /\ known = state.known \cup {item}
                                      /\ kept = saved.known \cup {item}
        OBVIOUS
      <4>3. tools \subseteq Specialists \X (1..2) /\ known \subseteq Items /\ kept \subseteq Items
        BY <1>1, <3>3, <4>2 DEF States10
      <4>4. /\ state' = [state EXCEPT !.tools = tools, !.known = known]
            /\ saved' = [saved EXCEPT !.known = kept]
        BY <4>1, <4>2
      <4> QED
        BY <1>1, <4>3, <4>4 DEF States10
    <3>5. CASE ~gathered
      BY <1>1, <3>1, <3>5 DEF Gathers
    <3> QED
      BY <3>4, <3>5
  <2> QED
    BY <2>1, <2>2
<1>3. Missing10(state') = Missing10(state) /\ Missing10(saved') = Missing10(saved)
  BY <1>2, SameMissing
<1>4. Asked(handler)' = Asked(handler)
  BY <1>2, <1>3 DEF Asked, conflicting_agent_names, Active10
<1>5. Reached(saved', legacyPhase, setting.configured) /\ saved'.review = "none"
  BY <1>2, <1>3 DEF LegacyInv, Reached, FindingsFit, FirstRoundOnly, Unpublished, Accounted,
     ReviewFits, TimedOut
<1>6. MemoryFits'
  <2>1. AttemptFits(state, legacyPhase, handler, setting.configured)
    BY <1>1 DEF LegacyInv, MemoryFits, Running10
  <2>2. Reached(state, legacyPhase, setting.configured) /\ legacyPhase \in {4, 5}
           => Reached(state', legacyPhase, setting.configured)
    BY <1>2, <1>3 DEF Reached, FindingsFit, FirstRoundOnly, Unpublished, Accounted
  <2>3. AttemptFits(state', legacyPhase, handler, setting.configured)
    BY <1>1, <1>2, <1>3, <2>1, <2>2 DEF AttemptFits, ShowsStored, Unpublished, TimedOut, TurnKinds,
       FindingsFit, FirstRoundOnly, Accounted
  <2> QED
    BY <1>1, <2>3 DEF MemoryFits, Running10
<1>7. LegacyTyped'
  <2>1. openModels' \subseteq Actors
    BY DEF OpenCalls
  <2> QED
    BY <1>2, <2>1 DEF LegacyInv, LegacyTyped, LegacyTypeOK
<1>8. TurnFits'
  <2>1. expired \/ ~fence \/ openAgents \subseteq Members(turn)
    BY DEF LegacyInv, TurnFits
  <2>2. Members(turn)' = Members(turn)
    BY DEF Members
  <2>3. TokenBudget <= spent' + Left(turn.used)'
    BY DEF Left
  <2> QED
    BY <1>1, <1>4, <2>1, <2>2, <2>3 DEF TurnFits, Running10
<1>9. turn' # NoTurn
  BY DEF TurnRec, NoTurn
<1> QED
  BY <1>5, <1>6, <1>7, <1>8, <1>9 DEF LegacyInv, BetweenTurnsFits, TokensFit

LEMMA InTurn10 ==
    ASSUME LegacyInv, turn # NoTurn
    PROVE  /\ turn \in TurnRec /\ Running10 /\ turn.kind = handler /\ handler \in TurnKinds
           /\ turn.names \subseteq Specialists /\ turn.picked \subseteq Specialists /\ turn.used \in Nat
           /\ turn.calls \in [Actors -> {"idle", "open", "done"}]
           /\ OpenCalls(turn) \subseteq MayCall(turn)
           /\ ~expired => openModels = OpenCalls(turn)
           /\ openAgents \subseteq Actors
           /\ TokenBudget <= spent + Left(turn.used) /\ TokenBudget <= spent + tokens
           /\ spent \in 0..TokenBudget /\ Members(turn) \subseteq Actors
BY TurnStages DEF LegacyInv, LegacyTyped, LegacyTypeOK, TurnFits, TurnRec, TokensFit, Members, Actors

LEMMA AnnounceKeeps ==
    ASSUME LegacyInv, Announce PROVE LegacyInv'
<1>1. turn # NoTurn /\ turn.stage = "announce" /\ ~expired
  BY TurnStages DEF Announce, Live
<1>2. turn \in TurnRec /\ OpenCalls(turn) \subseteq MayCall(turn) /\ openModels = OpenCalls(turn)
  BY <1>1, InTurn10
<1>3. OpenCalls(turn) = {}
  BY <1>1, <1>2 DEF MayCall
<1>4. /\ turn' \in TurnRec /\ turn'.kind = turn.kind /\ turn'.names = turn.names
      /\ turn'.calls = turn.calls /\ turn'.used = turn.used
  <2>1. \/ turn' = [turn EXCEPT !.stage = "synth"]
        \/ turn' = [turn EXCEPT !.stage = "work", !.picked = turn.names]
        \/ turn' = [turn EXCEPT !.stage = "ask"]
    BY DEF Announce
  <2> QED
    BY <1>2, <2>1 DEF TurnRec
<1>5. OpenCalls(turn') = {}
  BY <1>3, <1>4 DEF OpenCalls
<1> QED
  BY <1>1, <1>2, <1>3, <1>4, <1>5, InTurn10, TurnGoesOn DEF Announce, Actors

LEMMA RequestKeeps ==
    ASSUME LegacyInv, NEW a \in Actors, RequestStarts(a) PROVE LegacyInv'
<1>1. turn # NoTurn /\ ~expired /\ turn.stage \in {"ask", "work", "synth"}
  BY TurnStages DEF RequestStarts
<1>2. /\ turn \in TurnRec /\ OpenCalls(turn) \subseteq MayCall(turn) /\ openModels = OpenCalls(turn)
      /\ turn.calls \in [Actors -> {"idle", "open", "done"}]
  BY <1>1, InTurn10
<1>3. a \in MayCall(turn)
  BY <1>1 DEF RequestStarts, MayCall
<1>4. PICK calls : calls = [turn.calls EXCEPT ![a] = "open"]
  OBVIOUS
<1>5. turn' = [turn EXCEPT !.calls = calls]
  BY <1>4 DEF RequestStarts
<1>6. calls \in [Actors -> {"idle", "open", "done"}] /\ \A b \in Actors : calls[b] = "open" <=> (b = a \/ turn.calls[b] = "open")
  BY <1>2, <1>4
<1>7. /\ turn' \in TurnRec /\ turn'.kind = turn.kind /\ turn'.names = turn.names
      /\ turn'.calls = calls /\ turn'.used = turn.used /\ turn'.stage = turn.stage
      /\ turn'.picked = turn.picked
  BY <1>2, <1>5, <1>6 DEF TurnRec
<1>8. OpenCalls(turn') = OpenCalls(turn) \cup {a}
  BY <1>6, <1>7 DEF OpenCalls
<1>9. MayCall(turn') = MayCall(turn)
  BY <1>7 DEF MayCall
<1>10. openModels' = OpenCalls(turn') /\ OpenCalls(turn') \subseteq MayCall(turn')
  BY <1>2, <1>3, <1>8, <1>9 DEF RequestStarts
<1> QED
  BY <1>1, <1>7, <1>10, InTurn10, TurnGoesOn DEF RequestStarts

\* A request that is answered is not open any more.
LEMMA AnsweredCloses ==
    ASSUME LegacyInv, NEW a \in Actors, Answered(a), NEW c \in {"idle", "done"}, NEW u,
           u.calls = [turn.calls EXCEPT ![a] = c]
    PROVE  /\ turn # NoTurn /\ ~expired /\ OpenCalls(u) = OpenCalls(turn) \ {a}
           /\ openModels' = OpenCalls(u)
           /\ u.calls \in [Actors -> {"idle", "open", "done"}]
<1>1. turn # NoTurn /\ ~expired
  BY TurnStages DEF Answered
<1>2. turn.calls \in [Actors -> {"idle", "open", "done"}] /\ openModels = OpenCalls(turn)
  BY <1>1, InTurn10
<1>3. \A b \in Actors : u.calls[b] = IF b = a THEN c ELSE turn.calls[b]
  BY <1>2
<1>4. u.calls \in [Actors -> {"idle", "open", "done"}]
  BY <1>2
<1>5. OpenCalls(u) = OpenCalls(turn) \ {a}
  BY <1>3 DEF OpenCalls
<1> QED
  BY <1>1, <1>2, <1>4, <1>5 DEF Answered

LEMMA PicksKeeps ==
    ASSUME LegacyInv, CoordinatorPicks PROVE LegacyInv'
<1>1. turn.stage = "ask" /\ Answered(Coordinator) /\ turn # NoTurn /\ ~expired /\ Coordinator \in Actors
  BY TurnStages DEF CoordinatorPicks, Answered, Actors
<1>2. turn \in TurnRec /\ OpenCalls(turn) \subseteq {Coordinator}
  BY <1>1, InTurn10 DEF MayCall
<1>3. PICK picked \in SUBSET turn.names :
         turn' = Settled([turn EXCEPT !.stage = "work", !.picked = picked, !.used = Counted(@),
                                      !.calls[Coordinator] = "idle"])
  BY Zenon DEF CoordinatorPicks
<1>4. PICK calls, used : calls = [turn.calls EXCEPT ![Coordinator] = "idle"] /\ used = Counted(turn.used)
  OBVIOUS
<1>5. PICK u : u = [turn EXCEPT !.stage = "work", !.picked = picked, !.used = used, !.calls = calls]
  OBVIOUS
<1>6. turn' = Settled(u)
  BY <1>3, <1>4, <1>5
<1>7. /\ turn.used \in Nat /\ TokenBudget <= spent + Left(turn.used)
      /\ turn.calls \in [Actors -> {"idle", "open", "done"}]
  BY <1>1, InTurn10
<1>8. calls \in [Actors -> {"idle", "open", "done"}] /\ used \in Nat
  BY <1>4, <1>7, TokensGoOn
<1>9. /\ u \in TurnRec /\ u.stage = "work" /\ u.kind = turn.kind /\ u.names = turn.names
      /\ u.used = used /\ u.calls = calls
  BY <1>2, <1>5, <1>8 DEF TurnRec
<1>10. OpenCalls(u) = {} /\ openModels' = OpenCalls(u)
  <2>1. u.calls = [turn.calls EXCEPT ![Coordinator] = "idle"] /\ "idle" \in {"idle", "done"}
    BY <1>4, <1>9
  <2>2. OpenCalls(u) = OpenCalls(turn) \ {Coordinator} /\ openModels' = OpenCalls(u)
    BY <1>1, <2>1, AnsweredCloses, Zenon
  <2> QED
    BY <1>2, <2>2
<1>11. /\ turn' \in TurnRec /\ turn'.kind = turn.kind /\ turn'.names = turn.names
       /\ turn'.used = used /\ openModels' = OpenCalls(turn') /\ OpenCalls(turn') \subseteq MayCall(turn')
  BY <1>6, <1>9, <1>10, SettledIs
<1>12. /\ spent' \in 0..TokenBudget /\ TokenBudget <= spent' + Left(turn'.used)
       /\ TokenBudget <= spent' + tokens
  BY <1>4, <1>7, <1>11, TokensGoOn DEF CoordinatorPicks
<1>13. /\ UNCHANGED <<setting, legacyRun, legacyPhase, attempts, handler, tokens, expired, fence>>
       /\ UNCHANGED <<state, saved>> /\ openAgents' = openAgents /\ openAgents \subseteq Actors
  BY <1>1, InTurn10 DEF CoordinatorPicks, Answered
<1> QED
  BY <1>1, <1>11, <1>12, <1>13, TurnGoesOn

\* What every answer of a specialist does to the turn.
LEMMA SpecialistKeeps ==
    ASSUME LegacyInv, NEW a \in Specialists, turn.stage = "work", Answered(a),
           NEW d \in LegacyDrafts, NEW used \in Nat, NEW outcome \in {turn.outcome, "unknown"},
           NEW calls, calls = [turn.calls EXCEPT ![a] = "done"],
           NEW drafts, drafts = [turn.drafts EXCEPT ![a] = d],
           NEW u, u = [turn EXCEPT !.calls = calls, !.drafts = drafts, !.used = used,
                                   !.outcome = outcome],
           turn' = Settled(u),
           NEW gathered \in BOOLEAN, Gathers(a, gathered),
           spent' \in 0..TokenBudget, TokenBudget <= spent' + Left(used), TokenBudget <= spent' + tokens
    PROVE  LegacyInv'
<1>1. turn # NoTurn /\ ~expired /\ a \in Actors
  BY TurnStages DEF Answered, Actors
<1>2. turn \in TurnRec /\ OpenCalls(turn) \subseteq turn.picked
  BY <1>1, InTurn10 DEF MayCall
<1>6. calls \in [Actors -> {"idle", "open", "done"}] /\ drafts \in [Specialists -> LegacyDrafts]
  BY <1>1, <1>2 DEF TurnRec
<1>7. /\ u \in TurnRec /\ u.stage = "work" /\ u.kind = turn.kind /\ u.names = turn.names
      /\ u.used = used /\ u.calls = calls /\ u.picked = turn.picked
  BY <1>2, <1>6 DEF TurnRec
<1>8. OpenCalls(u) = OpenCalls(turn) \ {a} /\ openModels' = OpenCalls(u)
  BY <1>1, <1>7, AnsweredCloses
<1>9. OpenCalls(u) \subseteq MayCall(u)
  BY <1>2, <1>7, <1>8 DEF MayCall
<1>10. /\ turn' \in TurnRec /\ turn'.kind = turn.kind /\ turn'.names = turn.names
       /\ turn'.used = used /\ openModels' = OpenCalls(turn') /\ OpenCalls(turn') \subseteq MayCall(turn')
  BY <1>7, <1>8, <1>9, SettledIs
<1>11. /\ UNCHANGED <<setting, legacyRun, legacyPhase, attempts, handler, tokens, expired, fence>>
       /\ openAgents' = openAgents /\ openAgents \subseteq Actors
  BY <1>1, InTurn10 DEF Answered
<1> QED
  BY <1>1, <1>10, <1>11, TurnGoesOn

LEMMA ReturnsKeeps ==
    ASSUME LegacyInv, NEW a \in Specialists, SpecialistReturns(a) PROVE LegacyInv'
<1>1. turn.stage = "work" /\ Answered(a) /\ turn # NoTurn
  BY TurnStages DEF SpecialistReturns
<1>2. turn \in TurnRec /\ turn.used \in Nat /\ TokenBudget <= spent + Left(turn.used)
  BY <1>1, InTurn10
<1>3. PICK d \in SpecialistDrafts :
         /\ turn' = Settled([turn EXCEPT !.calls[a] = "done", !.drafts[a] = d, !.used = Counted(@)])
         /\ Gathers(a, d.ref = "tool")
  BY Zenon DEF SpecialistReturns
<1>4. PICK used, calls, drafts : /\ used = Counted(turn.used) /\ calls = [turn.calls EXCEPT ![a] = "done"]
                                 /\ drafts = [turn.drafts EXCEPT ![a] = d]
  OBVIOUS
<1>5. [turn EXCEPT !.calls = calls, !.drafts = drafts, !.used = used]
        = [turn EXCEPT !.calls = calls, !.drafts = drafts, !.used = used, !.outcome = turn.outcome]
  BY <1>2 DEF TurnRec
<1>6. PICK u : /\ u = [turn EXCEPT !.calls = calls, !.drafts = drafts, !.used = used,
                                   !.outcome = turn.outcome]
               /\ turn' = Settled(u)
  BY <1>3, <1>4, <1>5
<1>7. d \in LegacyDrafts /\ used \in Nat /\ (d.ref = "tool") \in BOOLEAN
  BY <1>2, <1>4, TokensGoOn DEF LegacyDrafts
<1>8. spent' \in 0..TokenBudget /\ TokenBudget <= spent' + Left(used) /\ TokenBudget <= spent' + tokens
  <2>1. spent' = Billed(spent)
    BY Zenon DEF SpecialistReturns
  <2> QED
    BY <1>2, <1>4, <2>1, TokensGoOn
<1>9. Gathers(a, d.ref = "tool")
  BY <1>3, Zenon
<1> QED
  BY <1>1, <1>4, <1>6, <1>7, <1>8, <1>9, SpecialistKeeps, ZenonT(30)

LEMMA FailsKeeps ==
    ASSUME LegacyInv, NEW a \in Specialists, SpecialistFails(a) PROVE LegacyInv'
<1>1. turn.stage = "work" /\ Answered(a) /\ turn # NoTurn
  BY TurnStages DEF SpecialistFails
<1>2. turn \in TurnRec /\ turn.used \in Nat /\ TokenBudget <= spent + Left(turn.used)
  BY <1>1, InTurn10
<1>3. PICK outcome : outcome = IF setting.prompt = "v9" THEN turn.outcome ELSE "unknown"
  OBVIOUS
<1>4. turn' = Settled([turn EXCEPT !.calls[a] = "done", !.outcome = outcome])
  BY <1>3 DEF SpecialistFails
<1>5. PICK calls : calls = [turn.calls EXCEPT ![a] = "done"]
  OBVIOUS
<1>6. PICK d \in LegacyDrafts : d = turn.drafts[a]
  BY <1>2 DEF TurnRec
<1>7. [turn EXCEPT !.calls = calls, !.outcome = outcome]
        = [turn EXCEPT !.calls = calls, !.drafts = turn.drafts, !.used = turn.used, !.outcome = outcome]
  BY <1>2 DEF TurnRec
<1>8. turn.drafts = [turn.drafts EXCEPT ![a] = d]
  BY <1>2, <1>6 DEF TurnRec
<1>9. PICK u : /\ u = [turn EXCEPT !.calls = calls, !.drafts = turn.drafts, !.used = turn.used,
                                   !.outcome = outcome]
               /\ turn' = Settled(u)
  BY <1>4, <1>5, <1>7
<1>10. /\ spent' \in 0..TokenBudget /\ TokenBudget <= spent' + Left(turn.used)
       /\ TokenBudget <= spent' + tokens
  BY <1>1, <1>2, TokensGoOn, InTurn10 DEF SpecialistFails
<1>11. PICK gathered \in BOOLEAN : Gathers(a, gathered)
  BY DEF SpecialistFails
<1>12. outcome \in {turn.outcome, "unknown"}
  BY <1>3
<1> QED
  BY <1>1, <1>2, <1>9, <1>10, <1>11, <1>12, <1>5, <1>6, <1>8, SpecialistKeeps, ZenonT(30)

LEMMA SynthesisReturnsKeeps ==
    ASSUME LegacyInv, CoordinatorReturns PROVE LegacyInv'
<1>1. turn.stage = "synth" /\ Answered(Coordinator) /\ turn # NoTurn /\ ~expired /\ Coordinator \in Actors
  BY TurnStages DEF CoordinatorReturns, Answered, Actors
<1>2. turn \in TurnRec /\ OpenCalls(turn) \subseteq {Coordinator}
  BY <1>1, InTurn10 DEF MayCall
<1>3. PICK o \in {"proposal", "invalid", "transport", "timeout"} :
         /\ turn' = [turn EXCEPT !.stage = "return", !.outcome = o, !.calls[Coordinator] = "done",
                                 !.used = IF o = "proposal" \/ (o = "invalid" /\ setting.prompt # "v9")
                                          THEN Counted(@) ELSE @]
         /\ spent' = IF o \in {"proposal", "invalid"} THEN Billed(spent) ELSE spent
  BY DEF CoordinatorReturns
<1>4. PICK calls, used :
         /\ calls = [turn.calls EXCEPT ![Coordinator] = "done"]
         /\ used = IF o = "proposal" \/ (o = "invalid" /\ setting.prompt # "v9")
                   THEN Counted(turn.used) ELSE turn.used
  OBVIOUS
<1>5. turn' = [turn EXCEPT !.stage = "return", !.outcome = o, !.calls = calls, !.used = used]
  BY <1>3, <1>4
<1>6. /\ turn.used \in Nat /\ TokenBudget <= spent + Left(turn.used) /\ TokenBudget <= spent + tokens
      /\ turn.calls \in [Actors -> {"idle", "open", "done"}] /\ spent \in 0..TokenBudget
  BY <1>1, InTurn10
<1>7. calls \in [Actors -> {"idle", "open", "done"}] /\ used \in Nat
  BY <1>4, <1>6, TokensGoOn
<1>8. /\ turn' \in TurnRec /\ turn'.stage = "return" /\ turn'.kind = turn.kind
      /\ turn'.names = turn.names /\ turn'.used = used /\ turn'.calls = calls
  BY <1>2, <1>5, <1>7 DEF TurnRec
<1>9. OpenCalls(turn') = {} /\ openModels' = OpenCalls(turn')
  <2>1. PICK u : u = turn'
    OBVIOUS
  <2>2. u.calls = [turn.calls EXCEPT ![Coordinator] = "done"] /\ "done" \in {"idle", "done"}
    BY <1>4, <1>8, <2>1
  <2>3. OpenCalls(u) = OpenCalls(turn) \ {Coordinator} /\ openModels' = OpenCalls(u)
    BY <1>1, <2>2, AnsweredCloses, Zenon
  <2> QED
    BY <1>2, <2>1, <2>3
<1>10. /\ spent' \in 0..TokenBudget /\ TokenBudget <= spent' + Left(turn'.used)
       /\ TokenBudget <= spent' + tokens
  BY <1>3, <1>4, <1>6, <1>8, TokensGoOn
<1>11. /\ UNCHANGED <<setting, legacyRun, legacyPhase, attempts, handler, tokens, expired, fence>>
       /\ UNCHANGED <<state, saved>> /\ openAgents' = openAgents /\ openAgents \subseteq Actors
  BY <1>1, InTurn10 DEF CoordinatorReturns, Answered
<1> QED
  BY <1>1, <1>8, <1>9, <1>10, <1>11, TurnGoesOn

-----------------------------------------------------------------------------
(* The V10 run: the end of a turn *)

LEMMA AnalysisFits ==
    ASSUME NEW s, NEW n, NEW h \in {"collect", "recollect"}, NEW c, AttemptFits(s, n, h, c)
    PROVE  n = 3 /\ c /\ FindingsFit(s) /\ FirstRoundOnly(s) /\ s.review = "none" /\ Unpublished(s)
BY DEF AttemptFits, FindingsFit, FirstRoundOnly

\* A handler cut short leaves a failure of the Coordinator and no review.
LEMMA CutShort ==
    ASSUME NEW s \in States10, NEW t, NEW k \in TurnKinds, NEW n, NEW f \in {"unknown", "timeout"},
           NEW c \in BOOLEAN, AttemptFits(t, n, k, c), FindingsFit(s),
           k \in {"collect", "recollect"} => FirstRoundOnly(s)
    PROVE  /\ EndOf(k, RecordFailure(s, k, f)) \in States10
           /\ AttemptFits(EndOf(k, RecordFailure(s, k, f)), n, NextStop(k), c)
           /\ EndOf(k, RecordFailure(s, k, f)).review = "none"
<1> DEFINE u == RecordFailure(s, k, f)
<1>1. /\ u \in States10 /\ u.review = "none" /\ u.findings = s.findings /\ Accounted(u)
      /\ s.execs \subseteq u.execs
  BY FailureIs
<1>2. FindingsFit(u) /\ (FirstRoundOnly(s) => FirstRoundOnly(u))
  BY <1>1, SameFindings
<1> HIDE DEF u
<1>3. EndOf(k, u).review = "none" /\ "none" \notin Published
  BY <1>1, EndKeeps DEF Published
<1>4. CASE k \in {"collect", "recollect"}
  <2>1. n = 3
    BY <1>4, AnalysisFits
  <2>2. EndOf(k, u) \in States10 /\ AttemptFits(EndOf(k, u), 3, "out", c)
    BY <1>1, <1>2, <1>4, AnalysisDone
  <2> QED
    BY <1>3, <1>4, <2>1, <2>2 DEF NextStop, u
<1>5. CASE k = "review"
  <2>1. n = 4
    BY <1>5 DEF AttemptFits
  <2>2. EndOf(k, u) \in States10 /\ AttemptFits(EndOf(k, u), 4, "out", c)
    BY <1>1, <1>2, <1>3, <1>5, ReviewDone
  <2> QED
    BY <1>3, <1>5, <2>1, <2>2 DEF NextStop, u
<1>6. CASE k = "synth"
  <2>1. n = 5
    BY <1>6 DEF AttemptFits
  <2>2. EndOf(k, u) \in States10 /\ AttemptFits(EndOf(k, u), 5, "fallback", c)
    BY <1>1, <1>2, <1>3, <1>6, SynthesisDone
  <2> QED
    BY <1>3, <1>6, <2>1, <2>2 DEF NextStop, u
<1> QED
  BY <1>4, <1>5, <1>6 DEF TurnKinds

LEMMA InMemory ==
    ASSUME LegacyInv, Running10
    PROVE  /\ AttemptFits(state, legacyPhase, handler, setting.configured)
           /\ setting.configured \in BOOLEAN /\ state \in States10 /\ saved \in States10
           /\ legacyPhase \in 0..8
BY DEF LegacyInv, MemoryFits, Running10, LegacyTyped, LegacyTypeOK, Settings

\* What remains to be shown of a step after which no turn is under way.
LEMMA TurnEnds ==
    ASSUME LegacyInv, turn' = NoTurn, UNCHANGED <<setting, legacyPhase, attempts, saved, spent>>,
           state' \in States10, handler' \in TurnKinds \cup {"idle", "fallback", "out"},
           \/ legacyRun' \in {"interrupted", "failed"} /\ state' = Blank10
           \/ /\ legacyRun' = "running"
              /\ AttemptFits(state', legacyPhase, handler', setting.configured)
              /\ openAgents' # {} => expired' \/ ~fence'
              /\ openModels' # {} => expired'
              /\ state'.review \in Published => openAgents' = {} /\ openModels' = {},
           openAgents' \subseteq Actors, openModels' \subseteq Actors,
           tokens' \in 0..TokenBudget, expired' \in BOOLEAN, fence' \in BOOLEAN,
           TokenBudget <= spent + tokens'
    PROVE  LegacyInv'
<1>1. LegacyTyped'
  BY DEF LegacyInv, LegacyTyped, LegacyTypeOK
<1>2. MemoryFits'
  BY DEF MemoryFits
<1>3. TurnFits' /\ BetweenTurnsFits' /\ TokensFit'
  BY DEF TurnFits, BetweenTurnsFits, TokensFit, Running10
<1> QED
  BY <1>1, <1>2, <1>3 DEF LegacyInv

\* An exception leaves the turn.
LEMMA EscapesFits ==
    ASSUME LegacyInv, Running10, handler \in TurnKinds, Escapes
    PROVE  /\ turn' = NoTurn /\ state' \in States10
           /\ handler' \in TurnKinds \cup {"idle", "fallback", "out"}
           /\ \/ legacyRun' \in {"interrupted", "failed"} /\ state' = Blank10
              \/ /\ legacyRun' = "running" /\ state'.review \notin Published
                 /\ AttemptFits(state', legacyPhase, handler', setting.configured)
<1>1. CASE handler \in {"collect", "recollect"}
  <2>1. /\ state' = EndOf(handler, RecordFailure(state, handler, "unknown"))
        /\ handler' = "out" /\ legacyRun' = "running" /\ turn' = NoTurn
    BY <1>1 DEF Escapes, Running10
  <2>2. FindingsFit(state) /\ FirstRoundOnly(state)
    BY <1>1, InMemory, AnalysisFits
  <2>3. /\ state' \in States10 /\ AttemptFits(state', legacyPhase, NextStop(handler), setting.configured)
        /\ state'.review = "none"
    BY <2>1, <2>2, InMemory, CutShort
  <2>4. NextStop(handler) = "out"
    BY <1>1 DEF NextStop
  <2> QED
    BY <2>1, <2>3, <2>4 DEF Published
<1>2. CASE handler \notin {"collect", "recollect"}
  BY <1>2, BlankFits DEF Escapes
<1> QED
  BY <1>1, <1>2

LEMMA BeginKeeps ==
    ASSUME LegacyInv, BeginTurn PROVE LegacyInv'
<1>1. Running10 /\ handler \in TurnKinds /\ turn = NoTurn
  BY DEF BeginTurn
<1>2. /\ tokens \in 0..TokenBudget /\ TokenBudget \in Nat /\ TokenBudget <= spent + tokens
      /\ spent \in 0..TokenBudget
      /\ openAgents \subseteq Actors /\ openModels \subseteq Actors
      /\ expired \in BOOLEAN /\ fence \in BOOLEAN
      /\ openAgents # {} => expired \/ ~fence
      /\ openModels # {} => expired
  BY <1>1, AgentsAssumption DEF LegacyInv, LegacyTyped, LegacyTypeOK, TokensFit, BetweenTurnsFits
<1>3. UNCHANGED <<setting, legacyPhase, attempts, saved, openAgents, openModels, tokens, spent,
                  expired, fence>>
  BY DEF BeginTurn
<1>4. CASE ~fence \/ (setting.metered /\ tokens = 0)
  <2>1. Escapes
    BY <1>4 DEF BeginTurn
  <2> QED
    BY <1>1, <1>2, <1>3, <2>1, EscapesFits, TurnEnds
<1>5. CASE ~(~fence \/ (setting.metered /\ tokens = 0))
  <2>1. /\ turn' = [stage |-> "announce", kind |-> handler, names |-> Asked(handler),
                    picked |-> {}, calls |-> [a \in Actors |-> "idle"],
                    drafts |-> [a \in Specialists |-> NoDraft], used |-> 0, outcome |-> "none"]
        /\ UNCHANGED <<legacyRun, state, handler>>
    BY <1>5 DEF BeginTurn
  <2>2. Asked(handler) \subseteq Specialists
    <3>1. \A a \in conflicting_agent_names(state) : \E f \in state.findings : f.agent = a
      BY ConflictingFound
    <3>2. \A f \in state.findings : f.agent \in Specialists
      BY <1>1, InMemory DEF States10, Findings10
    <3> QED
      BY <1>1, <3>1, <3>2 DEF Asked, Missing10, TurnKinds
  <2>3. NoDraft \in LegacyDrafts
    BY DEF LegacyDrafts
  <2>4. /\ turn' \in TurnRec /\ turn'.stage = "announce" /\ turn'.kind = handler
        /\ turn'.names = Asked(handler) /\ turn'.used = 0
        /\ \A a \in Actors : turn'.calls[a] = "idle"
    BY <1>1, <2>1, <2>2, <2>3 DEF TurnRec
  <2>5. OpenCalls(turn') = {}
    BY <2>4 DEF OpenCalls
  <2>6. LegacyTyped'
    BY <1>3, <2>1, <2>4 DEF LegacyInv, LegacyTyped, LegacyTypeOK
  <2>7. MemoryFits'
    BY <1>3, <2>1 DEF LegacyInv, MemoryFits
  <2>8. Asked(handler)' = Asked(handler)
    BY <2>1 DEF Asked
  <2>9. TokenBudget <= spent + Left(turn'.used)
    BY <1>2, <2>4 DEF Left
  <2>10. Left(turn.used)' = Left(turn'.used)
    BY <1>3 DEF Left
  <2>11. openAgents # {} => expired
    BY <1>2, <1>5
  <2>12. TurnFits'
    BY <1>1, <1>2, <1>3, <2>1, <2>4, <2>5, <2>8, <2>9, <2>10, <2>11 DEF TurnFits, Running10, Members
  <2>13. turn' # NoTurn
    BY <2>4 DEF NoTurn
  <2> QED
    BY <1>2, <1>3, <2>6, <2>7, <2>12, <2>13 DEF LegacyInv, BetweenTurnsFits, TokensFit
<1> QED
  BY <1>4, <1>5

\* A tool budget left by a turn.
LEMMA LeftFits ==
    ASSUME LegacyInv, turn # NoTurn
    PROVE  /\ Left(turn.used) \in 0..TokenBudget /\ TokenBudget <= spent + Left(turn.used)
           /\ tokens \in 0..TokenBudget /\ TokenBudget <= spent + tokens
<1>1. turn.used \in Nat /\ TokenBudget <= spent + Left(turn.used) /\ TokenBudget <= spent + tokens
  BY InTurn10
<1>2. tokens \in 0..TokenBudget /\ TokenBudget \in Nat
  BY AgentsAssumption DEF LegacyInv, LegacyTyped, LegacyTypeOK
<1> QED
  BY <1>1, <1>2 DEF Left

LEMMA DeadlineKeeps ==
    ASSUME LegacyInv, Deadline10 PROVE LegacyInv'
<1>1. turn # NoTurn
  BY TurnStages DEF Deadline10, NestedCancelled, ParallelCancelled, CancelledWriting
<1>2. /\ Running10 /\ turn \in TurnRec /\ turn.kind = handler /\ handler \in TurnKinds
      /\ turn.names = Asked(handler) /\ Members(turn) \subseteq Actors
      /\ openAgents \subseteq Actors /\ openModels \subseteq Actors
  BY <1>1, InTurn10, TurnStages DEF LegacyInv, LegacyTyped, LegacyTypeOK
<1>3. /\ expired' = TRUE /\ turn' = NoTurn /\ handler' = NextStop(turn.kind)
      /\ UNCHANGED <<setting, legacyRun, legacyPhase, attempts, saved, spent, fence>>
  BY DEF Deadline10
<1>4. /\ AttemptFits(state, legacyPhase, handler, setting.configured) /\ state \in States10
      /\ setting.configured \in BOOLEAN
  BY <1>2, InMemory
<1>5. FindingsFit(state) /\ (handler \in {"collect", "recollect"} => FirstRoundOnly(state))
  BY <1>2, <1>4, AnalysisFits DEF AttemptFits, Reached, TurnKinds
<1>6. \E s \in States10 :
         /\ FindingsFit(s) /\ (handler \in {"collect", "recollect"} => FirstRoundOnly(s))
         /\ state' = EndOf(handler, RecordFailure(s, handler, "timeout"))
  <2>1. CASE NestedCancelled
    <3>1. CASE fence /\ turn.used <= tokens /\ turn.kind \in {"collect", "recollect"}
      <4>1. PICK s : s = Consumed(state, turn, FALSE)
        BY Zenon
      <4>2. state' = EndOf(handler, RecordFailure(s, handler, "timeout"))
        <5>1. state' = EndOf(turn.kind, RecordFailure(Consumed(state, turn, FALSE), turn.kind, "timeout"))
          BY <2>1, <3>1 DEF NestedCancelled
        <5> QED
          BY <1>2, <4>1, <5>1
      <4>3. s \in States10
        BY <1>2, <1>4, <4>1, ConsumedIs
      <4>4. turn.names = Missing10(state)
        <5>1. CASE handler = "collect"
          <6>1. state.findings = {}
            BY <1>4, <5>1 DEF AttemptFits
          <6> QED
            BY <1>2, <5>1, <6>1 DEF Asked, Missing10
        <5>2. CASE handler = "recollect"
          BY <1>2, <5>2 DEF Asked
        <5> QED
          BY <1>2, <3>1, <5>1, <5>2
      <4>5. FindingsFit(s) /\ FirstRoundOnly(s)
        BY <1>2, <1>4, <1>5, <3>1, <4>1, <4>4, AnalysisAdds
      <4> QED
        BY <4>2, <4>3, <4>5
    <3>2. CASE ~(fence /\ turn.used <= tokens /\ turn.kind \in {"collect", "recollect"})
      BY <1>2, <1>4, <1>5, <2>1, <3>2 DEF NestedCancelled
    <3> QED
      BY <3>1, <3>2
  <2>2. CASE ParallelCancelled
    BY <1>2, <1>4, <1>5, <2>2 DEF ParallelCancelled
  <2>3. CASE CancelledWriting
    BY <1>2, <1>4, <1>5, <2>3 DEF CancelledWriting
  <2> QED
    BY <2>1, <2>2, <2>3 DEF Deadline10
<1>7. /\ state' \in States10 /\ AttemptFits(state', legacyPhase, handler', setting.configured)
      /\ state'.review = "none"
  BY <1>2, <1>3, <1>4, <1>6, CutShort
<1>8. handler' \in TurnKinds \cup {"idle", "fallback", "out"}
  BY <1>3 DEF NextStop
<1>9. /\ openAgents' \subseteq Actors /\ openModels' \subseteq Actors
      /\ tokens' \in {tokens, Left(turn.used)}
  BY <1>2 DEF Deadline10, NestedCancelled, ParallelCancelled, CancelledWriting
<1>10. tokens' \in 0..TokenBudget /\ TokenBudget <= spent + tokens' /\ fence \in BOOLEAN
  BY <1>1, <1>9, LeftFits DEF LegacyInv, LegacyTyped, LegacyTypeOK
<1> QED
  BY <1>2, <1>3, <1>7, <1>8, <1>9, <1>10, TurnEnds DEF Running10, Published

LEMMA PublishedTyped ==
    ASSUME NEW s \in States10, SynthStatus(s) \in Published
    PROVE  /\ Published10(s) \in States10 /\ Published10(s).review = SynthStatus(s)
           /\ Published10(s).findings = s.findings /\ Published10(s).execs = s.execs
<1>1. PICK r : r = SynthStatus(s)
  OBVIOUS
<1>2. r \in Reviews10 /\ r \in {"none", "skipped", "failed", "partial", "completed"}
  BY <1>1 DEF Reviews10, SdkReviews, Published
<1>3. PICK t : t = [s EXCEPT !.review = r, !.summary = r]
  OBVIOUS
<1>4. t \in States10 /\ t.review = r /\ t.findings = s.findings /\ t.execs = s.execs
  BY <1>2, <1>3 DEF States10
<1>5. Published10(s) = t
  BY <1>1, <1>3 DEF Published10
<1> QED
  BY <1>1, <1>4, <1>5

LEMMA RejectedTyped ==
    ASSUME NEW s \in States10, NEW e \in Records10, e = Record10(Coordinator, "synth", "validation")
    PROVE  /\ Rejected10(s) \in States10 /\ Rejected10(s).review = "none"
           /\ Rejected10(s).findings = {} /\ Rejected10(s).execs = {e}
<1>1. PICK none, one : none = {} /\ one = {e}
  OBVIOUS
<1>2. none \subseteq Findings10 /\ one \subseteq Records10
  BY <1>1
<1>3. PICK t : t = [s EXCEPT !.findings = none, !.review = "none", !.summary = "failed", !.execs = one]
  OBVIOUS
<1>4. t \in States10 /\ t.review = "none" /\ t.findings = none /\ t.execs = one
  BY <1>2, <1>3 DEF States10, Reviews10
<1>5. Rejected10(s) = t
  BY <1>1, <1>3 DEF Rejected10
<1> QED
  BY <1>1, <1>4, <1>5

\* What a result does to the phase, once its agents are closed.
LEMMA ClosesFits ==
    ASSUME LegacyInv, Running10, turn # NoTurn, Closes
    PROVE  /\ turn' = NoTurn /\ state' \in States10
           /\ handler' \in TurnKinds \cup {"idle", "fallback", "out"}
           /\ \/ legacyRun' = "failed" /\ state' = Blank10
              \/ legacyRun' = "running" /\ AttemptFits(state', legacyPhase, handler', setting.configured)
<1>1. /\ turn \in TurnRec /\ turn.kind = handler /\ handler \in TurnKinds /\ turn.names = Asked(handler)
  BY TurnStages
<1>2. /\ AttemptFits(state, legacyPhase, handler, setting.configured) /\ state \in States10
      /\ setting.configured \in BOOLEAN
  BY InMemory
<1> DEFINE k == turn.kind
<1>12. PICK c \in BOOLEAN : c <=> k # "review"
  OBVIOUS
<1>3. PICK s : s = Consumed(state, turn, c)
  OBVIOUS
<1>13. s = Consumed(state, turn, k # "review")
  BY <1>3, <1>12, Zenon
<1> HIDE DEF k
<1>4. k = handler
  BY <1>1 DEF k
<1>5. /\ s \in States10 /\ s.review = state.review /\ s.stored = state.stored
      /\ state.execs \subseteq s.execs
  BY <1>1, <1>2, <1>3, <1>4, ConsumedIs
<1>6. turn' = NoTurn
  BY DEF Closes
<1>7. \/ /\ k = "collect" /\ state' = s /\ handler' = "recollect" /\ UNCHANGED legacyRun
      \/ /\ k = "collect" /\ state' \in {EndOf(k, FinishFailed(s)), EndOf(k, s)}
         /\ handler' = "out" /\ UNCHANGED legacyRun
      \/ /\ k \in {"recollect", "review"}
         /\ state' = EndOf(k, s) /\ handler' = "out" /\ UNCHANGED legacyRun
      \/ /\ k = "synth" /\ turn.outcome # "proposal"
         /\ state' = EndOf(k, FinishFailed(s)) /\ handler' = "fallback" /\ UNCHANGED legacyRun
      \/ /\ k = "synth" /\ legacyRun' = "failed" /\ state' = Blank10 /\ handler' = "idle"
      \/ /\ k = "synth" /\ turn.outcome = "proposal"
         /\ state' \in {EndOf(k, Published10(s)), EndOf(k, Rejected10(s))}
         /\ handler' = "fallback" /\ UNCHANGED legacyRun
  <2>1. \/ /\ k = "collect" /\ Missing10(s) # {} /\ ~TurnError(turn)
           /\ state' = s /\ handler' = "recollect" /\ UNCHANGED legacyRun
        \/ /\ k = "collect" /\ (Missing10(s) = {} \/ TurnError(turn))
           /\ state' = EndOf(k, IF TurnError(turn) /\ s.findings = {} THEN FinishFailed(s) ELSE s)
           /\ handler' = "out" /\ UNCHANGED legacyRun
        \/ /\ k \in {"recollect", "review"}
           /\ state' = EndOf(k, s) /\ handler' = "out" /\ UNCHANGED legacyRun
        \/ /\ k = "synth" /\ turn.outcome # "proposal"
           /\ state' = EndOf(k, FinishFailed(s)) /\ handler' = "fallback" /\ UNCHANGED legacyRun
        \/ /\ k = "synth" /\ turn.outcome = "proposal"
           /\ IF \E f \in s.findings : f.item \notin s.support
              THEN legacyRun' = "failed" /\ state' = Blank10 /\ handler' = "idle"
              ELSE /\ \E r \in {Published10(s), Rejected10(s)} : state' = EndOf(k, r)
                   /\ handler' = "fallback" /\ UNCHANGED legacyRun
    BY <1>13 DEF Closes, k
  <2> QED
    BY <2>1
<1>8. FinishFailed(s) \in States10 /\ FinishFailed(s).review = "none"
      /\ FinishFailed(s).findings = s.findings /\ FinishFailed(s).execs = s.execs
      /\ FinishFailed(s).stored = s.stored
  BY <1>5, FinishFailedIs
<1>9. CASE k \in {"collect", "recollect"}
  <2>1. legacyPhase = 3 /\ setting.configured /\ FindingsFit(state) /\ FirstRoundOnly(state)
        /\ state.review = "none" /\ Unpublished(state)
    BY <1>2, <1>4, <1>9, AnalysisFits
  <2>2. turn.names = Missing10(state)
    <3>1. CASE handler = "collect"
      <4>1. state.findings = {}
        BY <1>2, <3>1 DEF AttemptFits
      <4> QED
        BY <1>1, <3>1, <4>1 DEF Asked, Missing10
    <3>2. CASE handler = "recollect"
      BY <1>1, <3>2 DEF Asked
    <3> QED
      BY <1>4, <1>9, <3>1, <3>2
  <2>3. FindingsFit(s) /\ FirstRoundOnly(s) /\ Accounted(s)
    BY <1>1, <1>2, <1>3, <1>4, <1>9, <2>1, <2>2, AnalysisAdds DEF k
  <2>4. /\ FindingsFit(FinishFailed(s)) /\ FirstRoundOnly(FinishFailed(s))
        /\ Accounted(FinishFailed(s))
    BY <1>8, <2>3, SameFindings
  <2>5. /\ EndOf(k, s) \in States10 /\ AttemptFits(EndOf(k, s), 3, "out", setting.configured)
        /\ EndOf(k, FinishFailed(s)) \in States10
        /\ AttemptFits(EndOf(k, FinishFailed(s)), 3, "out", setting.configured)
    BY <1>2, <1>5, <1>8, <1>9, <2>1, <2>3, <2>4, AnalysisDone
  <2>6. AttemptFits(s, 3, "recollect", setting.configured)
    BY <1>5, <2>1, <2>3 DEF AttemptFits, Unpublished, ShowsStored
  <2> QED
    BY <1>5, <1>6, <1>7, <1>9, <2>1, <2>5, <2>6 DEF TurnKinds, Running10
<1>10. CASE k = "review"
  <2>1. legacyPhase = 4 /\ Reached(state, 4, TRUE) /\ setting.configured
    BY <1>2, <1>4, <1>10 DEF AttemptFits
  <2>5. handler = "review"
    BY <1>4, <1>10
  <2>2. turn.names = conflicting_agent_names(state)
    BY <1>1, <2>5 DEF Asked
  <2>6. FindingsFit(state) /\ FirstRoundOnly(state) /\ Accounted(state)
    BY <2>1 DEF Reached
  <2>3. FindingsFit(s) /\ Accounted(s)
    <3>1. turn \in TurnRec /\ state \in States10 /\ turn.kind = "review"
      BY <1>1, <1>2, <2>5
    <3>2. FindingsFit(s) /\ (Accounted(state) => Accounted(s))
      BY <1>3, <2>2, <2>6, <3>1, ReviewAdds
    <3> QED
      BY <2>6, <3>2
  <2>4. EndOf("review", s) \in States10 /\ AttemptFits(EndOf("review", s), 4, "out", setting.configured)
    <3>1. s.review \notin Published /\ s.review # "oldSdk"
      BY <1>5, <2>1 DEF Reached, Unpublished
    <3> QED
      BY <1>2, <1>5, <2>3, <3>1, ReviewDone
  <2> QED
    BY <1>6, <1>7, <1>10, <2>1, <2>4 DEF Running10
<1>11. CASE k = "synth"
  <2>1. legacyPhase = 5 /\ Reached(state, 5, TRUE) /\ ~TimedOut(state) /\ setting.configured
    BY <1>2, <1>4, <1>11 DEF AttemptFits
  <2>2. turn.names = {}
    BY <1>1, <1>4, <1>11 DEF Asked
  <2>3. /\ s.findings = state.findings
        /\ s.execs = state.execs \cup {Record10(Coordinator, k, CoordinatorCategory(turn))}
    <3>1. c /\ s = Consumed(state, turn, c)
      BY <1>3, <1>11, <1>12
    <3>2. /\ s.findings = state.findings \cup {FindingOf(a, turn) : a \in Believed(turn)}
          /\ s.execs = state.execs \cup {Record10(Coordinator, turn.kind, CoordinatorCategory(turn))}
                                  \cup {Record10(a, turn.kind, CategoryOf(a, turn)) : a \in turn.names}
      BY <1>1, <1>2, <3>1, ConsumedIs
    <3>3. Believed(turn) = {}
      BY <2>2 DEF Believed
    <3> QED
      BY <2>2, <3>2, <3>3 DEF k
  <2>4. FindingsFit(s) /\ Accounted(s) /\ s.review # "oldSdk"
    BY <1>5, <2>1, <2>3, SameFindings DEF Reached
  <2>5. CASE turn.outcome # "proposal"
    <3>1. FindingsFit(FinishFailed(s)) /\ Accounted(FinishFailed(s))
      BY <1>8, <2>4, SameFindings
    <3>2. /\ EndOf(k, FinishFailed(s)) \in States10
          /\ AttemptFits(EndOf(k, FinishFailed(s)), 5, "fallback", setting.configured)
      BY <1>2, <1>8, <1>11, <3>1, SynthesisDone DEF Published
    <3> QED
      BY <1>6, <1>7, <1>11, <2>1, <2>5, <3>2, BlankFits DEF Running10
  <2>6. CASE turn.outcome = "proposal"
    <3>1. PICK r : r = SynthStatus(s)
      OBVIOUS
    <3>2. r \in Published /\ (r = "completed" => ~\E e \in s.execs : Failed10(e))
      BY <3>1 DEF SynthStatus, Published
    <3>4. /\ Published10(s) \in States10 /\ Published10(s).review = r
          /\ Published10(s).findings = s.findings /\ Published10(s).execs = s.execs
      BY <1>5, <3>1, <3>2, PublishedTyped
    <3>5. ~TimedOut(s)
      <4>1. CoordinatorCategory(turn) = "none"
        BY <2>6 DEF CoordinatorCategory
      <4>2. Record10(Coordinator, k, "none").category = "none"
        BY DEF Record10
      <4> QED
        BY <2>1, <2>3, <4>1, <4>2 DEF TimedOut
    <3>6. /\ FindingsFit(Published10(s)) /\ Accounted(Published10(s))
          /\ Missing10(Published10(s)) = Missing10(s) /\ ~TimedOut(Published10(s))
      BY <2>4, <3>4, <3>5, SameFindings, SameMissing DEF TimedOut
    <3>7. r = "completed" => Missing10(s) = {}
      BY <2>4, <3>2 DEF Accounted
    <3>8. /\ EndOf(k, Published10(s)) \in States10
          /\ AttemptFits(EndOf(k, Published10(s)), 5, "fallback", setting.configured)
      BY <1>2, <1>11, <3>2, <3>4, <3>6, <3>7, SynthesisDone DEF Published
    <3>9. PICK e : e = Record10(Coordinator, "synth", "validation")
      OBVIOUS
    <3>10. e \in Records10 /\ Failed10(e) /\ e # PlanFailure
      BY <3>9, RecordTyped DEF Actors, TurnKinds, Failures10
    <3>12. /\ Rejected10(s) \in States10 /\ Rejected10(s).review = "none"
           /\ Rejected10(s).findings = {} /\ Rejected10(s).execs = {e}
      BY <1>5, <3>9, <3>10, RejectedTyped
    <3>13. FindingsFit(Rejected10(s)) /\ Accounted(Rejected10(s))
      BY <3>10, <3>12 DEF FindingsFit, Accounted
    <3>14. /\ EndOf(k, Rejected10(s)) \in States10
           /\ AttemptFits(EndOf(k, Rejected10(s)), 5, "fallback", setting.configured)
      BY <1>2, <1>11, <3>12, <3>13, SynthesisDone DEF Published
    <3> QED
      BY <1>6, <1>7, <1>11, <2>1, <2>6, <3>8, <3>14, BlankFits DEF Running10
  <2> QED
    BY <2>5, <2>6
<1> QED
  BY <1>1, <1>4, <1>9, <1>10, <1>11 DEF TurnKinds

LEMMA TurnReturnsKeeps ==
    ASSUME LegacyInv, TurnReturns PROVE LegacyInv'
<1>1. turn # NoTurn /\ turn.stage = "return" /\ ~expired /\ Running10
  BY TurnStages DEF TurnReturns, Live
<1>2. /\ turn \in TurnRec /\ handler \in TurnKinds /\ openAgents \subseteq Actors
      /\ openModels = {}
  BY <1>1, InTurn10 DEF MayCall
<1>3. UNCHANGED <<setting, legacyPhase, attempts, saved, openModels, spent, expired, fence>>
  BY DEF TurnReturns
<1>4. /\ Left(turn.used) \in 0..TokenBudget /\ TokenBudget <= spent + Left(turn.used)
      /\ tokens \in 0..TokenBudget /\ TokenBudget <= spent + tokens
      /\ expired \in BOOLEAN /\ fence \in BOOLEAN
  BY <1>1, LeftFits DEF LegacyInv, LegacyTyped, LegacyTypeOK
<1>5. CASE ~fence
  <2>1. /\ Escapes /\ openAgents' \subseteq openAgents /\ tokens' \in {tokens, Left(turn.used)}
    BY <1>5 DEF TurnReturns, FenceAgain
  <2> QED
    BY <1>1, <1>2, <1>3, <1>4, <1>5, <2>1, EscapesFits, TurnEnds
<1>6. CASE fence
  <2>1. /\ openAgents' = openAgents \ Members(turn) /\ tokens' = Left(turn.used)
        /\ Escapes \/ Closes
    BY <1>6 DEF TurnReturns, FenceAgain, Closing
  <2>2. openAgents' = {}
    BY <1>1, <1>6, <2>1 DEF LegacyInv, TurnFits
  <2>3. CASE Escapes
    BY <1>1, <1>2, <1>3, <1>4, <2>1, <2>2, <2>3, EscapesFits, TurnEnds
  <2>4. CASE Closes
    BY <1>1, <1>2, <1>3, <1>4, <2>1, <2>2, <2>4, ClosesFits, TurnEnds
  <2> QED
    BY <2>1, <2>3, <2>4
<1> QED
  BY <1>4, <1>5, <1>6

-----------------------------------------------------------------------------
(* The V10 run: the phases *)

\* A step of a phase handler without a turn.
LEMMA HandlerGoesOn ==
    ASSUME LegacyInv, Running10, handler \notin TurnKinds, Local,
           state' \in States10, handler' \in TurnKinds \cup {"idle", "fallback", "out"},
           AttemptFits(state', legacyPhase, handler', setting.configured),
           state'.review \in Published => state.review \in Published
    PROVE  LegacyInv'
<1>1. turn = NoTurn
  BY TurnStages
<1>2. /\ tokens \in 0..TokenBudget /\ TokenBudget <= spent + tokens
      /\ openAgents \subseteq Actors /\ openModels \subseteq Actors
      /\ expired \in BOOLEAN /\ fence \in BOOLEAN
      /\ openAgents # {} => expired \/ ~fence
      /\ openModels # {} => expired
      /\ state.review \in Published => openAgents = {} /\ openModels = {}
  BY <1>1 DEF LegacyInv, LegacyTyped, LegacyTypeOK, TokensFit, BetweenTurnsFits
<1>3. UNCHANGED <<setting, legacyRun, legacyPhase, attempts, saved, turn, openAgents,
                  openModels, tokens, spent, expired, fence>>
  BY DEF Local
<1> QED
  BY <1>1, <1>2, <1>3, TurnEnds DEF Running10

LEMMA IdleFits ==
    ASSUME LegacyInv, Running10, handler = "idle"
    PROVE  /\ Reached(state, legacyPhase, setting.configured) /\ ShowsStored(state)
           /\ state \in States10 /\ setting.configured \in BOOLEAN /\ handler \notin TurnKinds
           /\ legacyPhase \in 0..8
BY InMemory DEF AttemptFits, TurnKinds

\* Phases that compute the evidence and the baseline change nothing the result is about.
LEMMA EvidenceKeeps ==
    ASSUME LegacyInv, IntakeExisting \/ EvidenceCollection \/ DeterministicRca
    PROVE  LegacyInv'
<1>1. Running10 /\ handler = "idle" /\ legacyPhase \in 0..2 /\ handler' = "out" /\ Local
  <2>1. (AtPhase(1) \/ AtPhase(2) \/ AtPhase(3)) /\ handler' = "out" /\ Local
    BY Zenon DEF IntakeExisting, EvidenceCollection, DeterministicRca
  <2> QED
    BY <2>1 DEF AtPhase
<1>2. /\ Reached(state, legacyPhase, setting.configured) /\ ShowsStored(state)
      /\ state \in States10 /\ handler \notin TurnKinds
  BY <1>1, IdleFits
<1>3. /\ state' \in States10 /\ state'.findings = state.findings /\ state'.review = state.review
      /\ state'.stored = state.stored
  <2>1. CASE IntakeExisting
    BY <1>2, <2>1 DEF IntakeExisting
  <2>2. CASE EvidenceCollection
    <3>1. PICK failing \in BOOLEAN :
             state' = [state EXCEPT !.known = {SeedItem}, !.support = {SeedItem}, !.plan = failing]
      BY <2>2, Zenon DEF EvidenceCollection
    <3>2. PICK seed : seed = {SeedItem}
      OBVIOUS
    <3>3. seed \subseteq Items
      BY <3>2 DEF Items
    <3>4. state' = [state EXCEPT !.known = seed, !.support = seed, !.plan = failing]
      BY <3>1, <3>2
    <3> QED
      BY <1>2, <3>3, <3>4 DEF States10
  <2>3. CASE DeterministicRca
    BY <1>2, <2>3 DEF DeterministicRca, States10
  <2> QED
    BY <2>1, <2>2, <2>3
<1>4. AttemptFits(state', legacyPhase, "out", setting.configured)
  BY <1>1, <1>2, <1>3 DEF AttemptFits, Reached, FindingsFit, FirstRoundOnly, Unpublished, ShowsStored
<1> QED
  BY <1>1, <1>2, <1>3, <1>4, HandlerGoesOn

LEMMA SpecialistAnalysisKeeps ==
    ASSUME LegacyInv, SpecialistAnalysis PROVE LegacyInv'
<1>1. Running10 /\ handler = "idle" /\ legacyPhase = 3 /\ Local
  BY DEF SpecialistAnalysis, AtPhase
<1>2. /\ Reached(state, legacyPhase, setting.configured) /\ ShowsStored(state)
      /\ state \in States10 /\ handler \notin TurnKinds /\ setting.configured \in BOOLEAN
  BY <1>1, IdleFits
<1>3. state.stored \notin Published
  BY <1>1, <1>2 DEF Reached, Unpublished
<1>8. PICK none : none = {}
  OBVIOUS
<1>9. PICK fresh : fresh = [state EXCEPT !.findings = {}, !.review = "none", !.tools = {}]
  OBVIOUS
<1>4. none = {} /\ fresh = [state EXCEPT !.findings = none, !.review = "none", !.tools = none]
  BY <1>8, <1>9
<1>5. /\ fresh \in States10 /\ fresh.findings = {} /\ fresh.review = "none" /\ fresh.tools = {}
      /\ fresh.stored = state.stored
  BY <1>2, <1>4 DEF States10, Reviews10
<1>6. CASE setting.configured
  <2>1. handler' = "collect" /\ state' = [fresh EXCEPT !.execs = none, !.summary = "failed"]
    BY <1>8, <1>9, <1>6 DEF SpecialistAnalysis
  <2>2. /\ state' \in States10 /\ state'.findings = {} /\ state'.review = "none"
        /\ state'.stored = state.stored
    <3>1. none \subseteq Records10
      BY <1>8
    <3> QED
      BY <1>5, <2>1, <3>1 DEF States10
  <2>3. "none" \notin Published
    BY DEF Published
  <2>4. AttemptFits(state', legacyPhase, handler', setting.configured)
    BY <1>1, <1>3, <1>6, <2>1, <2>2, <2>3 DEF AttemptFits, Unpublished, ShowsStored
  <2> QED
    BY <1>1, <1>2, <2>1, <2>2, <2>3, <2>4, HandlerGoesOn DEF TurnKinds
<1>7. CASE ~setting.configured
  <2>1. PICK e : e = Record10(Coordinator, "collect", "skipped")
    OBVIOUS
  <2>2. e \in Records10
    BY <2>1 DEF Record10, Records10, RoundIn, AttemptIn, Actors
  <2>3. PICK one : one = {e}
    OBVIOUS
  <2>4. PICK s : s = [fresh EXCEPT !.summary = "skipped", !.execs = one]
    OBVIOUS
  <2>5. handler' = "out" /\ state' = EndOfReview(s)
    BY <1>9, <1>7, <2>1, <2>3, <2>4 DEF SpecialistAnalysis
  <2>6. /\ s \in States10 /\ s.findings = {} /\ s.review = "none" /\ s.tools = {}
        /\ s.stored = state.stored
    BY <1>5, <2>2, <2>3, <2>4 DEF States10
  <2>7. state' = EndOf("review", s)
    BY <2>5 DEF EndOf
  <2>8. /\ state' \in States10 /\ state'.findings = {} /\ state'.review = "none" /\ state'.tools = {}
        /\ state'.stored = Stored(s, "none")
    BY <2>6, <2>7, EndKeeps DEF TurnKinds
  <2>9. state'.stored \notin Published /\ state'.stored # "oldSdk" /\ "none" \notin Published
    BY <2>6, <2>8, StoredNever DEF Published
  <2>10. AttemptFits(state', 3, "out", setting.configured)
    BY <1>7, <2>8, <2>9 DEF AttemptFits, Reached, FindingsFit, FirstRoundOnly, Unpublished,
       ShowsStored, ToolsHaveTasks
  <2> QED
    BY <1>1, <1>2, <2>5, <2>8, <2>9, <2>10, HandlerGoesOn
<1> QED
  BY <1>2, <1>6, <1>7

LEMMA ConflictReviewKeeps ==
    ASSUME LegacyInv, ConflictReview PROVE LegacyInv'
<1>1. /\ Running10 /\ handler = "idle" /\ legacyPhase = 4 /\ Local /\ state' = state
      /\ handler' \in {"review", "out"} /\ (handler' = "review" => setting.configured)
  BY DEF ConflictReview, AtPhase
<1>2. /\ Reached(state, 4, setting.configured) /\ ShowsStored(state)
      /\ state \in States10 /\ handler \notin TurnKinds
  BY <1>1, IdleFits
<1>3. AttemptFits(state', legacyPhase, handler', setting.configured)
  BY <1>1, <1>2 DEF AttemptFits, Reached
<1> QED
  BY <1>1, <1>2, <1>3, HandlerGoesOn DEF TurnKinds

LEMMA CoordinationKeeps ==
    ASSUME LegacyInv, Coordination PROVE LegacyInv'
<1>1. Running10 /\ handler = "idle" /\ legacyPhase = 5 /\ Local
  BY DEF Coordination, AtPhase
<1>2. /\ Reached(state, 5, setting.configured) /\ ShowsStored(state)
      /\ state \in States10 /\ handler \notin TurnKinds /\ setting.configured \in BOOLEAN
  BY <1>1, IdleFits
<1>3. CASE TimedOut(state) \/ ~setting.configured
  <2>1. handler' = "fallback" /\ state' = EndOf("synth", state)
    BY <1>3 DEF Coordination, SynthesisBlocked
  <2>2. /\ FindingsFit(state) /\ (setting.configured => Accounted(state)) /\ state.review # "oldSdk"
        /\ state.review \notin Published
    BY <1>2 DEF Reached, Unpublished
  <2>3. state' \in States10 /\ AttemptFits(state', 5, "fallback", setting.configured)
    BY <1>2, <2>1, <2>2, SynthesisDone DEF Published
  <2>4. state'.review = state.review
    BY <1>2, <2>1, EndKeeps DEF TurnKinds
  <2> QED
    BY <1>1, <1>2, <2>1, <2>3, <2>4, HandlerGoesOn
<1>4. CASE ~(TimedOut(state) \/ ~setting.configured)
  <2>1. handler' = "synth" /\ state' = state
    BY <1>4 DEF Coordination, SynthesisBlocked
  <2>2. AttemptFits(state', legacyPhase, handler', setting.configured)
    BY <1>1, <1>2, <1>4, <2>1 DEF AttemptFits
  <2> QED
    BY <1>1, <1>2, <2>1, <2>2, HandlerGoesOn DEF TurnKinds
<1> QED
  BY <1>3, <1>4

LEMMA DeterministicReviewKeeps ==
    ASSUME LegacyInv, DeterministicReview PROVE LegacyInv'
<1>1. Running10 /\ handler = "fallback" /\ handler' = "out" /\ Local /\ handler \notin TurnKinds
  BY DEF DeterministicReview, TurnKinds
<1>2. /\ legacyPhase = 5 /\ Reached(state, 6, setting.configured) /\ ShowsStored(state)
      /\ state \in States10
  BY <1>1, InMemory DEF AttemptFits
<1>3. CASE UNCHANGED state
  <2>1. AttemptFits(state', legacyPhase, "out", setting.configured)
    BY <1>2, <1>3 DEF AttemptFits
  <2> QED
    BY <1>1, <1>2, <1>3, <2>1, HandlerGoesOn
<1>4. CASE state.stored = "none" /\ \E r \in {"v5", "none"} : state' = [state EXCEPT !.stored = r]
  <2>1. PICK r \in {"v5", "none"} : state' = [state EXCEPT !.stored = r]
    BY <1>4
  <2>2. r \in Reviews10 /\ r \notin Published /\ r # "oldSdk" /\ r # "completed"
    BY <2>1 DEF Reviews10, Published
  <2>3. /\ state' \in States10 /\ state'.findings = state.findings /\ state'.execs = state.execs
        /\ state'.review = state.review /\ state'.stored = r
    BY <1>2, <2>1, <2>2 DEF States10
  <2>4. state.review \notin Published
    BY <1>2, <1>4 DEF Reached, ReviewFits, Published
  <2>5. AttemptFits(state', 5, "out", setting.configured)
    BY <1>2, <2>2, <2>3, <2>4, SameFindings DEF AttemptFits, Reached, ReviewFits, Unpublished,
       ShowsStored
  <2> QED
    BY <1>1, <1>2, <2>3, <2>5, HandlerGoesOn
<1> QED
  BY <1>3, <1>4 DEF DeterministicReview

LEMMA LastPhasesKeep ==
    ASSUME LegacyInv, ReportGeneration \/ Finalize10 PROVE LegacyInv'
<1>1. Running10 /\ handler = "idle" /\ legacyPhase \in {6, 7} /\ handler' = "out" /\ Local
  BY DEF ReportGeneration, Finalize10, AtPhase
<1>2. /\ Reached(state, legacyPhase, setting.configured) /\ ShowsStored(state)
      /\ state \in States10 /\ handler \notin TurnKinds
  BY <1>1, IdleFits
<1>3. CASE ReportGeneration
  <2>1. legacyPhase = 6 /\ state' = [state EXCEPT !.report = state.review]
    BY <1>3 DEF ReportGeneration, AtPhase
  <2>2. /\ state' \in States10 /\ state'.findings = state.findings /\ state'.execs = state.execs
        /\ state'.review = state.review /\ state'.stored = state.stored
        /\ state'.report = state.review
    BY <1>2, <2>1 DEF States10
  <2>3. \A r \in Published : (state.review = r) <=> (state.stored = r)
    BY <1>2, <2>1 DEF Reached, ReviewFits, ShowsStored
  <2>4. Missing10(state') = Missing10(state) /\ (TimedOut(state') <=> TimedOut(state))
    BY <2>2, SameMissing DEF TimedOut
  <2>6. /\ FindingsFit(state') /\ (setting.configured => Accounted(state'))
        /\ state'.review # "oldSdk" /\ state'.stored # "oldSdk"
    <3>1. /\ FindingsFit(state) /\ (setting.configured => Accounted(state))
          /\ state.review # "oldSdk" /\ state.stored # "oldSdk"
      BY <1>2, <2>1 DEF Reached
    <3>2. FindingsFit(state') /\ (Accounted(state) => Accounted(state'))
      BY <2>2, <3>1, SameFindings
    <3> QED
      BY <2>2, <3>1, <3>2
  <2>7. ReviewFits(state')
    BY <1>2, <2>1, <2>2, <2>4 DEF Reached, ReviewFits, Unpublished
  <2>8. \A r \in Published : (state'.report = r) <=> (state'.stored = r)
    BY <2>2, <2>3
  <2>9. Reached(state', 6 + 1, setting.configured)
    BY <2>6, <2>7, <2>8 DEF Reached
  <2>5. AttemptFits(state', 6, "out", setting.configured)
    BY <1>2, <2>2, <2>9 DEF AttemptFits, ShowsStored
  <2> QED
    BY <1>1, <1>2, <2>1, <2>2, <2>5, HandlerGoesOn
<1>4. CASE Finalize10
  <2>1. legacyPhase = 7 /\ state' = state
    BY <1>4 DEF Finalize10, AtPhase
  <2>2. AttemptFits(state', 7, "out", setting.configured)
    BY <1>2, <2>1 DEF AttemptFits, Reached
  <2> QED
    BY <1>1, <1>2, <2>1, <2>2, HandlerGoesOn
<1> QED
  BY <1>3, <1>4

-----------------------------------------------------------------------------
(* The V10 run: commits, losses and resumes *)

LEMMA CommitKeeps10 ==
    ASSUME LegacyInv, CommitPhase10 PROVE LegacyInv'
<1>1. /\ Running10 /\ handler = "out" /\ fence /\ handler' = "idle" /\ openAgents' = {}
      /\ saved' = Projected(state) /\ legacyPhase' = legacyPhase + 1
      /\ legacyRun' = IF legacyPhase' = 8 THEN "completed" ELSE legacyRun
      /\ UNCHANGED <<setting, attempts, state, turn, openModels, tokens, spent, expired, fence>>
  BY DEF CommitPhase10
<1>2. turn = NoTurn
  BY <1>1, TurnStages DEF TurnKinds
<1>3. /\ legacyPhase \in 0..7 /\ Reached(state, legacyPhase + 1, setting.configured)
      /\ ShowsStored(state) /\ state \in States10
  BY <1>1, InMemory DEF AttemptFits
<1>4. PICK none, kept : none = {} /\ kept = state.execs \ {PlanFailure}
  OBVIOUS
<1>5. saved' = [state EXCEPT !.support = none, !.tools = none, !.review = "none", !.execs = kept]
  BY <1>1, <1>4 DEF Projected
<1>6. none \subseteq Items /\ none \subseteq Specialists \X (1..2) /\ kept \subseteq Records10
  BY <1>3, <1>4 DEF States10
<1>7. /\ saved' \in States10 /\ saved'.review = "none" /\ saved'.findings = state.findings
      /\ saved'.execs = kept /\ saved'.stored = state.stored /\ saved'.report = state.report
  BY <1>3, <1>5, <1>6 DEF States10, Reviews10
<1>8. /\ Missing10(saved') = Missing10(state) /\ (Accounted(state) => Accounted(saved'))
      /\ TimedOut(saved') => TimedOut(state)
      /\ FindingsFit(saved') /\ (FirstRoundOnly(state) => FirstRoundOnly(saved'))
  <2>1. Missing10(saved') = Missing10(state)
    BY <1>7, SameMissing
  <2>2. \A e \in state.execs : e # PlanFailure => e \in saved'.execs
    BY <1>4, <1>7
  <2>3. saved'.execs \subseteq state.execs
    BY <1>4, <1>7
  <2>4. FindingsFit(saved') /\ (FirstRoundOnly(state) => FirstRoundOnly(saved'))
    BY <1>3, <1>7, SameFindings DEF Reached
  <2> QED
    BY <2>1, <2>2, <2>3, <2>4 DEF Accounted, TimedOut
<1>9. "none" \notin Published
  BY DEF Published
<1>10. Reached(saved', legacyPhase', setting.configured)
  BY <1>1, <1>3, <1>7, <1>8, <1>9 DEF Reached, ReviewFits, Unpublished
<1>11. LegacyTyped'
  BY <1>1, <1>3, <1>7 DEF LegacyInv, LegacyTyped, LegacyTypeOK, Running10
<1>12. AttemptFits(state', legacyPhase', handler', setting.configured)
  BY <1>1, <1>3 DEF AttemptFits
<1>13. MemoryFits'
  BY <1>1, <1>12 DEF MemoryFits, Running10
<1>14. BetweenTurnsFits' /\ TurnFits' /\ TokensFit'
  BY <1>1, <1>2 DEF LegacyInv, BetweenTurnsFits, TurnFits, TokensFit, Running10
<1> QED
  BY <1>1, <1>7, <1>10, <1>11, <1>13, <1>14 DEF LegacyInv

LEMMA LoseFenceKeeps ==
    ASSUME LegacyInv, LoseFence PROVE LegacyInv'
<1>1. /\ fence' = FALSE
      /\ UNCHANGED <<setting, legacyRun, legacyPhase, attempts, saved, state, handler, turn, openAgents,
                     openModels, tokens, spent, expired>>
  BY DEF LoseFence
<1>2. LegacyTyped'
  BY <1>1 DEF LegacyInv, LegacyTyped, LegacyTypeOK
<1>3. MemoryFits' /\ TokensFit' /\ BetweenTurnsFits'
  BY <1>1 DEF LegacyInv, MemoryFits, TokensFit, BetweenTurnsFits, Running10
<1>4. Asked(handler)' = Asked(handler) /\ Left(turn.used)' = Left(turn.used)
  BY <1>1 DEF Asked, Left
<1>5. TurnFits'
  BY <1>1, <1>4 DEF LegacyInv, TurnFits, Running10
<1> QED
  BY <1>1, <1>2, <1>3, <1>5 DEF LegacyInv

LEMMA LoseAttemptKeeps ==
    ASSUME LegacyInv, LoseAttempt PROVE LegacyInv'
<1>1. /\ legacyRun' = "interrupted" /\ state' = Blank10
      /\ handler' = "idle" /\ turn' = NoTurn /\ openAgents' = {} /\ openModels' = {}
      /\ expired' = FALSE /\ fence' = TRUE
      /\ UNCHANGED <<setting, legacyPhase, attempts, saved, tokens, spent>>
  BY DEF LoseAttempt, Released
<1>2. tokens \in 0..TokenBudget /\ TokenBudget <= spent + tokens
  BY DEF LegacyInv, LegacyTyped, LegacyTypeOK, TokensFit
<1> QED
  BY <1>1, <1>2, BlankFits, TurnEnds

LEMMA ResumeKeeps10 ==
    ASSUME LegacyInv, ResumeAttempt PROVE LegacyInv'
<1> USE AgentsAssumption
<1>1. /\ legacyRun = "interrupted" /\ attempts < LegacyResumes
      /\ legacyRun' = "running" /\ attempts' = attempts + 1
      /\ state' = Rehydrated(saved) /\ tokens' = TokenBudget - spent
      /\ handler' = "idle" /\ turn' = NoTurn /\ openAgents' = {} /\ openModels' = {}
      /\ expired' = FALSE /\ fence' = TRUE
      /\ UNCHANGED <<setting, legacyPhase, saved, spent>>
  BY DEF ResumeAttempt, Released, ResumeTokens
<1>2. /\ saved \in States10 /\ Reached(saved, legacyPhase, setting.configured)
      /\ spent \in 0..TokenBudget /\ attempts \in 0..LegacyResumes
  BY DEF LegacyInv, LegacyTyped, LegacyTypeOK
<1>3. PICK all : all = saved.execs \cup (IF saved.plan THEN {PlanFailure} ELSE {})
  OBVIOUS
<1>4. PlanFailure \in Records10 /\ PlanFailure.category = "provider"
  BY DEF PlanFailure, Records10, Failures10
<1>5. all \subseteq Records10 /\ saved.execs \subseteq all
  BY <1>2, <1>3, <1>4 DEF States10
<1>6. state' = [saved EXCEPT !.support = saved.known, !.review = saved.stored, !.execs = all]
  BY <1>1, <1>3 DEF Rehydrated
<1>7. /\ state' \in States10 /\ state'.findings = saved.findings /\ state'.execs = all
      /\ state'.review = saved.stored /\ state'.stored = saved.stored
      /\ state'.report = saved.report
  BY <1>2, <1>5, <1>6 DEF States10
<1>8. /\ Missing10(state') = Missing10(saved) /\ (Accounted(saved) => Accounted(state'))
      /\ TimedOut(state') => TimedOut(saved)
      /\ FindingsFit(state') /\ (FirstRoundOnly(saved) => FirstRoundOnly(state'))
  <2>1. Missing10(state') = Missing10(saved)
    BY <1>7, SameMissing
  <2>2. TimedOut(state') => TimedOut(saved)
    BY <1>3, <1>4, <1>7 DEF TimedOut
  <2>3. /\ FindingsFit(state') /\ (FirstRoundOnly(saved) => FirstRoundOnly(state'))
        /\ Accounted(saved) => Accounted(state')
    BY <1>2, <1>5, <1>7, SameFindings DEF Reached
  <2> QED
    BY <2>1, <2>2, <2>3
<1>9. Reached(state', legacyPhase, setting.configured) /\ ShowsStored(state')
  BY <1>2, <1>7, <1>8 DEF Reached, ReviewFits, Unpublished, ShowsStored
<1>10. AttemptFits(state', legacyPhase, "idle", setting.configured)
  BY <1>9 DEF AttemptFits
<1>11. tokens' \in 0..TokenBudget /\ TokenBudget <= spent' + tokens' /\ attempts' \in 0..LegacyResumes
  BY <1>1, <1>2
<1>12. LegacyTyped'
  BY <1>1, <1>7, <1>11 DEF LegacyInv, LegacyTyped, LegacyTypeOK
<1>13. MemoryFits'
  BY <1>1, <1>10 DEF MemoryFits
<1>14. TurnFits' /\ BetweenTurnsFits' /\ TokensFit'
  BY <1>1, <1>11 DEF TurnFits, BetweenTurnsFits, TokensFit
<1> QED
  BY <1>1, <1>12, <1>13, <1>14 DEF LegacyInv

LEMMA LegacyInvKept ==
    LegacyInv /\ [LegacyNext]_legacyVars => LegacyInv'
<1> SUFFICES ASSUME LegacyInv, [LegacyNext]_legacyVars PROVE LegacyInv'
  OBVIOUS
<1>1. CASE LegacyPhases
  BY <1>1, EvidenceKeeps, SpecialistAnalysisKeeps, ConflictReviewKeeps, CoordinationKeeps,
     DeterministicReviewKeeps, LastPhasesKeep, CommitKeeps10 DEF LegacyPhases
<1>2. CASE LegacyTurn
  BY <1>2, BeginKeeps, AnnounceKeeps, PicksKeeps, SynthesisReturnsKeeps, TurnReturnsKeeps,
     DeadlineKeeps, RequestKeeps, ReturnsKeeps, FailsKeeps DEF LegacyTurn
<1>3. CASE LoseFence \/ LoseAttempt \/ ResumeAttempt
  BY <1>3, LoseFenceKeeps, LoseAttemptKeeps, ResumeKeeps10
<1>4. CASE UNCHANGED legacyVars
  <2>1. /\ UNCHANGED <<setting, legacyRun, legacyPhase, attempts, saved, state, handler, turn>>
        /\ UNCHANGED <<openAgents, openModels, tokens, spent, expired, fence>>
    BY <1>4 DEF legacyVars
  <2>2. LegacyTyped' /\ MemoryFits'
    BY <2>1 DEF LegacyInv, LegacyTyped, LegacyTypeOK, MemoryFits
  <2>3. Asked(handler)' = Asked(handler) /\ Left(turn.used)' = Left(turn.used)
    BY <2>1 DEF Asked, Left
  <2>4. TurnFits' /\ BetweenTurnsFits' /\ TokensFit'
    BY <2>1, <2>3 DEF LegacyInv, TurnFits, BetweenTurnsFits, TokensFit, Running10
  <2> QED
    BY <2>1, <2>2, <2>4 DEF LegacyInv
<1> QED
  BY <1>1, <1>2, <1>3, <1>4 DEF LegacyNext

-----------------------------------------------------------------------------
(* The V10 run: the theorems *)

LEMMA MemoryIsHonest ==
    ASSUME LegacyInv
    PROVE  /\ FindingsFit(state)
           /\ Unpublished(state) \/ ReviewFits(state)
           /\ handler \in TurnKinds /\ Running10 => state.review \notin Published
           /\ ToolCallHasTask
<1>1. CASE legacyRun \in {"running", "completed"}
  <2>1. /\ AttemptFits(state, legacyPhase, handler, setting.configured) /\ legacyPhase \in 0..8
        /\ handler \in TurnKinds \cup {"idle", "fallback", "out"}
    BY <1>1 DEF LegacyInv, MemoryFits, LegacyTyped, LegacyTypeOK
  <2>2. \A n \in 0..9 : Reached(state, n, setting.configured) =>
           FindingsFit(state) /\ (Unpublished(state) \/ ReviewFits(state))
    <3>1. \A n \in 0..9 : n <= 5 \/ n >= 6
      OBVIOUS
    <3> QED
      BY <3>1 DEF Reached
  <2>3. Reached(state, legacyPhase, setting.configured) /\ legacyPhase <= 5 => Unpublished(state)
    BY DEF Reached
  <2>4. FindingsFit(state) /\ (Unpublished(state) \/ ReviewFits(state))
    <3>1. CASE handler \in {"collect", "recollect"}
      BY <2>1, <3>1, AnalysisFits
    <3>2. CASE handler \in {"review", "synth", "idle", "fallback"}
      BY <2>1, <2>2, <3>2 DEF AttemptFits
    <3>3. CASE handler = "out"
      <4>1. Reached(state, legacyPhase + 1, setting.configured) /\ legacyPhase + 1 \in 0..9
        BY <2>1, <3>3 DEF AttemptFits
      <4> QED
        BY <2>2, <4>1
    <3> QED
      BY <2>1, <3>1, <3>2, <3>3 DEF TurnKinds
  <2>5. handler \in TurnKinds => state.review \notin Published
    <3>1. CASE handler \in {"collect", "recollect"}
      BY <2>1, <3>1, AnalysisFits DEF Unpublished
    <3>2. CASE handler \in {"review", "synth"}
      BY <2>1, <2>3, <3>2 DEF AttemptFits, Unpublished
    <3> QED
      BY <3>1, <3>2 DEF TurnKinds
  <2>6. ToolCallHasTask
    BY <2>1 DEF ToolCallHasTask, AttemptFits, ToolsHaveTasks
  <2> QED
    BY <2>4, <2>5, <2>6
<1>2. CASE legacyRun \in {"interrupted", "failed"}
  <2>1. state = Blank10 /\ ~Running10
    BY <1>2 DEF LegacyInv, MemoryFits, Running10
  <2>2. FindingsFit(Blank10) /\ Unpublished(Blank10)
    <3>1. PICK c \in BOOLEAN : c
      OBVIOUS
    <3>2. Reached(Blank10, 0, c)
      BY BlankFits
    <3> QED
      BY <3>2 DEF Reached
  <2> QED
    BY <2>1, <2>2 DEF ToolCallHasTask
<1> QED
  BY <1>1, <1>2 DEF LegacyInv, LegacyTyped, LegacyTypeOK

LEMMA LegacyInvHonest ==
    LegacyInv => LegacyResultIsHonest
<1> SUFFICES ASSUME LegacyInv PROVE LegacyResultIsHonest
  OBVIOUS
<1>1. CompletedHasEveryone
  BY MemoryIsHonest DEF CompletedHasEveryone, Unpublished, ReviewFits, Published
<1>2. OneFindingPerRound
  BY MemoryIsHonest DEF OneFindingPerRound, FindingsFit
<1>3. TimeoutIsSticky
  BY MemoryIsHonest DEF TimeoutIsSticky, Unpublished, ReviewFits, Published
<1>4. OldReviewIsGone /\ ReportShowsStored
  BY DEF LegacyInv, Reached, OldReviewIsGone, ReportShowsStored, Published
<1> QED
  BY <1>1, <1>2, <1>3, <1>4, MemoryIsHonest DEF LegacyResultIsHonest, LegacyInv, LegacyTyped

LEMMA LegacyInvCloses ==
    LegacyInv => LegacyTurnsClose
<1> SUFFICES ASSUME LegacyInv PROVE LegacyTurnsClose
  OBVIOUS
<1>1. AgentsClosedBetweenTurns
  BY DEF LegacyInv, BetweenTurnsFits, AgentsClosedBetweenTurns
<1>2. ASSUME Running10, state.review \in Published
      PROVE  openAgents = {} /\ openModels = {}
  <2>1. turn = NoTurn
    BY <1>2, MemoryIsHonest, TurnStages
  <2> QED
    BY <1>2, <2>1 DEF LegacyInv, BetweenTurnsFits
<1> QED
  BY <1>1, <1>2 DEF LegacyTurnsClose, PublishedIsClosed, Published

\* What an exception leaves of the findings.
LEMMA EscapesDrops ==
    ASSUME LegacyInv, Running10, handler \in TurnKinds, Escapes
    PROVE  state'.findings \subseteq state.findings
<1>1. CASE handler \in {"collect", "recollect"}
  <2>1. state' = EndOf(handler, RecordFailure(state, handler, "unknown"))
    BY <1>1 DEF Escapes
  <2>2. PICK u : u = RecordFailure(state, handler, "unknown")
    OBVIOUS
  <2>3. u \in States10 /\ u.findings = state.findings
    BY <2>2, InMemory, FailureIs
  <2> QED
    BY <2>1, <2>2, <2>3, EndKeeps
<1>2. CASE handler \notin {"collect", "recollect"}
  BY <1>2 DEF Escapes, Blank10
<1> QED
  BY <1>1, <1>2

\* Without a fence no step adds a finding.
LEMMA LateIsDropped ==
    ASSUME LegacyInv, LegacyNext PROVE LateResultIsDropped
<1> SUFFICES ASSUME ~fence, ~fence' PROVE state'.findings \subseteq state.findings
  BY DEF LateResultIsDropped
<1>1. state \in States10
  BY DEF LegacyInv, LegacyTyped, LegacyTypeOK
<1>2. CASE LegacyPhases
  <2>1. CASE IntakeExisting \/ ConflictReview \/ Finalize10
    BY <2>1 DEF IntakeExisting, ConflictReview, Finalize10
  <2>2. CASE EvidenceCollection
    <3>1. PICK failing \in BOOLEAN :
             state' = [state EXCEPT !.known = {SeedItem}, !.support = {SeedItem}, !.plan = failing]
      BY <2>2, Zenon DEF EvidenceCollection
    <3> QED
      BY <1>1, <3>1 DEF States10
  <2>3. CASE DeterministicRca
    BY <1>1, <2>3 DEF DeterministicRca, States10
  <2>4. CASE SpecialistAnalysis
    <3>1. PICK fresh : fresh = [state EXCEPT !.findings = {}, !.review = "none", !.tools = {}]
      OBVIOUS
    <3>2. fresh \in States10 /\ fresh.findings = {}
      <4>1. PICK none : none = {}
        OBVIOUS
      <4>2. fresh = [state EXCEPT !.findings = none, !.review = "none", !.tools = none]
        BY <3>1, <4>1
      <4> QED
        BY <1>1, <4>1, <4>2 DEF States10, Reviews10
    <3>3. PICK one : one = {Record10(Coordinator, "collect", "skipped")}
      OBVIOUS
    <3>4. PICK s : s = [fresh EXCEPT !.summary = "skipped", !.execs = one]
      OBVIOUS
    <3>5. state' = [fresh EXCEPT !.execs = {}, !.summary = "failed"] \/ state' = EndOfReview(s)
      BY <2>4, <3>1, <3>3, <3>4 DEF SpecialistAnalysis
    <3>6. s.findings = {} /\ EndOfReview(s).findings = {}
      BY <3>2, <3>4 DEF EndOfReview, States10
    <3> QED
      BY <3>2, <3>5, <3>6 DEF States10
  <2>5. CASE Coordination
    <3>1. state' = EndOf("synth", state) \/ state' = state
      BY <2>5 DEF Coordination
    <3> QED
      BY <1>1, <3>1, EndKeeps DEF TurnKinds
  <2>6. CASE DeterministicReview
    <3>1. state' = state \/ \E r \in {"v5", "none"} : state' = [state EXCEPT !.stored = r]
      BY <2>6 DEF DeterministicReview
    <3> QED
      BY <1>1, <3>1 DEF States10
  <2>7. CASE ReportGeneration
    BY <1>1, <2>7 DEF ReportGeneration, States10
  <2>8. CASE CommitPhase10
    BY <2>8 DEF CommitPhase10
  <2> QED
    BY <1>2, <2>1, <2>2, <2>3, <2>4, <2>5, <2>6, <2>7, <2>8 DEF LegacyPhases
<1>3. CASE LegacyTurn
  <2>1. CASE BeginTurn
    <3>1. Escapes /\ Running10 /\ handler \in TurnKinds
      BY <2>1 DEF BeginTurn
    <3> QED
      BY <3>1, EscapesDrops
  <2>2. CASE TurnReturns
    <3>1. Escapes
      BY <2>2 DEF TurnReturns, FenceAgain
    <3>2. turn # NoTurn
      BY <2>2, TurnStages DEF TurnReturns, Live
    <3> QED
      BY <3>1, <3>2, TurnStages, EscapesDrops
  <2>3. CASE Deadline10
    <3>1. turn # NoTurn
      BY <2>3, TurnStages DEF Deadline10, NestedCancelled, ParallelCancelled, CancelledWriting
    <3>2. turn.kind \in TurnKinds
      BY <3>1, TurnStages
    <3>3. state' = EndOf(turn.kind, RecordFailure(state, turn.kind, "timeout"))
      BY <2>3 DEF Deadline10, NestedCancelled, ParallelCancelled, CancelledWriting
    <3>4. PICK u : u = RecordFailure(state, turn.kind, "timeout")
      OBVIOUS
    <3>5. u \in States10 /\ u.findings = state.findings
      BY <1>1, <3>2, <3>4, FailureIs
    <3> QED
      BY <3>2, <3>3, <3>4, <3>5, EndKeeps
  <2>4. CASE \E a \in Specialists : SpecialistReturns(a) \/ SpecialistFails(a)
    <3>1. PICK a \in Specialists : SpecialistReturns(a) \/ SpecialistFails(a)
      BY <2>4
    <3>2. PICK gathered : Gathers(a, gathered)
      BY <3>1, Zenon DEF SpecialistReturns, SpecialistFails
    <3>3. PICK item : item = Cited(a, turn.kind, [claim |-> "none", ref |-> "tool"])
      OBVIOUS
    <3>4. \/ state' = [state EXCEPT !.tools = @ \cup {item}, !.known = @ \cup {item}]
          \/ state' = state
      BY <3>2, <3>3, Zenon DEF Gathers
    <3> QED
      BY <1>1, <3>4 DEF States10
  <2>5. CASE \/ Announce \/ CoordinatorPicks \/ CoordinatorReturns
             \/ \E a \in Actors : RequestStarts(a)
    <3>1. state' = state
      BY <2>5, Zenon DEF Announce, CoordinatorPicks, CoordinatorReturns, RequestStarts
    <3> QED
      BY <3>1
  <2> QED
    BY <1>3, <2>1, <2>2, <2>3, <2>4, <2>5 DEF LegacyTurn
<1>4. CASE LoseFence \/ LoseAttempt \/ ResumeAttempt
  BY <1>4 DEF LoseFence, LoseAttempt, ResumeAttempt, Released
<1> QED
  BY <1>2, <1>3, <1>4 DEF LegacyNext

\* What is used up stays used up.
LEMMA ExhaustedStays ==
    ASSUME LegacyInv, LegacyNext PROVE ExhaustedStaysExhausted
<1> SUFFICES ASSUME tokens = 0 PROVE tokens' = 0
  BY DEF ExhaustedStaysExhausted
<1>1. TokenBudget <= spent + tokens /\ spent \in 0..TokenBudget /\ TokenBudget \in Nat
  BY AgentsAssumption DEF LegacyInv, TokensFit, LegacyTyped, LegacyTypeOK
<1>2. turn # NoTurn => Left(turn.used) = 0
  BY InTurn10 DEF Left
<1>3. CASE LegacyPhases
  BY <1>3, Zenon DEF LegacyPhases, IntakeExisting, EvidenceCollection, DeterministicRca,
     SpecialistAnalysis, ConflictReview, Coordination, DeterministicReview, ReportGeneration,
     Finalize10, CommitPhase10, Local
<1>4. CASE LegacyTurn
  <2>1. CASE Deadline10 \/ TurnReturns
    <3>1. turn # NoTurn
      BY <2>1, TurnStages DEF Deadline10, NestedCancelled, ParallelCancelled, CancelledWriting,
         TurnReturns, Live
    <3>2. tokens' \in {tokens, Left(turn.used)}
      BY <2>1 DEF Deadline10, NestedCancelled, ParallelCancelled, CancelledWriting, TurnReturns
    <3> QED
      BY <1>2, <3>1, <3>2
  <2>2. CASE ~(Deadline10 \/ TurnReturns)
    <3>1. UNCHANGED tokens
      BY <1>4, <2>2, Zenon DEF LegacyTurn, BeginTurn, Announce, CoordinatorPicks, CoordinatorReturns,
         RequestStarts, SpecialistReturns, SpecialistFails, Answered
    <3> QED
      BY <3>1
  <2> QED
    BY <2>1, <2>2
<1>5. CASE LoseFence \/ LoseAttempt
  BY <1>5 DEF LoseFence, LoseAttempt
<1>6. CASE ResumeAttempt
  BY <1>1, <1>6 DEF ResumeAttempt, ResumeTokens
<1> QED
  BY <1>3, <1>4, <1>5, <1>6 DEF LegacyNext

LEMMA LegacyInvHolds == LegacySpec => []LegacyInv
BY LegacyInitFits, LegacyInvKept, PTL DEF LegacySpec

\* The result of a V10 run says what happened, for any specialists, budget and number of
\* resumes: a complete review has everyone's finding behind it, a timeout is sticky, every tool
\* call has its task, and the report shows the stored review (agents_runtime.py).
THEOREM LegacyHonest == LegacySpec => []LegacyResultIsHonest
BY LegacyInvHolds, LegacyInvHonest, PTL

\* A turn closes the agents and requests it opened, unless the deadline passed or the
\* fence was lost (_invoke_turn).
THEOREM LegacyCloses == LegacySpec => []LegacyTurnsClose
BY LegacyInvHolds, LegacyInvCloses, PTL

\* A late answer adds no finding and a spent budget stays spent (_invoke_turn,
\* _consume_turn).
THEOREM LegacyLimited == LegacySpec => LegacyLimitsHold
<1>1. LegacyInv /\ [LegacyNext]_legacyVars => [LateResultIsDropped /\ ExhaustedStaysExhausted]_legacyVars
  BY LateIsDropped, ExhaustedStays
<1> QED
  BY <1>1, LegacyInvHolds, PTL DEF LegacySpec, LegacyLimitsHold
===============================================================================

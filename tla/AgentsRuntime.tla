---------------------------- MODULE AgentsRuntime ----------------------------
(***************************************************************************)
(* The V10 diagnosis of one run: the eight phases of the legacy profile    *)
(* and the turns of the Agents SDK runtime inside three of them.  A turn   *)
(* asks some specialists and the Coordinator; it is cut short by the       *)
(* deadline of the attempt, by a lost fence, by the token budget and by    *)
(* failing requests.  A resumed attempt starts from what was committed.    *)
(*                                                                         *)
(* Both SDK turns capture at most one well-formed draft per requested      *)
(* specialist, so unknown, unrequested and duplicate outputs do not occur. *)
(* An agent's run is one model request; its tool calls are ToolSession's   *)
(* and show here as the evidence they leave.                               *)
(***************************************************************************)
EXTENDS Naturals, FiniteSets

CONSTANTS
    Specialists,     \* AgentName
    TokenBudget,     \* token_budget of the run, in requests
    StepLimit,       \* max_parallel_steps_per_run
    LegacyResumes    \* bound of the model: resumes of the run

ASSUME AgentsAssumption ==
    /\ TokenBudget \in Nat /\ StepLimit \in Nat \ {0} /\ LegacyResumes \in Nat

VARIABLES
    setting,      \* prompt version, strategy, is a model configured, is there a token budget
    legacyRun,    \* running, interrupted, completed or failed
    legacyPhase,  \* number of phases with a checkpoint
    attempts,     \* resumes so far
    saved,        \* the committed projection
    state,        \* _DiagnosisState and the sandbox repository of the attempt
    handler,      \* where the phase handler stands; "out" has its output ready
    turn,         \* the SDK turn under way
    openAgents,   \* agents with a started event of this attempt and no closing one
    openModels,   \* agents whose model request is open, likewise
    tokens,       \* runtime_token_budget of the attempt's clone
    spent,        \* token usage in the durable model events
    expired,      \* the deadline of the attempt has passed
    fence         \* the attempt still owns its lease and is not cancelled

legacyVars == <<setting, legacyRun, legacyPhase, attempts, saved, state, handler, turn,
                openAgents, openModels, tokens, spent, expired, fence>>

Coordinator == "coordinator"
Actors      == Specialists \cup {Coordinator}
SeedItem    == <<"seed", 0>>
Items       == {SeedItem} \cup (Specialists \X (1..2))   \* tool evidence by task
Settings    == [prompt: {"v8.2", "v9"}, adaptive: BOOLEAN, configured: BOOLEAN, metered: BOOLEAN]

\* What a draft claims, against the baseline, and what it cites.
SpecialistDrafts == [claim: {"base", "other"}, ref: {"seed", "tool"}]
                    \cup {[claim |-> "unset", ref |-> "seed"], [claim |-> "base", ref |-> "unknown"]}
NoDraft          == [claim |-> "none", ref |-> "none"]

Findings10 == [agent: Specialists, round: 1..2, claim: {"base", "other"}, item: Items]
Failures10 == {"missing", "reference", "invalid", "timeout", "transport", "unknown",
               "validation", "provider"}
Records10  == [agent: Actors \cup {"plan"}, round: 1..2, attempt: 1..2,
               category: Failures10 \cup {"none", "skipped"}]
SdkReviews == {"partial", "completed", "oldSdk"}
Reviews10  == SdkReviews \cup {"none", "v5", "oldV5"}

\* A failed task of the V4 plan, which the repository lists among the executions.
PlanFailure == [agent |-> "plan", round |-> 1, attempt |-> 1, category |-> "provider"]

\* review: the review in v7_result; stored: the review in the repository.
States10 == [known: SUBSET Items, support: SUBSET Items, tools: SUBSET (Specialists \X (1..2)),
             plan: BOOLEAN, execs: SUBSET Records10, findings: SUBSET Findings10,
             review: Reviews10, stored: Reviews10, baseline: {"none", "weak", "valid"},
             summary: {"none", "skipped", "failed", "partial", "completed"},
             report: Reviews10 \cup {"unset"}]

Blank10 == [known |-> {}, support |-> {}, tools |-> {}, plan |-> FALSE, execs |-> {},
            findings |-> {}, review |-> "none", stored |-> "none", baseline |-> "none",
            summary |-> "none", report |-> "unset"]

TurnKinds == {"collect", "recollect", "review", "synth"}
NoTurn    == [stage |-> "none"]
RoundIn(k)   == IF k \in {"collect", "recollect"} THEN 1 ELSE 2
AttemptIn(k) == IF k = "recollect" THEN 2 ELSE 1
Record10(a, k, c) == [agent |-> a, round |-> RoundIn(k), attempt |-> AttemptIn(k), category |-> c]
Failed10(e)  == e.category \notin {"none", "skipped"}
TimedOut(s)  == \E e \in s.execs : e.category = "timeout"

(***************************************************************************)
(* Which specialists a turn asks.                                          *)
(***************************************************************************)

Missing10(s) == {a \in Specialists : ~\E f \in s.findings : f.agent = a /\ f.round = 1}

\* A round-two finding replaces the round-one finding it revises.
Active10(s) == {f \in s.findings : f.round = 2 \/ ~\E g \in s.findings : g.agent = f.agent /\ g.round = 2}
conflicting_agent_names(s) ==
    LET claims == {f.claim : f \in Active10(s)}
    IN  IF s.baseline = "none" THEN {}
        ELSE {f.agent : f \in {g \in Active10(s) : \/ s.baseline = "valid" /\ g.claim # "base"
                                                   \/ Cardinality(claims) > 1}}

Asked(k) == CASE k = "collect"   -> Specialists
              [] k = "recollect" -> Missing10(state)
              [] k = "review"    -> conflicting_agent_names(state)
              [] k = "synth"     -> {}

(***************************************************************************)
(* _consume_turn, _record_failure and the end of run().                    *)
(***************************************************************************)

\* The turn's error field; the parallel turn treats an invalid proposal as one.
TurnError(t) == t.outcome \in {"transport", "timeout", "unknown"}
                            \cup (IF setting.prompt = "v9" THEN {"invalid"} ELSE {})

\* The item a draft cites.  Tools of the parallel turn are always bound to the
\* first attempt's task.
Cited(a, k, d) == IF d.ref = "tool" THEN <<a, IF setting.prompt = "v9" THEN 1 ELSE AttemptIn(k)>>
                  ELSE SeedItem
CategoryOf(a, t) ==
    LET d == t.drafts[a]
    IN  IF d = NoDraft THEN "missing"
        ELSE IF d.ref = "unknown" \/ Cited(a, t.kind, d) \notin {SeedItem, <<a, AttemptIn(t.kind)>>}
             THEN "reference"
        ELSE IF d.claim = "unset" THEN "invalid" ELSE "none"

CoordinatorCategory(t) == IF t.outcome = "proposal" THEN "none"
                          ELSE IF t.outcome = "none" THEN "unknown" ELSE t.outcome

Consumed(s, t, coordinator) ==
    [s EXCEPT !.findings = @ \cup
                  {[agent |-> a, round |-> RoundIn(t.kind), claim |-> t.drafts[a].claim,
                    item |-> Cited(a, t.kind, t.drafts[a])] :
                       a \in {b \in t.names : CategoryOf(b, t) = "none"}},
              !.execs = @ \cup (IF coordinator THEN {Record10(Coordinator, t.kind, CoordinatorCategory(t))} ELSE {})
                          \cup {Record10(a, t.kind, CategoryOf(a, t)) : a \in t.names}]

RecordFailure(s, k, c) == [s EXCEPT !.execs = @ \cup {Record10(Coordinator, k, c)},
                                    !.review = "none", !.summary = "failed"]
FinishFailed(s) == [s EXCEPT !.review = "none", !.summary = "failed"]

\* _attach_adaptive_result: tool calls whose task is not in the result get a
\* failed one, in the timeout category whatever ended the turn.
Attached(s) ==
    LET tasks == {<<e.agent, e.attempt>> : e \in {r \in s.execs : r.round = 1}}
    IN  [s EXCEPT !.execs = @ \cup {[agent |-> c[1], round |-> 1, attempt |-> c[2],
                                     category |-> "timeout"] : c \in s.tools \ tasks}]

\* save_multi_agent_result: no review removes a stored one of the SDK layer only.
Stored(s, r) == IF r # "none" THEN r ELSE IF s.stored \in SdkReviews THEN "none" ELSE s.stored

EndOfRun(s)      == LET t == Attached(s) IN [t EXCEPT !.stored = Stored(t, "none")]
EndOfReview(s)   == [s EXCEPT !.stored = Stored(s, "none")]
EndOf(k, s)      == CASE k \in {"collect", "recollect"} -> EndOfRun(s)
                      [] k = "review"                   -> EndOfReview(s)
                      [] k = "synth"                    -> [s EXCEPT !.stored = Stored(s, s.review)]
NextStop(k)      == IF k = "synth" THEN "fallback" ELSE "out"

(***************************************************************************)
(* _invoke_turn and the two SDK turns.                                     *)
(***************************************************************************)

Running10 == legacyRun = "running"

\* Usage of answered requests in the durable events, and of the responses of a
\* turn; beyond the budget more usage makes no difference.
Billed(n)  == IF setting.metered /\ n < TokenBudget THEN n + 1 ELSE n
Counted(n) == IF setting.metered /\ n <= TokenBudget THEN n + 1 ELSE n
Left(used) == IF used > tokens THEN 0 ELSE tokens - used

Live(st)  == Running10 /\ turn.stage = st /\ ~expired
Members(t) == t.names \cup {Coordinator}

\* An exception leaves the turn: run() records it, the later phases let it
\* through to the coordinator of the runtime, which fails the run or, when the
\* fence is gone, leaves it to the next owner.
Escapes ==
    /\ turn' = NoTurn
    /\ IF handler \in {"collect", "recollect"}
       THEN /\ state' = EndOf(handler, RecordFailure(state, handler, "unknown"))
            /\ handler' = "out"
            /\ UNCHANGED legacyRun
       ELSE /\ legacyRun' = IF fence THEN "failed" ELSE "interrupted"
            /\ state' = Blank10 /\ handler' = "idle"

BeginTurn ==
    /\ Running10 /\ handler \in TurnKinds /\ turn = NoTurn
    /\ IF ~fence \/ (setting.metered /\ tokens = 0) THEN Escapes
       ELSE /\ turn' = [stage |-> "announce", kind |-> handler, names |-> Asked(handler),
                        picked |-> {}, calls |-> [a \in Actors |-> "idle"],
                        drafts |-> [a \in Specialists |-> NoDraft], used |-> 0, outcome |-> "none"]
            /\ UNCHANGED <<legacyRun, state, handler>>
    /\ UNCHANGED <<setting, legacyPhase, attempts, saved, openAgents, openModels, tokens, spent,
                   expired, fence>>

Announce ==
    /\ Live("announce")
    /\ openAgents' = openAgents \cup Members(turn)
    /\ turn' = IF turn.names = {} THEN [turn EXCEPT !.stage = "synth"]
               ELSE IF setting.prompt = "v9" THEN [turn EXCEPT !.stage = "work", !.picked = turn.names]
               ELSE [turn EXCEPT !.stage = "ask"]
    /\ UNCHANGED <<setting, legacyRun, legacyPhase, attempts, saved, state, handler, openModels,
                   tokens, spent, expired, fence>>

\* The specialists are over: all picked ones returned or, in the nested turn,
\* one of them raised and no other request is open.
Settled(t) ==
    LET open == \E a \in t.picked : t.calls[a] = "open"
    IN  IF t.stage # "work" \/ open THEN t
        ELSE IF t.outcome # "none" THEN [t EXCEPT !.stage = "return"]
        ELSE IF \E a \in t.picked : t.calls[a] = "idle" THEN t
        ELSE [t EXCEPT !.stage = "synth"]

RequestStarts(a) ==
    /\ Running10 /\ ~expired
    /\ turn.stage \in {"ask", "work", "synth"}
    /\ a \in (IF turn.stage = "work" THEN turn.picked ELSE {Coordinator})
    /\ turn.calls[a] = "idle" /\ turn.outcome = "none"
    /\ Cardinality({b \in Actors : turn.calls[b] = "open"}) < StepLimit
    /\ turn' = [turn EXCEPT !.calls[a] = "open"]
    /\ openModels' = openModels \cup {a}
    /\ UNCHANGED <<setting, legacyRun, legacyPhase, attempts, saved, state, handler, openAgents,
                   tokens, spent, expired, fence>>

Answered(a) ==
    /\ Running10 /\ ~expired
    /\ turn.stage \in {"ask", "work", "synth"} /\ turn.calls[a] = "open"
    /\ openModels' = openModels \ {a}
    /\ UNCHANGED <<setting, legacyRun, legacyPhase, attempts, handler, openAgents, tokens,
                   expired, fence>>

\* The nested Coordinator names the specialists it wants; it may leave some out.
CoordinatorPicks ==
    /\ turn.stage = "ask" /\ Answered(Coordinator)
    /\ \E picked \in SUBSET turn.names :
          turn' = Settled([turn EXCEPT !.stage = "work", !.picked = picked, !.used = Counted(@),
                                       !.calls[Coordinator] = "idle"])
    /\ spent' = Billed(spent)
    /\ UNCHANGED <<saved, state>>

\* Tool calls are durable with their evidence when they return.
HasTools == setting.adaptive /\ turn.kind \in {"collect", "recollect"}
Gathers(a, gathered) ==
    LET item == Cited(a, turn.kind, [claim |-> "none", ref |-> "tool"])
    IN  IF gathered
        THEN /\ HasTools
             /\ state' = [state EXCEPT !.tools = @ \cup {item}, !.known = @ \cup {item}]
             /\ saved' = [saved EXCEPT !.known = @ \cup {item}]
        ELSE UNCHANGED <<state, saved>>

SpecialistReturns(a) ==
    /\ turn.stage = "work" /\ Answered(a)
    /\ \E d \in SpecialistDrafts :
          /\ turn' = Settled([turn EXCEPT !.calls[a] = "done", !.drafts[a] = d, !.used = Counted(@)])
          /\ Gathers(a, d.ref = "tool")
    /\ spent' = Billed(spent)

\* The request fails, or it is answered (and billed) with a malformed draft: the
\* response is then not among the turn's.  Only the nested turn fails with it.
SpecialistFails(a) ==
    /\ turn.stage = "work" /\ Answered(a)
    /\ turn' = Settled([turn EXCEPT !.calls[a] = "done",
                                    !.outcome = IF setting.prompt = "v9" THEN @ ELSE "unknown"])
    /\ \E billed \in BOOLEAN : spent' = IF billed THEN Billed(spent) ELSE spent
    /\ \E gathered \in BOOLEAN : Gathers(a, gathered)

CoordinatorReturns ==
    /\ turn.stage = "synth" /\ Answered(Coordinator)
    /\ \E o \in {"proposal", "invalid", "transport", "timeout"} :
          /\ turn' = [turn EXCEPT !.stage = "return", !.outcome = o, !.calls[Coordinator] = "done",
                                  !.used = IF o = "proposal" \/ (o = "invalid" /\ setting.prompt # "v9")
                                           THEN Counted(@) ELSE @]
          /\ spent' = IF o \in {"proposal", "invalid"} THEN Billed(spent) ELSE spent
    /\ UNCHANGED <<saved, state>>

\* What synthesize publishes: partial when any execution it sees failed.
SynthStatusOfTurn(s) == IF \E e \in s.execs : Failed10(e) /\ e.round = 2 THEN "partial" ELSE "completed"
SynthStatus(s) == IF \E e \in s.execs : Failed10(e) THEN "partial" ELSE "completed"
Published10(s) == [s EXCEPT !.review = SynthStatus(s), !.summary = SynthStatus(s)]
\* A review with dangling or inconsistent references is replaced by a failed
\* result; a finding on evidence outside the state's list raises instead.
Rejected10(s) == [s EXCEPT !.findings = {}, !.review = "none", !.summary = "failed",
                           !.execs = {Record10(Coordinator, "synth", "validation")}]

\* What the result of the turn does to the phase, once its agents are closed.
Closes ==
    /\ turn' = NoTurn
    /\ LET k == turn.kind
           s == Consumed(state, turn, k # "review")
       IN  \/ /\ k = "collect" /\ Missing10(s) # {} /\ ~TurnError(turn)
              /\ state' = s /\ handler' = "recollect" /\ UNCHANGED legacyRun
           \/ /\ k = "collect" /\ (Missing10(s) = {} \/ TurnError(turn))
              /\ state' = EndOf(k, IF TurnError(turn) /\ s.findings = {} THEN FinishFailed(s) ELSE s)
              /\ handler' = "out" /\ UNCHANGED legacyRun
           \/ /\ k \in {"recollect", "review"}
              /\ state' = EndOf(k, s) /\ handler' = "out" /\ UNCHANGED legacyRun
           \/ /\ k = "synth" /\ turn.outcome # "proposal"
              /\ state' = EndOf(k, FinishFailed(s)) /\ handler' = "fallback" /\ UNCHANGED legacyRun
           \/ /\ k = "synth" /\ turn.outcome = "proposal"
              /\ IF \E f \in s.findings : f.item \notin s.support
                 THEN legacyRun' = "failed" /\ state' = Blank10 /\ handler' = "idle"
                 ELSE /\ \E r \in {Published10(s), Rejected10(s)} : state' = EndOf(k, r)
                      /\ handler' = "fallback" /\ UNCHANGED legacyRun

\* Back in _invoke_turn: the fence again, the budget, the closing events, and the
\* consumption of the result.  A fence lost before the check or while the closing
\* events are written leaves agents open.
FenceAgain == fence
ClosingPicked == turn.picked \cup {Coordinator}
Closing == Members(turn)
TurnReturns ==
    /\ Live("return")
    /\ IF ~FenceAgain
       THEN /\ Escapes
            /\ \E some \in SUBSET Closing : openAgents' = openAgents \ some
            /\ tokens' \in {tokens, Left(turn.used)}
       ELSE /\ openAgents' = openAgents \ Closing
            /\ tokens' = Left(turn.used)
            /\ IF turn.used > tokens THEN Escapes ELSE Closes
    /\ UNCHANGED <<setting, legacyPhase, attempts, saved, openModels, spent, expired, fence>>

(***************************************************************************)
(* _await_with_run_deadline.                                               *)
(***************************************************************************)

\* The nested turn turns its cancellation into a result, so the turn closes its
\* agents and run() still consumes the drafts; its open requests stay open.
NestedCancelled ==
    /\ setting.prompt = "v8.2" /\ turn.stage \in {"ask", "work", "synth"}
    /\ tokens' = IF fence THEN Left(turn.used) ELSE tokens
    /\ openAgents' = IF fence THEN openAgents \ Members(turn) ELSE openAgents
    /\ state' = LET taken == IF fence /\ turn.used <= tokens /\ turn.kind \in {"collect", "recollect"}
                             THEN Consumed(state, turn, FALSE) ELSE state
                IN  EndOf(turn.kind, RecordFailure(taken, turn.kind, "timeout"))
    /\ UNCHANGED openModels

\* The parallel turn lets the cancellation through: the open requests are closed
\* as failed and, if there was one, the agents too.
ParallelCancelled ==
    /\ setting.prompt = "v9" /\ turn.stage \in {"work", "synth"}
    /\ openAgents' = IF openModels = {} THEN openAgents ELSE openAgents \ Members(turn)
    /\ openModels' = {}
    /\ state' = EndOf(turn.kind, RecordFailure(state, turn.kind, "timeout"))
    /\ UNCHANGED tokens

\* Cancelled while the agents' events are written.
CancelledWriting ==
    /\ turn.stage \in {"announce", "return"}
    /\ \E some \in SUBSET Members(turn) :
          /\ some # {} => Coordinator \in some
          /\ openAgents' = IF turn.stage = "announce" THEN openAgents \cup some
                           ELSE openAgents \ some
    /\ tokens' = IF turn.stage = "announce" THEN tokens ELSE Left(turn.used)
    /\ state' = EndOf(turn.kind, RecordFailure(state, turn.kind, "timeout"))
    /\ UNCHANGED openModels

Deadline10 ==
    /\ Running10
    /\ NestedCancelled \/ ParallelCancelled \/ CancelledWriting
    /\ expired' = TRUE /\ turn' = NoTurn /\ handler' = NextStop(turn.kind)
    /\ UNCHANGED <<setting, legacyRun, legacyPhase, attempts, saved, spent, fence>>

(***************************************************************************)
(* The phases, their commit, the loss of the attempt and the next one.     *)
(***************************************************************************)

AtPhase(n) == Running10 /\ legacyPhase = n - 1 /\ handler = "idle"
Local      == UNCHANGED <<setting, legacyRun, legacyPhase, attempts, saved, turn, openAgents,
                          openModels, tokens, spent, expired, fence>>

IntakeExisting == AtPhase(1) /\ handler' = "out" /\ UNCHANGED state /\ Local

\* The V4 plan runs on the provider results; its failed tasks are executions too.
EvidenceCollection ==
    /\ AtPhase(2) /\ handler' = "out" /\ Local
    /\ \E failing \in BOOLEAN :
          state' = [state EXCEPT !.known = {SeedItem}, !.support = {SeedItem}, !.plan = failing]

DeterministicRca ==
    /\ AtPhase(3) /\ handler' = "out" /\ Local
    /\ \E b \in {"none", "weak", "valid"} : state' = [state EXCEPT !.baseline = b]

SpecialistAnalysis ==
    /\ AtPhase(4) /\ Local
    /\ LET fresh == [state EXCEPT !.findings = {}, !.review = "none", !.tools = {}]
       IN  IF setting.configured
           THEN handler' = "collect" /\ state' = [fresh EXCEPT !.execs = {}, !.summary = "failed"]
           ELSE /\ handler' = "out"
                /\ state' = EndOfReview([fresh EXCEPT !.summary = "skipped",
                                 !.execs = {Record10(Coordinator, "collect", "skipped")}])

ConflictReview ==
    /\ AtPhase(5) /\ Local /\ UNCHANGED state
    /\ handler' = IF setting.configured /\ conflicting_agent_names(state) # {} THEN "review" ELSE "out"

\* An earlier timeout ends the SDK part, also of a resumed run.
SynthesisBlocked(s) == TimedOut(s)
Coordination ==
    /\ AtPhase(6) /\ Local
    /\ IF SynthesisBlocked(state) \/ ~setting.configured
       THEN handler' = "fallback" /\ state' = EndOf("synth", state)
       ELSE handler' = "synth" /\ UNCHANGED state

\* The deterministic review, if the SDK left none; recording it may fail.
DeterministicReview ==
    /\ Running10 /\ handler = "fallback" /\ handler' = "out" /\ Local
    /\ \/ /\ state.stored = "none" /\ ~TimedOut(state)
          /\ \E r \in {"v5", "none"} : state' = [state EXCEPT !.stored = r]
       \/ /\ state.stored # "none" \/ TimedOut(state)
          /\ UNCHANGED state

ReportGeneration == AtPhase(7) /\ handler' = "out" /\ Local
                    /\ state' = [state EXCEPT !.report = state.review]
Finalize10 == AtPhase(8) /\ handler' = "out" /\ Local /\ UNCHANGED state

\* The coordinator of the runtime closes agents the phase left open, then commits.
\* The output projects the repository: what v7_result holds is written with it.
Projected(s) == [s EXCEPT !.support = {}, !.tools = {}, !.review = "none", !.execs = @ \ {PlanFailure}]
CommitPhase10 ==
    /\ Running10 /\ handler = "out" /\ fence
    /\ saved' = Projected(state)
    /\ legacyPhase' = legacyPhase + 1
    /\ handler' = "idle"
    /\ legacyRun' = IF legacyPhase' = 8 THEN "completed" ELSE legacyRun
    /\ openAgents' = {}
    /\ UNCHANGED <<setting, attempts, state, turn, openModels, tokens, spent, expired, fence>>

LoseFence ==
    /\ Running10 /\ fence /\ fence' = FALSE
    /\ UNCHANGED <<setting, legacyRun, legacyPhase, attempts, saved, state, handler, turn, openAgents,
                   openModels, tokens, spent, expired>>

\* What the process held of the attempt is gone.
Released == /\ handler' = "idle" /\ turn' = NoTurn /\ openAgents' = {} /\ openModels' = {}
            /\ expired' = FALSE /\ fence' = TRUE

\* The process dies, or the owner without a fence is cut off at its next write.
LoseAttempt ==
    /\ Running10 /\ legacyRun' = "interrupted"
    /\ state' = Blank10 /\ Released
    /\ UNCHANGED <<setting, legacyPhase, attempts, saved, tokens, spent>>

\* A new executor with a clone of the runtime: evidence from the provider
\* results, v7_result from everything the repository lists.
Rehydrated(p) == [p EXCEPT !.support = p.known, !.review = p.stored,
                           !.execs = @ \cup (IF p.plan THEN {PlanFailure} ELSE {})]
ResumeTokensAnew == TokenBudget
ResumeTokens == TokenBudget - spent
ResumeAttempt ==
    /\ legacyRun = "interrupted" /\ attempts < LegacyResumes
    /\ legacyRun' = "running" /\ attempts' = attempts + 1
    /\ state' = Rehydrated(saved)
    /\ tokens' = ResumeTokens /\ Released
    /\ UNCHANGED <<setting, legacyPhase, saved, spent>>

\* A rerun finds the review of an earlier run in the repository.
LegacyInit ==
    /\ setting \in Settings
    /\ \E old \in {"none", "oldSdk", "oldV5"} :
          saved = [Blank10 EXCEPT !.stored = old] /\ state = [Blank10 EXCEPT !.stored = old, !.review = old]
    /\ legacyRun = "running" /\ legacyPhase = 0 /\ attempts = 0 /\ handler = "idle"
    /\ turn = NoTurn /\ openAgents = {} /\ openModels = {}
    /\ tokens = TokenBudget /\ spent = 0 /\ expired = FALSE /\ fence = TRUE

LegacyPhases == \/ IntakeExisting \/ EvidenceCollection \/ DeterministicRca \/ SpecialistAnalysis
                \/ ConflictReview \/ Coordination \/ DeterministicReview \/ ReportGeneration
                \/ Finalize10 \/ CommitPhase10
LegacyTurn == \/ BeginTurn \/ Announce \/ CoordinatorPicks \/ CoordinatorReturns
              \/ TurnReturns \/ Deadline10
              \/ \E a \in Actors : RequestStarts(a)
              \/ \E a \in Specialists : SpecialistReturns(a) \/ SpecialistFails(a)
LegacyNext == LegacyPhases \/ LegacyTurn \/ LoseFence \/ LoseAttempt \/ ResumeAttempt
LegacySpec == LegacyInit /\ [][LegacyNext]_legacyVars

(***************************************************************************)
(* Properties.                                                             *)
(***************************************************************************)

\* Type invariant of the V10 run.
LegacyTypeOK ==
    /\ setting \in Settings
    /\ legacyRun \in {"running", "interrupted", "completed", "failed"}
    /\ legacyPhase \in 0..8 /\ attempts \in 0..LegacyResumes
    /\ saved \in States10 /\ state \in States10
    /\ handler \in TurnKinds \cup {"idle", "fallback", "out"}
    /\ openAgents \subseteq Actors /\ openModels \subseteq Actors
    /\ tokens \in 0..TokenBudget /\ spent \in 0..TokenBudget /\ expired \in BOOLEAN /\ fence \in BOOLEAN

\* A review published as completed has a first-round finding of every specialist
\* behind it: a specialist that was missing, cited foreign evidence or failed
\* makes it partial, also after a resume (synthesize, agents_runtime.py:850).
CompletedHasEveryone == state.review = "completed" => Missing10(state) = {}

\* A specialist has one finding per round and revises only what it found in the
\* first, across recollection, conflict review and resumes (_consume_turn).
OneFindingPerRound ==
    /\ \A f, g \in state.findings : f.agent = g.agent /\ f.round = g.round => f = g
    /\ \A f \in state.findings : f.round = 2 => f.agent \notin Missing10(state)

\* Between two turns no agent is left started, whatever went wrong in the turn,
\* unless the deadline passed or the fence was lost (_invoke_turn).
AgentsClosedBetweenTurns ==
    Running10 /\ turn = NoTurn /\ openAgents # {} => expired \/ ~fence

\* A review published by this attempt leaves no agent and no model request open.
PublishedIsClosed ==
    Running10 /\ state.review \in {"partial", "completed"} => openAgents = {} /\ openModels = {}

\* Once a timeout is on record, no attempt publishes a review of the SDK any
\* more, although a resumed one has a new deadline.
TimeoutIsSticky == TimedOut(state) => state.review \notin {"partial", "completed"}

\* Every tool call of the specialists belongs to a task of the result, also when
\* the turn that made it was never consumed (_materialize_tool_tasks).
ToolCallHasTask ==
    Running10 /\ handler = "out" /\ legacyPhase = 3 =>
        \A c \in state.tools : \E e \in state.execs : <<e.agent, e.attempt>> = c

\* The SDK review of an earlier run does not outlive the specialists of this one.
OldReviewIsGone == legacyPhase >= 4 => saved.stored # "oldSdk"

\* The report shows a review of the SDK exactly if that review is the stored one,
\* whether or not the run was resumed before the report.
ReportShowsStored ==
    legacyPhase >= 7 => \A r \in {"partial", "completed"} : (saved.report = r) <=> (saved.stored = r)

\* A result that arrives after the fence was lost adds no finding.
LateResultIsDropped == ~fence /\ ~fence' => state'.findings \subseteq state.findings

\* A budget that was used up stays used up for every later attempt: what the
\* runtime counted is in the durable events.
ExhaustedStaysExhausted == tokens = 0 => tokens' = 0

\* "The SDK path must never fail the base RCA" (agents_runtime.py:622): without a
\* token budget to run out of, no turn fails the run.
SdkNeverFailsRun == legacyRun = "failed" => setting.metered

\* The result of a V10 run says what happened, also after a resume: who answered, what
\* was called, what timed out, which review is stored and shown (_consume_turn, synthesize,
\* _rehydrate_runtime_state).
LegacyResultIsHonest ==
    /\ LegacyTypeOK /\ CompletedHasEveryone /\ OneFindingPerRound /\ TimeoutIsSticky
    /\ ToolCallHasTask /\ OldReviewIsGone /\ ReportShowsStored

\* A turn closes what it opened (_invoke_turn).
LegacyTurnsClose == AgentsClosedBetweenTurns /\ PublishedIsClosed

\* Limits hold for good: a lost fence and a spent budget are not undone by a late answer
\* or by a later attempt (_invoke_turn, _consume_turn).
LegacyLimitsHold == [][LateResultIsDropped /\ ExhaustedStaysExhausted]_legacyVars
=============================================================================

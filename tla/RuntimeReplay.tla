---------------------------- MODULE RuntimeReplay ----------------------------
(***************************************************************************)
(* ReplayService over the event logs that RuntimeCoordinator can leave     *)
(* behind.  Replay calls nothing: it folds the durable log through a state *)
(* machine of its own and compares the outcome with the run and the        *)
(* attempt rows.  Composing the two modules asks of every log the real     *)
(* coordinator can write whether the audit accepts it.                     *)
(*                                                                         *)
(* One agent, one model turn and one tool call at a time stand for the     *)
(* dictionaries of open work; a call that is started after another one has *)
(* ended is a new call.  Sequence numbers, references and digests are      *)
(* right in every log considered here: nothing is corrupted.               *)
(***************************************************************************)
EXTENDS RuntimeCoordinator

S == INSTANCE SequencesExt

-----------------------------------------------------------------------------
(* _LifecycleState *)

Fresh == [run      |-> "created",
          active   |-> 0,         \* active_attempt_id
          order    |-> <<>>,      \* attempts in the order they were started
          ended    |-> <<>>,      \* attempt_terminal_status, by attempt
          phase    |-> 0,         \* open_phase
          last     |-> 0,         \* phase_order_index
          agent    |-> FALSE,     \* open_agents
          model    |-> FALSE,     \* open_models
          tool     |-> FALSE,     \* a call is proposed or started
          recovery |-> 0,         \* recovery_attempt_id
          errors   |-> {}]

End(s, n, how) == [k \in DOMAIN s.ended \cup {n} |-> IF k = n THEN how ELSE s.ended[k]]

\* Mutant: the tool calls of the interrupted attempt stay open.
CloseInterruptedKeepsTool(s) ==
    [s EXCEPT !.phase = 0, !.agent = FALSE, !.model = FALSE, !.recovery = 0]

\* _close_interrupted_work
CloseInterrupted(s) ==
    [s EXCEPT !.phase = 0, !.agent = FALSE, !.model = FALSE, !.tool = FALSE, !.recovery = 0]

OpenPhaseWork(s) == s.agent \/ s.model \/ s.tool
OpenWork(s)      == s.phase # 0 \/ s.recovery # 0 \/ OpenPhaseWork(s)

InOpenPhase(s, e) == s.phase # 0 /\ e.phase = s.phase
Blame(s, ok, error) == IF ok THEN s ELSE [s EXCEPT !.errors = @ \cup {error}]

\* The rules for runs: what the status must have been, and what it becomes.
RunRule(s, e) ==
    LET legal == CASE e.type = "run.started"          -> s.run \in {"created", "interrupted"}
                   [] e.type = "run.cancel_requested" -> s.run = "running"
                   [] e.type = "run.interrupted"      -> s.run \in {"running", "cancelling"}
                   [] e.type = "run.cancelled"        -> s.run = "cancelling"
                   [] OTHER                           -> s.run = "running"
        becomes == CASE e.type = "run.started"          -> "running"
                     [] e.type = "run.cancel_requested" -> "cancelling"
                     [] e.type = "run.interrupted"      -> "interrupted"
                     [] e.type = "run.cancelled"        -> "cancelled"
                     [] e.type = "run.failed"           -> "failed"
                     [] OTHER                           -> "completed"
        told  == Blame(s, legal, "run")
        moved == [told EXCEPT !.run = becomes]
    IN  CASE e.type = "run.interrupted" -> CloseInterrupted(moved)
          [] e.type \in {"run.failed", "run.cancelled"} ->
               [CloseInterrupted([moved EXCEPT !.ended =
                    IF s.active = 0 THEN @ ELSE End(s, s.active, becomes)]) EXCEPT !.active = 0]
          [] e.type = "run.completed" -> Blame(moved, s.active = 0, "attempt")
          [] OTHER -> moved

AttemptRule(s, e) ==
    CASE e.type = "attempt.started" ->
           [Blame(s, s.run = "running" /\ s.active = 0 /\ ~S!Contains(s.order, e.attempt), "attempt")
              EXCEPT !.active = e.attempt, !.order = Append(@, e.attempt)]
      [] e.type = "attempt.completed" ->
           [Blame(s, s.run = "running" /\ s.active = e.attempt /\ ~OpenWork(s), "attempt")
              EXCEPT !.active = 0, !.ended = End(s, e.attempt, "completed")]
      [] e.type = "attempt.interrupted" ->
           [CloseInterrupted(Blame(s, s.run = "interrupted" /\ s.active = e.attempt, "attempt"))
              EXCEPT !.active = 0, !.ended = End(s, e.attempt, "interrupted")]

PhaseRule(s, e) ==
    IF e.type = "phase.started"
    THEN [Blame(Blame(s, s.run = "running" /\ s.active = e.attempt /\ s.phase = 0, "phase"),
                e.phase >= s.last, "phase_order")
            EXCEPT !.phase = e.phase, !.last = IF e.phase >= @ THEN e.phase ELSE @]
    ELSE [Blame(s, s.active = e.attempt /\ InOpenPhase(s, e) /\ ~OpenPhaseWork(s), "phase")
            EXCEPT !.phase = 0]

AgentRule(s, e) ==
    IF e.type = "agent.started"
    THEN IF ~s.agent /\ s.active = e.attempt /\ InOpenPhase(s, e)
         THEN [s EXCEPT !.agent = TRUE] ELSE Blame(s, FALSE, "agent")
    ELSE IF s.agent /\ InOpenPhase(s, e) /\ ~s.model /\ ~s.tool
         THEN [s EXCEPT !.agent = FALSE] ELSE Blame(s, FALSE, "agent")

ModelRule(s, e) ==
    IF e.type = "model.started"
    THEN IF ~s.model /\ s.active = e.attempt /\ InOpenPhase(s, e) /\ s.agent
         THEN [s EXCEPT !.model = TRUE] ELSE Blame(s, FALSE, "model")
    ELSE IF s.model /\ InOpenPhase(s, e) /\ s.agent
         THEN [s EXCEPT !.model = FALSE] ELSE Blame(s, FALSE, "model")

\* _advance_tool
ToolRule(s, e) ==
    IF /\ s.active = e.attempt /\ InOpenPhase(s, e) /\ s.agent
       /\ s.tool = (e.type # "tool.started")
    THEN [s EXCEPT !.tool = (e.type = "tool.started")]
    ELSE Blame(s, FALSE, "tool")

RecoveryRule(s, e) ==
    IF e.type = "recovery.started"
    THEN [Blame(s, s.run = "running" /\ s.active = e.attempt /\ s.recovery = 0, "recovery")
            EXCEPT !.recovery = e.attempt]
    ELSE [Blame(s, s.recovery = e.attempt, "recovery") EXCEPT !.recovery = 0]

\* _advance_lifecycle
Advance(s, e) ==
    CASE e.type \in {"run.started", "run.cancel_requested", "run.interrupted", "run.cancelled",
                     "run.failed", "run.completed"} -> RunRule(s, e)
      [] e.type \in {"attempt.started", "attempt.completed", "attempt.interrupted"} ->
           AttemptRule(s, e)
      [] e.type \in {"phase.started", "phase.completed", "phase.failed"} -> PhaseRule(s, e)
      [] e.type \in {"agent.started", "agent.completed", "agent.failed"} -> AgentRule(s, e)
      [] e.type \in {"model.started", "model.completed", "model.failed"} -> ModelRule(s, e)
      [] e.type \in ToolEvents -> ToolRule(s, e)
      [] e.type \in {"recovery.started", "recovery.completed"} -> RecoveryRule(s, e)
      [] OTHER -> s                                       \* checkpoint.created

Replayed == S!FoldLeft(Advance, Fresh, log)

\* _validate_attempt_rows
RowsMatch(s) ==
    /\ DOMAIN attempts = S!ToSet(s.order)
    /\ \A k \in DOMAIN s.order :
         s.order[k] = k /\ k \in DOMAIN s.ended /\ s.ended[k] = attempts[k]

\* What replay() reports of a run (_validate_events).  A run that was cancelled
\* before anything happened is accepted with an empty log.
ReplayErrors ==
    LET s == Replayed IN
      s.errors
        \cup (IF RowsMatch(s) THEN {} ELSE {"attempt_rows"})
        \cup (IF log = <<>> \/ s.run = status THEN {} ELSE {"run"})
        \cup (IF s.phase = 0 THEN {} ELSE {"phase"})
        \cup (IF s.agent THEN {"agent"} ELSE {})
        \cup (IF s.model THEN {"model"} ELSE {})
        \cup (IF s.tool THEN {"tool"} ELSE {})
        \cup (IF s.recovery = 0 THEN {} ELSE {"recovery"})
        \cup (IF log = <<>> /\ ~(status = "cancelled" /\ attempts = <<>>) THEN {"history"} ELSE {})

-----------------------------------------------------------------------------
(* Properties *)

TypesOf(n) == {log[i].type : i \in {j \in DOMAIN log : log[j].attempt = n}}

\* Every ownership period got far enough to tell the log that it started.
AllIntroduced == \A n \in DOMAIN attempts : {"run.started", "attempt.started"} \subseteq TypesOf(n)

\* The new attempt closed a model turn that the lost one had reserved.
SettledForOthers ==
    \E i \in DOMAIN log :
        /\ log[i].type = "model.failed"
        /\ ~\E j \in 1..(i - 1) : log[j].type = "model.started" /\ log[j].attempt = log[i].attempt

\* The audit of a completed run that nobody cancelled blames exactly what happened:
\* crashes, interruptions in the middle of agents and tools, and resumes leave a log
\* it accepts, except that it objects to the model turns, and to nothing else, if and
\* only if one was settled by a later attempt (_close_interrupted_work,
\* _advance_lifecycle).
BlameIsExact ==
    status = "completed" /\ ~asked /\ AllIntroduced =>
        ReplayErrors = IF SettledForOthers THEN {"model"} ELSE {}

\* At every moment, not only at the end, the folded log of a run nobody cancelled
\* knows who works on it: an attempt that introduced itself is the active one exactly while its row
\* says running, and what the log says of ended attempts is what their rows say.
LogTellsAttempts ==
    AllIntroduced /\ ~asked =>
        LET s == Replayed IN
          /\ \A n \in DOMAIN attempts : attempts[n] = "running" <=> s.active = n
          /\ \A n \in DOMAIN s.ended : s.ended[n] = attempts[n]

\* The audit of a run that nobody cancelled is exact at every moment and at the end
\* (ReplayService._advance_lifecycle against everything the coordinator writes).
AuditIsExact == BlameIsExact /\ LogTellsAttempts
=============================================================================

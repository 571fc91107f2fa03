---------------------------- MODULE RuntimeStore ----------------------------
(***************************************************************************)
(* The durable Runtime store: the runs of ONE investigation, their leases, *)
(* attempts, event log, checkpoints, tool calls and budgets, together with *)
(* the investigation's active business projection.  Every operation of     *)
(* InMemoryRuntimeStore runs under one lock, so each is one action.        *)
(*                                                                         *)
(* A coordinator receives a claim (owner, lease version, attempt) from     *)
(* acquire_lease_and_create_attempt and puts it into every command it      *)
(* sends.  Commands wait in a queue, in a thread or in a process that was  *)
(* paused, so the model lets the bearer of ANY claim ever handed out act   *)
(* at ANY later time: crashes, pauses and late results need no action of   *)
(* their own, they are a claim that is silent or that speaks too late.     *)
(***************************************************************************)
EXTENDS Naturals, Sequences, FiniteSets

CONSTANTS
    Runs,         \* live V11 runs of the investigation
    Workers,      \* lease owners (runtime-<uuid> identities)
    Tools,        \* tool call ids a run may use
    LogicalCall,  \* [Tools -> logical call id]: a transport retry shares it
    NPhases,      \* number of phases of the execution profile, INTAKE first
    ToolBudget,   \* frozen run.tool_budget
    TurnBudget,   \* initial run.remaining_model_turns
    LeaseTTL,     \* lease length in clock ticks
    MaxAttempts,  \* bound of the model on attempts per run
    MaxEvents,    \* bound of the model on the event log of a run
    NoRun,        \* active_runtime_run_id is None
    NoWorker      \* lease_owner is None

ASSUME StoreAssumption ==
    /\ NPhases \in Nat \ {0}
    /\ ToolBudget \in Nat
    /\ TurnBudget \in Nat
    /\ LeaseTTL \in Nat \ {0}
    /\ MaxAttempts \in Nat
    /\ MaxEvents \in Nat
    /\ NoRun \notin Runs
    /\ NoWorker \notin Workers
    /\ LogicalCall \in [Tools -> Tools]

VARIABLES
    status,       \* RuntimeRun.status ("absent": not created)
    cancelAsked,  \* RuntimeRun.cancel_requested_at is set
    leaseOwner,   \* RuntimeRun.lease_owner
    leaseVersion, \* RuntimeRun.lease_version
    leaseLeft,    \* ticks until lease_expires_at (0: expired)
    attempts,     \* status of attempt 1, 2, ... of each run
    claims,       \* every claim ever returned to a coordinator
    events,       \* the durable event log of each run
    checkpoints,  \* the checkpoints of each run, in phase order
    pending,      \* PhaseCommits built by a coordinator, applied or not
    turns,        \* RuntimeRun.remaining_model_turns
    tools,        \* status of each tool call of each run
    projOwner,    \* InvestigationRecord.active_runtime_run_id
    invStatus,    \* InvestigationRecord.status
    evidence,     \* evidence of the active projection: <<run, tool>>
    frozen        \* frozen business projection of each run

runVars  == <<status, cancelAsked, leaseOwner, leaseVersion, leaseLeft>>
workVars == <<checkpoints, turns, tools>>
projVars == <<projOwner, invStatus, evidence>>
vars == <<runVars, attempts, claims, events, pending, workVars, projVars, frozen>>

-----------------------------------------------------------------------------
(* Vocabulary *)

Active   == {"created", "running", "cancelling", "interrupted"}
Terminal == {"completed", "failed", "cancelled"}
Leased   == {"running", "cancelling"}
ToolDone == {"success", "failed", "interrupted"}

RunStatus     == Active \cup Terminal \cup {"absent"}
AttemptStatus == {"running", "completed", "failed", "cancelled", "interrupted"}
ToolStatus    == ToolDone \cup {"none", "running"}
EventType     == {"work", "tool", "phase", "checkpoint", "attempt.completed",
                  "attempt.interrupted", "run.interrupted", "run.completed",
                  "run.failed", "run.cancelled", "recovery.rejected"}
Claim         == [run: Runs, owner: Workers, version: Nat, attempt: Nat]
Event         == [type: EventType, attempt: Nat]
Checkpoint    == [attempt: Nat, sequence: Nat, tools: SUBSET Tools]
PhaseCommit   == [claim: Claim, base: Nat, failed: BOOLEAN, turns: Nat,
                  tools: [Tools -> ToolStatus],
                  evidence: SUBSET (Runs \X Tools)]
View          == [state: {"none", "not_activated", "activated"},
                  evidence: SUBSET (Runs \X Tools)]
NoView        == [state |-> "none", evidence |-> {}]

\* ALLOWED_TRANSITIONS of domain/runtime.py.
AllowedTargets(s) ==
    CASE s = "created"     -> {"running", "cancelled"}
      [] s = "running"     -> {"completed", "failed", "cancelling", "interrupted"}
      [] s = "cancelling"  -> {"cancelled", "interrupted"}
      [] s = "interrupted" -> {"running"}
      [] OTHER             -> {}

Log(r, es)    == [events EXCEPT ![r] = @ \o es]
Fits(r, n)    == Len(events[r]) + n <= MaxEvents
Ev(type, n)   == [type |-> type, attempt |-> n]
Successes(f)  == {t \in Tools : f[t] = "success"}
Consumed(r)   == {LogicalCall[t] : t \in {u \in Tools : tools[r][u] # "none"}}

\* Mutant: the lease version is not compared.
FenceByOwner(c) == leaseOwner[c.run] = c.owner /\ leaseLeft[c.run] > 0

\* The claim is the current lease and the lease has not run out.
FenceHolds(c) ==
    /\ leaseOwner[c.run] = c.owner
    /\ leaseVersion[c.run] = c.version
    /\ leaseLeft[c.run] > 0

AttemptRuns(c) ==
    /\ c.attempt \in DOMAIN attempts[c.run]
    /\ attempts[c.run][c.attempt] = "running"

\* Only the active owner's view is copied; any other run freezes an empty one.
FreezeView(r) ==
    IF projOwner = r THEN [state |-> "activated", evidence |-> evidence]
                     ELSE [state |-> "not_activated", evidence |-> {}]

\* Mutant: the run writes its outcome even when it does not own the projection.
OutcomeUnowned(r, target) == target

\* A stopped run shows its outcome on the investigation only as its owner.
OutcomeShown(r, target) == IF projOwner = r THEN target ELSE invStatus

\* activate_projection deletes every tool call of the investigation: those of
\* the previous owner survive only in its frozen view.
NoTools == [r \in Runs |-> [t \in Tools |-> "none"]]

\* PENDING and RUNNING calls of a run that stops become INTERRUPTED.
InterruptTools(r) ==
    [tools EXCEPT ![r] = [t \in Tools |-> IF @[t] = "running" THEN "interrupted" ELSE @[t]]]

\* Mutant: the attempt of a stopped run stays open.
StopRunOnly(r, target) ==
    /\ status' = [status EXCEPT ![r] = target]
    /\ leaseOwner' = [leaseOwner EXCEPT ![r] = NoWorker]
    /\ leaseLeft' = [leaseLeft EXCEPT ![r] = 0]
    /\ UNCHANGED <<leaseVersion, attempts>>

\* _apply_transition: a stopped run gives up its lease and closes its attempt.
StopRun(r, target) ==
    /\ status' = [status EXCEPT ![r] = target]
    /\ leaseOwner' = [leaseOwner EXCEPT ![r] = NoWorker]
    /\ leaseLeft' = [leaseLeft EXCEPT ![r] = 0]
    /\ attempts' = [attempts EXCEPT ![r] =
           [n \in DOMAIN @ |-> IF @[n] = "running" THEN target ELSE @[n]]]
    /\ UNCHANGED leaseVersion

-----------------------------------------------------------------------------
Init ==
    /\ status = [r \in Runs |-> "absent"]
    /\ cancelAsked = [r \in Runs |-> FALSE]
    /\ leaseOwner = [r \in Runs |-> NoWorker]
    /\ leaseVersion = [r \in Runs |-> 0]
    /\ leaseLeft = [r \in Runs |-> 0]
    /\ attempts = [r \in Runs |-> <<>>]
    /\ claims = {}
    /\ events = [r \in Runs |-> <<>>]
    /\ checkpoints = [r \in Runs |-> <<>>]
    /\ pending = {}
    /\ turns = [r \in Runs |-> TurnBudget]
    /\ tools = NoTools
    /\ projOwner = NoRun
    /\ invStatus = "pending"
    /\ evidence = {}
    /\ frozen = [r \in Runs |-> NoView]

\* create_run: one active live run per investigation.  A rerun's parent must be
\* terminal, which the same guard implies for the runs of one investigation.
CreateRun(r) ==
    /\ status[r] = "absent"
    /\ \A q \in Runs : status[q] \notin Active
    /\ status' = [status EXCEPT ![r] = "created"]
    /\ UNCHANGED <<cancelAsked, leaseOwner, leaseVersion, leaseLeft, attempts, claims,
                   events, pending, workVars, projVars, frozen>>

\* acquire_lease_and_create_attempt: execute() takes a created run, resume() an
\* interrupted one; the lease and the attempt are created together or not at all.
Acquire(r, w) ==
    /\ status[r] \in {"created", "interrupted"}
    /\ leaseOwner[r] = NoWorker \/ leaseLeft[r] = 0
    /\ \A n \in DOMAIN attempts[r] : attempts[r][n] # "running"
    /\ Len(attempts[r]) < MaxAttempts
    /\ status' = [status EXCEPT ![r] = "running"]
    /\ leaseOwner' = [leaseOwner EXCEPT ![r] = w]
    /\ leaseVersion' = [leaseVersion EXCEPT ![r] = @ + 1]
    /\ leaseLeft' = [leaseLeft EXCEPT ![r] = LeaseTTL]
    /\ attempts' = [attempts EXCEPT ![r] = Append(@, "running")]
    /\ claims' = claims \cup
           {[run |-> r, owner |-> w, version |-> leaseVersion[r] + 1,
             attempt |-> Len(attempts[r]) + 1]}
    /\ UNCHANGED <<cancelAsked, events, pending, workVars, projVars, frozen>>

\* Wall-clock time passes on the database's side of a lease.
LeaseTick(r) ==
    /\ leaseOwner[r] # NoWorker
    /\ leaseLeft[r] > 0
    /\ leaseLeft' = [leaseLeft EXCEPT ![r] = @ - 1]
    /\ UNCHANGED <<status, cancelAsked, leaseOwner, leaseVersion, attempts, claims,
                   events, pending, workVars, projVars, frozen>>

\* renew_lease: an expired lease is never revived, even by its own owner.
RenewLease(c) ==
    /\ status[c.run] \in Leased
    /\ FenceHolds(c)
    /\ leaseLeft' = [leaseLeft EXCEPT ![c.run] = LeaseTTL]
    /\ UNCHANGED <<status, cancelAsked, leaseOwner, leaseVersion, attempts, claims,
                   events, pending, workVars, projVars, frozen>>

\* request_cancel on a run nobody has started: terminal at once, no event.
CancelCreated(r) ==
    /\ status[r] = "created"
    /\ cancelAsked' = [cancelAsked EXCEPT ![r] = TRUE]
    /\ StopRun(r, "cancelled")
    /\ invStatus' = OutcomeShown(r, "cancelled")
    /\ frozen' = [frozen EXCEPT ![r] = FreezeView(r)]
    /\ UNCHANGED <<claims, events, pending, workVars, projOwner, evidence>>

\* request_cancel on an executing run: its owner still has to finish it.
CancelRunning(r) ==
    /\ status[r] = "running"
    /\ cancelAsked' = [cancelAsked EXCEPT ![r] = TRUE]
    /\ status' = [status EXCEPT ![r] = "cancelling"]
    /\ UNCHANGED <<leaseOwner, leaseVersion, leaseLeft, attempts, claims, events,
                   pending, workVars, projVars, frozen>>

\* Mutant: the event of a coordinator that lost its lease is still accepted.
AppendEventUnfenced(c) ==
    /\ status[c.run] \in Leased
    /\ Fits(c.run, 1)
    /\ events' = Log(c.run, <<Ev("work", c.attempt)>>)
    /\ UNCHANGED <<runVars, attempts, claims, pending, workVars, projVars, frozen>>

\* append_event_command: run, phase, agent and model events of the coordinator.
AppendEvent(c) ==
    /\ status[c.run] \in Leased
    /\ FenceHolds(c)
    /\ AttemptRuns(c)
    /\ Fits(c.run, 1)
    /\ events' = Log(c.run, <<Ev("work", c.attempt)>>)
    /\ UNCHANGED <<runVars, attempts, claims, pending, workVars, projVars, frozen>>

\* Mutant: the remaining turns are not checked.
ReserveTurnUnchecked(c) ==
    /\ status[c.run] \in Leased
    /\ FenceHolds(c)
    /\ turns' = [turns EXCEPT ![c.run] = @ - 1]
    /\ UNCHANGED <<runVars, attempts, claims, events, pending, checkpoints, tools,
                   projVars, frozen>>

\* reserve_model_turn
ReserveTurn(c) ==
    /\ status[c.run] \in Leased
    /\ FenceHolds(c)
    /\ turns[c.run] > 0
    /\ turns' = [turns EXCEPT ![c.run] = @ - 1]
    /\ UNCHANGED <<runVars, attempts, claims, events, pending, checkpoints, tools,
                   projVars, frozen>>

\* ensure_v11_tool_budget_available: only a first RUNNING record of a logical
\* call that is not already charged needs a free unit of the budget.
BudgetAdmits(r, t, outcome) ==
    \/ outcome # "running"
    \/ tools[r][t] # "none"
    \/ LogicalCall[t] \in Consumed(r)
    \/ Cardinality(Consumed(r)) < ToolBudget

\* commit_tool: a start or a result, with its evidence and one event.  A call
\* that is already terminal rejects a different, late status.
CommitTool(c, t, outcome) ==
    LET r == c.run IN
    /\ status[r] = "running"
    /\ projOwner = r
    /\ FenceHolds(c)
    /\ AttemptRuns(c)
    /\ tools[r][t] = "none" => outcome = "running"
    /\ BudgetAdmits(r, t, outcome)
    /\ tools[r][t] \in ToolDone => tools[r][t] = outcome
    /\ Fits(r, 1)
    /\ tools' = [tools EXCEPT ![r][t] = outcome]
    /\ evidence' = IF outcome = "success" THEN evidence \cup {<<r, t>>} ELSE evidence
    /\ events' = Log(r, <<Ev("tool", c.attempt)>>)
    /\ UNCHANGED <<runVars, attempts, claims, pending, checkpoints, turns, projOwner,
                   invStatus, frozen>>

-----------------------------------------------------------------------------
(* Phase commits *)

\* Mutant: the commit is built without the merge of the durable evidence.
UnmergedCommit(c, failed) ==
    [claim |-> c, base |-> Len(checkpoints[c.run]), failed |-> failed,
     turns |-> turns[c.run], tools |-> tools[c.run], evidence |-> {}]

\* _merge_committed_tools copies the durable tool calls, evidence and budgets
\* into the mutation of a phase, so that no result that arrived while the phase
\* executed is lost.
MergedCommit(c, failed) ==
    [claim |-> c, base |-> Len(checkpoints[c.run]), failed |-> failed,
     turns |-> turns[c.run], tools |-> tools[c.run], evidence |-> evidence]

\* A coordinator queues a phase only after every agent of the phase, with its
\* tool calls, has ended, and the writer applies its queue in order: none of its
\* tool commits lands between the merge and the commit of one phase.
PhaseQueued(c) ==
    \E p \in pending : p.claim = c /\ p.base = Len(checkpoints[c.run])

\* A phase has ended and its commit is handed to the writer.  Between this step
\* and CommitPhase the store may change: the lease may expire, a cancellation may
\* arrive, a model turn may be reserved.
BuildPhaseCommit(c, failed) ==
    /\ status[c.run] \in Leased
    /\ FenceHolds(c)
    /\ Len(checkpoints[c.run]) < NPhases
    /\ ~PhaseQueued(c)
    /\ pending' = pending \cup {MergedCommit(c, failed)}
    /\ UNCHANGED <<runVars, attempts, claims, events, workVars, projVars, frozen>>

\* validate_v11_phase_ownership and repository.activate_projection: INTAKE takes
\* the projection over from a terminal run with a frozen view and a terminal
\* investigation; every later phase must already own it.
OwnershipAllows(r, base) ==
    IF base > 0 THEN projOwner = r
    ELSE \A q \in Runs \ {r} : projOwner = q =>
            /\ status[q] \in Terminal
            /\ frozen[q].state # "none"
            /\ invStatus \in Terminal

\* ensure_phase_precondition: compare-and-set on the latest checkpoint, and the
\* committed phase is the next one of the profile.
PhaseInOrder(r, base) == base = Len(checkpoints[r])

\* Tool calls of the mutation are written back one by one; a call the snapshot
\* has never seen keeps its row.
WriteBack(r, snapshot) ==
    [tools EXCEPT ![r] = [t \in Tools |-> IF snapshot[t] = "none" THEN @[t] ELSE snapshot[t]]]

\* commit_phase: business rows, phase event, checkpoint event, checkpoint and run
\* position in one transaction.
CommitPhase(p) ==
    LET r   == p.claim.run
        n   == p.claim.attempt
        seq == Len(events[r]) + 2
    IN
    /\ OwnershipAllows(r, p.base)
    /\ p.turns = turns[r]
    /\ status[r] \in Leased
    /\ FenceHolds(p.claim)
    /\ AttemptRuns(p.claim)
    /\ PhaseInOrder(r, p.base)
    /\ Fits(r, 2)
    /\ checkpoints' = [checkpoints EXCEPT ![r] = Append(@,
           [attempt |-> n, sequence |-> seq,
            tools |-> IF p.base = 0 THEN {} ELSE Successes(p.tools)])]
    /\ events' = Log(r, <<Ev("phase", n), Ev("checkpoint", n)>>)
    /\ projOwner' = r
    /\ invStatus' = IF p.failed THEN "failed"
                    ELSE IF p.base + 1 = NPhases THEN "completed" ELSE "running"
    /\ evidence' = IF p.base = 0 THEN {} ELSE p.evidence
    /\ tools' = IF p.base = 0 THEN NoTools ELSE WriteBack(r, p.tools)
    /\ UNCHANGED <<runVars, attempts, claims, pending, turns, frozen>>

-----------------------------------------------------------------------------
(* The end of an ownership period *)

\* The coordinator completes a run after its last phase unless that left the
\* investigation failed, fails it while it is running and cancels it while it is
\* cancelling.
TerminalRequest(r) ==
    {t \in Terminal :
        /\ t = "cancelled" <=> status[r] = "cancelling"
        /\ t = "completed" => Len(checkpoints[r]) = NPhases /\ invStatus # "failed"}

\* A failure inside a phase records the failed phase first.
TerminalEvents(target, n) ==
    CASE target = "completed" -> {<<Ev("attempt.completed", n), Ev("run.completed", n)>>}
      [] target = "failed"    -> {<<Ev("run.failed", n)>>,
                                  <<Ev("phase", n), Ev("run.failed", n)>>}
      [] target = "cancelled" -> {<<Ev("run.cancelled", n)>>}

\* commit_terminal: terminal status, attempt, events, interrupted tool calls,
\* investigation status and frozen view in one transaction.
CommitTerminal(c, target) ==
    LET r == c.run IN
    /\ status[r] \in Leased
    /\ FenceHolds(c)
    /\ AttemptRuns(c)
    /\ target \in TerminalRequest(r) \cap AllowedTargets(status[r])
    /\ \E es \in TerminalEvents(target, c.attempt) : events' = Log(r, es)
    /\ frozen' = [frozen EXCEPT ![r] = FreezeView(r)]
    /\ tools' = InterruptTools(r)
    /\ StopRun(r, target)
    /\ invStatus' = OutcomeShown(r, target)
    /\ UNCHANGED <<cancelAsked, claims, pending, checkpoints, turns, projOwner, evidence>>

\* audit_expired_leases: a run whose lease ran out becomes interrupted.  The
\* audit wants the expiry strictly in the past and a fence wants it strictly in
\* the future; the instant between the two is not represented.
AuditExpired(r) ==
    /\ status[r] \in Leased
    /\ leaseLeft[r] = 0
    /\ tools' = InterruptTools(r)
    /\ StopRun(r, "interrupted")
    /\ frozen' = [frozen EXCEPT ![r] = FreezeView(r)]
    /\ events' = Log(r, <<Ev("run.interrupted", Len(attempts[r])),
                          Ev("attempt.interrupted", Len(attempts[r]))>>)
    /\ UNCHANGED <<cancelAsked, claims, pending, checkpoints, turns, projVars>>

\* Mutant: the status of the run is not checked.
RejectRecoveryAnyStatus(r, n) ==
    /\ n \in DOMAIN attempts[r]
    /\ attempts[r][n] = "interrupted"
    /\ Fits(r, 1)
    /\ frozen' = [frozen EXCEPT ![r] = FreezeView(r)]
    /\ events' = Log(r, <<Ev("recovery.rejected", n)>>)
    /\ UNCHANGED <<runVars, attempts, claims, pending, workVars, projVars>>

\* append_recovery_rejection: resume() read the list of attempts before this
\* transaction, so n may have been the last attempt only when it was read.
RejectRecovery(r, n) ==
    /\ status[r] = "interrupted"
    /\ n \in DOMAIN attempts[r]
    /\ attempts[r][n] = "interrupted"
    /\ Fits(r, 1)
    /\ frozen' = [frozen EXCEPT ![r] = FreezeView(r)]
    /\ events' = Log(r, <<Ev("recovery.rejected", n)>>)
    /\ UNCHANGED <<runVars, attempts, claims, pending, workVars, projVars>>

-----------------------------------------------------------------------------
RunStep(r) ==
    \/ CreateRun(r)
    \/ \E w \in Workers : Acquire(r, w)
    \/ LeaseTick(r)
    \/ CancelCreated(r)
    \/ CancelRunning(r)
    \/ AuditExpired(r)
    \/ \E n \in 1..MaxAttempts : RejectRecovery(r, n)

ClaimStep(c) ==
    \/ RenewLease(c)
    \/ AppendEvent(c)
    \/ ReserveTurn(c)
    \/ \E t \in Tools, o \in {"running", "success", "failed"} :
          ~PhaseQueued(c) /\ CommitTool(c, t, o)
    \/ \E failed \in BOOLEAN : BuildPhaseCommit(c, failed)
    \/ \E target \in Terminal : CommitTerminal(c, target)

Next ==
    \/ \E r \in Runs : RunStep(r)
    \/ \E c \in claims : ClaimStep(c)
    \/ \E p \in pending : CommitPhase(p)

Spec == Init /\ [][Next]_vars

-----------------------------------------------------------------------------
TypeOK ==
    /\ status \in [Runs -> RunStatus]
    /\ cancelAsked \in [Runs -> BOOLEAN]
    /\ leaseOwner \in [Runs -> Workers \cup {NoWorker}]
    /\ leaseVersion \in [Runs -> Nat]
    /\ leaseLeft \in [Runs -> 0..LeaseTTL]
    /\ attempts \in [Runs -> Seq(AttemptStatus)]
    /\ claims \subseteq Claim
    /\ events \in [Runs -> Seq(Event)]
    /\ checkpoints \in [Runs -> Seq(Checkpoint)]
    /\ pending \subseteq PhaseCommit
    /\ turns \in [Runs -> 0..TurnBudget]
    /\ tools \in [Runs -> [Tools -> ToolStatus]]
    /\ projOwner \in Runs \cup {NoRun}
    /\ invStatus \in {"pending", "running"} \cup Terminal
    /\ evidence \subseteq Runs \X Tools
    /\ frozen \in [Runs -> View]

-----------------------------------------------------------------------------
(* Safety *)

\* The store would accept a write that carries claim c; some writes check no
\* more than this (renew_lease, reserve_model_turn).
Admitted(c) == status[c.run] \in Leased /\ FenceHolds(c)

\* Lease, attempt and status of a run tell one story: a leased run has exactly
\* one running attempt, the latest one, numbered by the lease version; any other
\* run has no lease owner and no running attempt, and the status of its last
\* attempt is its own (store.py _apply_transition closes both together).
OwnershipConsistent ==
    \A r \in Runs :
        /\ leaseVersion[r] = Len(attempts[r])
        /\ status[r] \in Leased <=> leaseOwner[r] # NoWorker
        /\ \A n \in DOMAIN attempts[r] :
              attempts[r][n] = "running" <=> n = Len(attempts[r]) /\ status[r] \in Leased
        /\ status[r] \in {"interrupted", "completed", "failed"} =>
              attempts[r] # <<>> /\ attempts[r][Len(attempts[r])] = status[r]

\* Of all the claims ever handed out, for all runs of the investigation, at most
\* one can still write: a paused or replaced owner never writes beside the
\* current one (lease fence, lease versions and one active live run).
SingleWriter == \A c, d \in claims : Admitted(c) /\ Admitted(d) => c = d

\* The log is written by one attempt after the other: no late event of an older
\* attempt follows an event of a newer one.  Rejections of a recovery are
\* written without a lease and are exempt.
LogInAttemptOrder ==
    \A r \in Runs : \A i, j \in DOMAIN events[r] :
        i < j /\ "recovery.rejected" \notin {events[r][i].type, events[r][j].type}
            => events[r][i].attempt <= events[r][j].attempt

TerminalEvent(s) == CASE s = "completed" -> "run.completed"
                      [] s = "failed"    -> "run.failed"
                      [] OTHER           -> "run.cancelled"

\* The event log closes with the run: a terminal run that was ever started ends
\* in exactly its own terminal event, nothing follows it, and a run that is not
\* terminal has none; clients stop reading at that event.
LogClosesWithRun ==
    \A r \in Runs :
        LET closing == {i \in DOMAIN events[r] :
                            events[r][i].type \in {"run.completed", "run.failed", "run.cancelled"}}
        IN IF status[r] \in Terminal /\ attempts[r] # <<>>
           THEN /\ closing = {Len(events[r])}
                /\ events[r][Len(events[r])].type = TerminalEvent(status[r])
           ELSE closing = {}

\* Every checkpoint points at its own checkpoint event, in phase order, and every
\* checkpoint event belongs to one checkpoint: a phase is committed once, however
\* often and however late its command is delivered.  resume() relies on it.
CheckpointsMatchLog ==
    \A r \in Runs :
        /\ \A k \in DOMAIN checkpoints[r] :
              LET cp == checkpoints[r][k] IN
              /\ cp.sequence \in DOMAIN events[r]
              /\ events[r][cp.sequence] = Ev("checkpoint", cp.attempt)
              /\ k > 1 => checkpoints[r][k - 1].sequence < cp.sequence
        /\ Cardinality({i \in DOMAIN events[r] : events[r][i].type = "checkpoint"})
              = Len(checkpoints[r])
        /\ Len(checkpoints[r]) <= NPhases

\* The active projection holds evidence of its owner only, each item backed by a
\* successful tool call of that run; so does every frozen view.
EvidenceIsOwned ==
    /\ \A e \in evidence : e[1] = projOwner /\ tools[e[1]][e[2]] = "success"
    /\ \A r \in Runs : \A e \in frozen[r].evidence : e[1] = r

\* A tool call is in flight only in the run that owns the projection and is still
\* leased: whoever ends the ownership period interrupts the calls it leaves.
NoOrphanToolCall ==
    \A r \in Runs, t \in Tools :
        tools[r][t] = "running" => status[r] \in Leased /\ projOwner = r

\* Starts of tool calls, retries and recoveries together never charge more than
\* the frozen budget, and a logical call is charged once.
ToolBudgetRespected == \A r \in Runs : Cardinality(Consumed(r)) <= ToolBudget

\* When the run that owns the projection has ended, the investigation shows that
\* run's outcome, also when a later run ended before it took the projection over.
InvestigationShowsOwner ==
    projOwner # NoRun /\ status[projOwner] \in Terminal => invStatus = status[projOwner]

\* Evidence that was committed is never overwritten while its run owns the
\* projection, though every phase commit writes a whole snapshot back: the merge
\* of durable tool results keeps the ones that arrived during the phase
\* (coordinator.py _merge_committed_tools).
CommittedEvidenceStays ==
    projOwner' = projOwner => evidence \subseteq evidence'

\* A rerun takes the projection over only from a finished run whose frozen view
\* holds all the evidence the handover deletes.
HandoverKeepsHistory ==
    projOwner' # projOwner /\ projOwner # NoRun =>
        /\ status[projOwner] \in Terminal
        /\ frozen[projOwner] = [state |-> "activated", evidence |-> evidence]

\* A terminal run never changes again: status, attempts, log, checkpoints, budget
\* and frozen view, whatever arrives late.
TerminalIsFinal ==
    [][\A r \in Runs : status[r] \in Terminal =>
          /\ status'[r] = status[r] /\ attempts'[r] = attempts[r]
          /\ events'[r] = events[r] /\ checkpoints'[r] = checkpoints[r]
          /\ turns'[r] = turns[r]   /\ frozen'[r] = frozen[r]]_vars

-----------------------------------------------------------------------------
(* What the repository's text says and the code does not do *)

\* docs/superpowers/specs/2026-09-12-diagops-v12-validation-design.md:153 maps an
\* effective user cancellation to `cancelled', never to completed.
CancelledNeverCompletes ==
    \A r \in Runs : cancelAsked[r] => status[r] # "completed"

\* The log tells what happened: attempts follow each other, an end closes it and
\* every checkpoint stands at its event (append_event, commit_phase, commit_terminal).
LogConsistent == LogInAttemptOrder /\ LogClosesWithRun /\ CheckpointsMatchLog

\* The projection is owned and paid for: no call outlives the lease it ran under,
\* calls stay within the frozen budget, evidence in a view is the run's own, and the
\* investigation shows the outcome of the run that owns it (commit_tool,
\* audit_expired_leases, activate_projection).
ProjectionConsistent ==
    NoOrphanToolCall /\ ToolBudgetRespected /\ EvidenceIsOwned /\ InvestigationShowsOwner

\* Results are not lost: neither by a phase commit that is older than a tool result,
\* nor by a rerun that takes the investigation over (commit_phase, freeze_business_projection).
ProjectionKept == [][CommittedEvidenceStays /\ HandoverKeepsHistory]_vars
=============================================================================

----------------------------- MODULE ModelCalls -----------------------------
(***************************************************************************)
(* The model calls of one V11 run and the token budget they share: the     *)
(* Investigators of a round call the model side by side, then the Critic.  *)
(*                                                                         *)
(* Each request reserves tokens in memory and writes a started event, and  *)
(* settles with a second event.  One asyncio lock covers both, across the  *)
(* wait for the durable write; a time limit around the whole attempt       *)
(* cancels the coroutine wherever it waits.                                *)
(***************************************************************************)
EXTENDS Integers, Sequences, FiniteSets, Functions, FiniteSetsExt

CONSTANTS
    Investigators,    \* the logical calls of the round
    Critic,           \* the logical call of the review
    TokenBudget,      \* token_budget of the run
    TurnBudget,       \* limits.max_turns
    FullInput,        \* calibrated estimate of a request with query tools
    CloseInput,       \* ... of a closing request
    CriticInput,      \* ... of the Critic's request
    Margin,           \* the least output a request is planned with (256)
    CloseOutput,      \* the output a closing request should get (2048)
    OutputLimit,      \* _MODEL_OUTPUT_TOKEN_LIMIT
    CriticLimit,      \* _CRITIC_OUTPUT_TOKEN_LIMIT
    CriticCost,       \* _expected_request_tokens of the Critic
    QueryLimit,       \* max_tool_calls_per_specialist
    MaxAttempts,      \* attempts of one call (4)
    MaxCorrections,   \* retry_policy.model_max_corrections
    MaxFaults         \* bound of the model: time limits, errors and crashes

ASSUME ModelCallsAssumption ==
    /\ Critic \notin Investigators /\ IsFiniteSet(Investigators)
    /\ {TokenBudget, TurnBudget, FullInput, CloseInput, CriticInput, Margin, CloseOutput,
        OutputLimit, CriticLimit, CriticCost, QueryLimit, MaxAttempts} \subseteq Nat \ {0}
    /\ {MaxCorrections, MaxFaults} \subseteq Nat
    /\ CriticInput < CriticCost

VARIABLES
    remaining,      \* _remaining_token_budget
    reserved,       \* _model_reservations: tokens by reservation id
    closed,         \* _settled_model_reservations
    memTurns,       \* _remaining_model_turns
    storeTurns,     \* run.remaining_model_turns in the store
    call,           \* the logical calls
    budgetLock,     \* holder of _token_budget_lock
    modelLog,       \* the durable model events of the run
    saved,          \* tokens left in the last checkpoint
    stage,          \* phase under way: round, review; committed or failed
    life,           \* number of crashes; the process is down after one
    down,
    used,           \* tokens taken within reservations (no code has it)
    faults          \* faults so far

budgetVars == <<remaining, reserved, closed, memTurns, storeTurns, call, budgetLock,
                modelLog, saved, stage, life, down, used, faults>>

Callers == Investigators \cup {Critic}
Nobody  == "nobody"
Steps   == {"off", "ready", "wait", "starting", "sent", "settling", "rejecting", "cleanup",
            "cleaning", "done", "failed"}
Ids     == (0..MaxFaults) \X Callers \X (0..QueryLimit) \X (1..MaxAttempts)
\* A model event of one reservation: started, or a terminal one with the tokens
\* that durable_token_usage counts for it.
Events  == [kind: {"started", "settled", "rejected"}, tokens: Nat]
\* What follows a settlement: another request, the end of the call, a retry
\* after an error, a correction of the output, or a failed call.
Follow  == {"tool", "final", "invalid", "retry", "fatal"}

\* step: where the coroutine of _call_model stands.  tools: query tools are
\* still offered.  index: _request_index.  id, closing, cost: the request under
\* way; cost is what the provider takes for it.  charge, next: its settlement.
Quiet == [step |-> "off", attempt |-> 1, corrections |-> 0, tools |-> TRUE, index |-> 0,
          id |-> <<>>, closing |-> FALSE, cost |-> 0, charge |-> 0, next |-> "final"]

Open     == CASE stage = "round" -> Investigators [] stage = "review" -> {Critic} [] OTHER -> {}
At(c, p) == ~down /\ c \in Open /\ call[c].step = p
Active   == {c \in Investigators : call[c].step \notin {"off", "done", "failed"}}
Goes(c, p)    == call' = [call EXCEPT ![c].step = p]
Fault         == faults < MaxFaults /\ faults' = faults + 1
Forget(id)    == RestrictDomain(reserved, LAMBDA i : i # id)
Logged(id, e) == modelLog' = [modelLog EXCEPT ![id] = Append(@, e)]
Event(k, n)   == [kind |-> k, tokens |-> n]

-----------------------------------------------------------------------------
(* What the log says: phases.py *)

Terminals(id) == SelectSeq(modelLog[id], LAMBDA e : e.kind # "started")

\* durable_token_usage
DurableUsage ==
    SumFunction([id \in Ids |-> SumFunction([n \in DOMAIN Terminals(id) |-> Terminals(id)[n].tokens])])

\* durable_remaining_token_budget: a rejected settlement leaves nothing.
DurableRemaining ==
    IF \E id \in Ids : \E n \in DOMAIN modelLog[id] : modelLog[id][n].kind = "rejected" THEN 0
    ELSE Max({0, TokenBudget - DurableUsage})

\* durable_model_reservations: the last event of the reservation opened it.
DurableReservations ==
    {id \in Ids : modelLog[id] # <<>> /\ modelLog[id][Len(modelLog[id])].kind = "started"}

-----------------------------------------------------------------------------
(* What one request may reserve *)

CriticSlot == IF Cardinality(Investigators) > 1 THEN 1 ELSE 0
CloseUnit  == CloseInput + Margin
\* The Critic's two requests, at their expected cost.
CriticTokens == CriticSlot * Max({CloseUnit, 2 * CriticCost})
\* Room for one more query and its review, kept from the third request on.
Supplement(c) == IF call[c].index > 1 THEN 2 * CloseUnit + CriticCost ELSE 0

\* An Investigator's request closes the query tools when its calls or the run's
\* turns or tokens run out.
Closing(c) ==
    \/ call[c].index >= QueryLimit
    \/ memTurns <= Cardinality(Active) + CriticSlot
    \/ ~call[c].tools
    \/ remaining < FullInput + Margin + Cardinality(Active) * CloseUnit + CriticTokens + Supplement(c)

Input(c, closing) ==
    CASE c = Critic -> CriticInput [] c # Critic /\ closing -> CloseInput [] OTHER -> FullInput

\* future_tokens: the closing requests of the siblings, the Critic, and the
\* closing request that follows a query; the Critic's second request gives way
\* to a closing request that would get too little.
FutureTokens(c, closing) ==
    IF c = Critic THEN 0
    ELSE LET requests == Cardinality(Active) - 1 + IF closing THEN 0 ELSE 1
             future   == requests * CloseUnit + CriticTokens
         IN  IF closing /\ CriticSlot = 1 /\ remaining - future < CloseInput + CloseOutput
             THEN future - CriticTokens \div 2 ELSE future

\* The share of a request that names no limit: parallel queries divide what is
\* left by the free slots.
Share(c, closing) ==
    LET slots == IF c = Critic \/ closing THEN 1
                 ELSE Max({1, Cardinality(Investigators) - Cardinality(DOMAIN reserved)})
    IN  Max({Input(c, closing) + 1, (remaining + slots - 1) \div slots})

OutputCap(c, closing) ==
    Min({IF c = Critic THEN CriticLimit ELSE OutputLimit,
         Min({Share(c, closing), remaining - FutureTokens(c, closing)}) - Input(c, closing)})

\* _model_request_reservation_id: a replayed request index takes the first id
\* that was neither logged nor reserved nor settled.
NextId(c) ==
    LET id(k) == <<life, c, call[c].index, k>>
    IN  id(Min({k \in 1..MaxAttempts : /\ id(k) \notin DOMAIN reserved \cup closed
                                       /\ modelLog[id(k)] = <<>>}))

-----------------------------------------------------------------------------
(* _call_model and _V11BudgetedModel.get_response *)

\* The checks before the first attempt; the Critic also looks at the tokens.
CallModel(c) ==
    /\ At(c, "off")
    /\ IF memTurns <= 0 \/ (c = Critic /\ remaining <= 0) THEN Goes(c, "failed") ELSE Goes(c, "ready")
    /\ UNCHANGED <<remaining, reserved, closed, memTurns, storeTurns, budgetLock, modelLog,
                   saved, stage, life, down, used, faults>>

\* After an attempt failed: a transport error or a time limit is retried, a
\* malformed output is corrected without query tools, the rest ends the call.
After(c, next) ==
    LET k == [call[c] EXCEPT !.id = <<>>, !.closing = FALSE, !.cost = 0, !.charge = 0, !.next = "final"] IN
    CASE next = "final" -> [k EXCEPT !.step = "done"]
      [] next = "tool"  -> [k EXCEPT !.step = "ready", !.index = @ + 1]
      [] next = "retry" /\ k.attempt < MaxAttempts ->
            [k EXCEPT !.step = "ready", !.attempt = @ + 1, !.index = 0]
      [] next = "invalid" /\ k.attempt < MaxAttempts /\ k.corrections < MaxCorrections ->
            [k EXCEPT !.step = "ready", !.attempt = @ + 1, !.index = 0,
                      !.corrections = @ + 1, !.tools = FALSE]
      [] OTHER -> [k EXCEPT !.step = "failed"]

\* Another request is under way whose settlement may free tokens.
OthersInFlight(c) == \E d \in Callers \ {c} : call[d].step = "sent"

OthersBusy(c) == \E d \in Callers \ {c} :
    call[d].step \in {"sent", "settling", "rejecting", "cleanup", "cleaning"}

\* _reserve_model_budget_once up to the write of the started event.
Reserve(c) ==
    /\ At(c, "ready") /\ budgetLock = Nobody
    /\ LET closing == c # Critic /\ Closing(c)
           cap     == OutputCap(c, closing)
           total   == Input(c, closing) + cap
           id      == NextId(c)
       IN  \/ /\ cap > 0 /\ storeTurns > 0
              /\ storeTurns' = storeTurns - 1
              /\ memTurns' = storeTurns - 1
              /\ remaining' = remaining - total
              /\ reserved' = [i \in DOMAIN reserved \cup {id} |-> IF i = id THEN total ELSE reserved[i]]
              /\ budgetLock' = c
              /\ call' = [call EXCEPT ![c].step = "starting", ![c].id = id, ![c].closing = closing]
           \/ /\ cap <= 0 \/ storeTurns = 0
              /\ Goes(c, IF cap <= 0 /\ OthersInFlight(c) THEN "wait" ELSE "failed")
              /\ UNCHANGED <<remaining, reserved, memTurns, storeTurns, budgetLock>>
    /\ UNCHANGED <<closed, modelLog, saved, stage, life, down, used, faults>>

\* The settlement that was waited for does not come in time.
WaitExpires(c) ==
    /\ At(c, "wait")
    /\ IF OthersBusy(c) THEN Fault ELSE UNCHANGED faults
    /\ call' = [call EXCEPT ![c] = After(c, "retry")]
    /\ UNCHANGED <<remaining, reserved, closed, memTurns, storeTurns, budgetLock, modelLog,
                   saved, stage, life, down, used>>

\* The started event is durable and the request goes out.  The provider takes
\* almost what was reserved, or (a fault) more than that.
Send(c) ==
    /\ At(c, "starting")
    /\ LET id == call[c].id IN
       /\ Logged(id, Event("started", reserved[id]))
       /\ \E cost \in {reserved[id] - 1, reserved[id] + 1, TokenBudget + 1} :
             /\ IF cost > reserved[id] THEN Fault ELSE UNCHANGED faults
             /\ call' = [call EXCEPT ![c].step = "sent", ![c].cost = cost]
             /\ used' = used + Min({cost, reserved[id]})
    /\ budgetLock' = Nobody
    /\ UNCHANGED <<remaining, reserved, closed, memTurns, storeTurns, saved, stage, life, down>>

\* The time limit of the attempt passes while the started event is written:
\* the writer may have taken it, and nothing is given back.
TornStart(c) ==
    /\ At(c, "starting") /\ Fault
    /\ \/ Logged(call[c].id, Event("started", reserved[call[c].id]))
       \/ UNCHANGED modelLog
    /\ budgetLock' = Nobody
    /\ call' = [call EXCEPT ![c] = After(c, "retry")]
    /\ UNCHANGED <<remaining, reserved, closed, memTurns, storeTurns, saved, stage, life, down, used>>

\* _settle_model_budget up to the write of the terminal event.  A charge above
\* the reservation and what nobody reserved is rejected: nothing is left, the
\* reservation is gone and waiting requests are woken before the write.
Woken(calls) == [d \in Callers |-> IF calls[d].step = "wait" THEN [calls[d] EXCEPT !.step = "ready"]
                                                             ELSE calls[d]]

Settle(c, charge, next) ==
    LET id == call[c].id IN
    /\ budgetLock = Nobody
    /\ budgetLock' = c
    /\ \/ /\ charge <= reserved[id] + remaining
          /\ call' = [call EXCEPT ![c].step = "settling", ![c].charge = charge, ![c].next = next]
          /\ UNCHANGED <<remaining, reserved, closed>>
       \/ /\ charge > reserved[id] + remaining
          /\ call' = Woken([call EXCEPT ![c].step = "rejecting", ![c].charge = charge])
          /\ remaining' = 0
          /\ reserved' = Forget(id)
          /\ closed' = closed \cup {id}
    /\ UNCHANGED <<memTurns, storeTurns, modelLog, saved, stage, life, down, used>>

\* The response: with its usage or without, in which case the reservation is
\* charged.  A closing request has no tool to ask for; asking all the same, or
\* an output that does not validate, is a malformed output.
Respond(c) ==
    /\ At(c, "sent")
    /\ \E known \in BOOLEAN, next \in {"tool", "final", "invalid"} :
          /\ next = "tool" => c # Critic /\ ~call[c].closing
          /\ Settle(c, IF known THEN call[c].cost ELSE reserved[call[c].id], next)
    /\ UNCHANGED faults

\* The request fails or runs into its time limit; an error may carry the usage.
RequestFails(c) ==
    /\ At(c, "sent") /\ Fault
    /\ \E known \in BOOLEAN, next \in {"retry", "fatal"} :
          Settle(c, IF known THEN call[c].cost ELSE reserved[call[c].id], next)

\* The terminal event is durable: the rest goes back, waiting requests wake up.
Settled(c) ==
    /\ \/ At(c, "settling") \/ At(c, "cleaning")
    /\ LET id == call[c].id IN
       /\ Logged(id, Event("settled", call[c].charge))
       /\ remaining' = remaining + reserved[id] - call[c].charge
       /\ reserved' = Forget(id)
       /\ closed' = closed \cup {id}
    /\ budgetLock' = Nobody
    /\ call' = Woken([call EXCEPT ![c] = After(c, call[c].next)])
    /\ UNCHANGED <<memTurns, storeTurns, saved, stage, life, down, used, faults>>

\* The rejection is written under a shield: no time limit gets in between.
Rejected(c) ==
    /\ At(c, "rejecting")
    /\ Logged(call[c].id, Event("rejected", call[c].charge))
    /\ budgetLock' = Nobody
    /\ call' = [call EXCEPT ![c] = After(c, "fatal")]
    /\ UNCHANGED <<remaining, reserved, closed, memTurns, storeTurns, saved, stage, life, down, used, faults>>

\* Mutant: the interrupted settlement does not release the lock.
TornSettleHoldsLock(c) ==
    /\ At(c, "settling") /\ Fault
    /\ call' = [call EXCEPT ![c] = IF @.next \in {"retry", "fatal"} THEN After(c, "retry")
                                   ELSE [@ EXCEPT !.step = "cleanup"]]
    /\ UNCHANGED <<remaining, reserved, closed, memTurns, storeTurns, budgetLock, modelLog,
                   saved, stage, life, down, used>>

\* The time limit of the attempt passes while the terminal event is written; the
\* writer may have taken it.  The settlement of a response is cleaned up by a
\* second one, the settlement of an error is left as it is.
TornSettle(c) ==
    /\ At(c, "settling") /\ Fault
    /\ \/ Logged(call[c].id, Event("settled", call[c].charge))
       \/ UNCHANGED modelLog
    /\ budgetLock' = Nobody
    /\ call' = [call EXCEPT ![c] = IF @.next \in {"retry", "fatal"} THEN After(c, "retry")
                                   ELSE [@ EXCEPT !.step = "cleanup"]]
    /\ UNCHANGED <<remaining, reserved, closed, memTurns, storeTurns, saved, stage, life, down, used>>

\* get_response, except CancelledError: the usage is unknown.
Cleanup(c) ==
    /\ At(c, "cleanup") /\ budgetLock = Nobody
    /\ budgetLock' = c
    /\ call' = [call EXCEPT ![c].step = "cleaning", ![c].charge = reserved[call[c].id],
                            ![c].next = "retry"]
    /\ UNCHANGED <<remaining, reserved, closed, memTurns, storeTurns, modelLog, saved, stage,
                   life, down, used, faults>>

-----------------------------------------------------------------------------
(* Phases, crashes and recovery *)

BudgetsAgree == remaining = DurableRemaining /\ memTurns = storeTurns
PhaseEnded   == ~down /\ stage \in {"round", "review"} /\ \A c \in Open : call[c].step \in {"done", "failed"}

\* commit_phase refuses a checkpoint whose budgets are not the log's; bind_phase
\* starts the next phase with the smaller of its own and the saved budget.
CommitBudget ==
    /\ PhaseEnded
    /\ IF ~BudgetsAgree THEN stage' = "failed" /\ UNCHANGED <<saved, remaining>>
       ELSE /\ saved' = remaining
            /\ stage' = IF stage = "round" THEN "review" ELSE "committed"
            /\ remaining' = Min({remaining, saved'})
    /\ UNCHANGED <<reserved, closed, memTurns, storeTurns, call, budgetLock, modelLog, life, down, used, faults>>

\* The process dies; an event that is being written may still land.
ProcessDies ==
    /\ ~down /\ stage \in {"round", "review"} /\ Fault
    /\ \/ UNCHANGED modelLog
       \/ \E c \in Open : \/ /\ call[c].step = "starting"
                             /\ Logged(call[c].id, Event("started", reserved[call[c].id]))
                          \/ /\ call[c].step \in {"settling", "cleaning"}
                             /\ Logged(call[c].id, Event("settled", call[c].charge))
                          \/ /\ call[c].step = "rejecting"
                             /\ Logged(call[c].id, Event("rejected", call[c].charge))
    /\ down' = TRUE
    /\ life' = life + 1
    /\ UNCHANGED <<remaining, reserved, closed, memTurns, storeTurns, call, budgetLock, saved, stage, used>>

\* Mutant: the resumed run gets back what its open requests had reserved.
ReconciledFree == modelLog

\* _reconcile_model_reservations: an open reservation is charged in full.
Reconciled ==
    [id \in Ids |-> IF id \in DurableReservations
                    THEN Append(modelLog[id], Event("settled", modelLog[id][Len(modelLog[id])].tokens))
                    ELSE modelLog[id]]

\* The run is resumed: _effective_resume_state and a fresh runtime, which repeats
\* the phase.
ResumeRun ==
    /\ down
    /\ modelLog' = Reconciled
    /\ remaining' = Min({saved, DurableRemaining'})
    /\ memTurns' = storeTurns
    /\ reserved' = <<>>
    /\ closed' = {}
    /\ budgetLock' = Nobody
    /\ call' = [c \in Callers |-> IF c \in Open THEN Quiet ELSE call[c]]
    /\ down' = FALSE
    /\ UNCHANGED <<storeTurns, saved, stage, life, used, faults>>

\* A run at the given phase, nothing spent.
BudgetAt(phase) ==
    /\ remaining = TokenBudget /\ saved = TokenBudget
    /\ reserved = <<>> /\ closed = {}
    /\ memTurns = TurnBudget /\ storeTurns = TurnBudget
    /\ call = [c \in Callers |-> Quiet]
    /\ budgetLock = Nobody
    /\ modelLog = [id \in Ids |-> <<>>]
    /\ stage = phase /\ life = 0 /\ down = FALSE /\ used = 0 /\ faults = 0

BudgetInit == BudgetAt("round")

CallStep(c) ==
    \/ CallModel(c) \/ Reserve(c) \/ WaitExpires(c) \/ Send(c) \/ Respond(c)
    \/ Settled(c) \/ Rejected(c) \/ Cleanup(c)

CallFault(c) == TornStart(c) \/ TornSettle(c) \/ RequestFails(c)

BudgetNext ==
    \/ \E c \in Callers : CallStep(c) \/ CallFault(c)
    \/ CommitBudget \/ ProcessDies \/ ResumeRun

\* The event loop runs every coroutine that can go on; requests answer or run
\* into their time limit; an interrupted run is resumed.
BudgetFairness ==
    /\ \A c \in Callers : WF_budgetVars(CallStep(c))
    /\ WF_budgetVars(CommitBudget) /\ WF_budgetVars(ResumeRun)

BudgetSpec == BudgetInit /\ [][BudgetNext]_budgetVars /\ BudgetFairness

-----------------------------------------------------------------------------
(* Properties *)

\* Type invariant: budgets never go below zero, the lock is held exactly while an
\* event of its holder is written, and a request under way has its reservation.
BudgetTypeOK ==
    /\ remaining \in 0..TokenBudget /\ saved \in 0..TokenBudget
    /\ memTurns \in 0..TurnBudget /\ storeTurns \in 0..TurnBudget
    /\ DOMAIN reserved \subseteq Ids /\ closed \subseteq Ids
    /\ \A id \in Ids : modelLog[id] \in Seq(Events)
    /\ stage \in {"round", "review", "committed", "failed"} /\ down \in BOOLEAN
    /\ \A c \in Callers : call[c].step \in Steps /\ call[c].next \in Follow
    /\ ~down => \A c \in Callers :
          /\ (budgetLock = c) = (call[c].step \in {"starting", "settling", "rejecting", "cleaning"})
          /\ call[c].step \in {"starting", "sent", "settling", "cleanup", "cleaning"} =>
                call[c].id \in DOMAIN reserved

Doubled     == \E id \in Ids : Len(Terminals(id)) > 1
WasRejected == \E id \in Ids : \E n \in DOMAIN modelLog[id] : modelLog[id][n].kind = "rejected"

\* commit_phase: "checkpoint remaining token budget differs from durable
\* consumption" must not happen to a phase that ran.
CheckpointBudgetAgrees == PhaseEnded => BudgetsAgree

\* What the code keeps of it: if no time limit fell into the write of an event
\* and no settlement was rejected, a phase ends with the budget the log gives,
\* whatever requests failed, waited, were retried or answered without usage.
SettledPhaseAgrees ==
    PhaseEnded /\ reserved = <<>> /\ ~Doubled /\ ~WasRejected => BudgetsAgree

\* Recovery never hands out tokens twice: through failed requests, torn writes
\* and resumes, what the provider takes within the reservations stays within the
\* budget of the run.
ProviderWithinBudget == used <= TokenBudget

\* The Investigators leave the Critic one request, as long as no response costs
\* more than it reserved and nothing is charged twice.
CriticIsAffordable ==
    (stage = "review" /\ CriticSlot = 1 /\ ~Doubled /\ ~WasRejected
        /\ \A id \in Ids : \A n \in DOMAIN modelLog[id] : modelLog[id][n].tokens <= modelLog[id][1].tokens)
    => saved >= CriticCost

\* Nobody waits for a settlement that cannot come: the round and the review end.
CallsEnd == <>[](stage \in {"committed", "failed"})

\* The budget of tokens is the same in memory, in the log and at the provider, as far
\* as the code keeps it, and the Critic finds its part (reserve, settle, reconcile).
TokensConsistent ==
    BudgetTypeOK /\ SettledPhaseAgrees /\ ProviderWithinBudget /\ CriticIsAffordable
=============================================================================

----------------------------- MODULE ToolSession -----------------------------
(***************************************************************************)
(* The queries of a round: AdaptiveToolSession, the shared admission of    *)
(* V11Runtime and the durable tool calls of the store.  Every Investigator *)
(* has a session; the model may ask several queries at once, and sessions  *)
(* run side by side.  A query runs in a thread, which nothing can cancel:  *)
(* it outlives the coroutine that a time limit or a cancellation ends.     *)
(*                                                                         *)
(* Every write passes check_execution first.  Once the deadline of the run *)
(* has passed, its cancellation is requested or its lease is lost, that    *)
(* check raises, also in the write that would close a call: the call stays *)
(* open until the run is ended or audited.                                 *)
(***************************************************************************)
EXTENDS Naturals, Sequences, FiniteSets, Functions

CONSTANTS
    Sessions,         \* investigator tasks of the round
    Queries,          \* fingerprints of queries
    MaxAsks,          \* bound of the model: queries asked in a session
    SpecialistLimit,  \* max_tool_calls_per_specialist
    RunLimit,         \* tool_budget of the run
    StepLimit,        \* limit of RunStepGate
    MaxToolFaults     \* bound of the model: errors, cancellations, crashes

ASSUME ToolSessionAssumption ==
    /\ {MaxAsks, SpecialistLimit, RunLimit, StepLimit} \subseteq Nat \ {0}
    /\ MaxToolFaults \in Nat /\ IsFiniteSet(Sessions) /\ IsFiniteSet(Queries)

VARIABLES
    ask,          \* the invocations, by session and number
    session,      \* what a session keeps in memory
    toolLog,      \* events of the durable calls; the last one is the status
    admissions,   \* _tool_admissions: logical calls admitted by this process
    admitLock,    \* holder of _tool_admission_lock
    threads,      \* external calls that are running
    fence,        \* what check_execution and the store find out about the run
    toolLife,     \* number of crashes; the process is down after one
    toolDown,
    toolFaults    \* faults so far

toolVars == <<ask, session, toolLog, admissions, admitLock, threads, fence, toolLife, toolDown, toolFaults>>

Asks    == Sessions \X (1..MaxAsks)
NoAsk   == <<>>
\* A durable call.  life stands for the instance id of the Investigator, which
\* is new in every process: idempotency key and logical id contain it.
CallIds == [life: 0..MaxToolFaults, session: Sessions, query: Queries, n: 1..MaxAsks, try: 1..2]
Logical(id) == [life |-> id.life, session |-> id.session, query |-> id.query]
Endings == {"success", "failed", "interrupted"}
\* The check passes while the run holds; it raises when the deadline passed, when a
\* cancellation is requested, when the lease is lost, and after the run ended.
Fences == {"holds", "late", "cancelling", "lost", "over"}
AskSteps == {"idle", "admit", "starting", "gate", "running", "closing", "failing", "saving", "saved",
             "interrupting", "returned", "rejected", "cancelled", "raised"}
SettledSteps == {"idle", "returned", "rejected", "cancelled", "raised"}

FreshSession == [asked |-> 0, prints |-> {}, halted |-> FALSE, known |-> {}, cancelling |-> FALSE]
Unasked == [step |-> "idle", id |-> NoAsk, stops |-> FALSE]

LogOf(id)  == IF id \in DOMAIN toolLog THEN toolLog[id] ELSE <<>>
Status(id) == IF LogOf(id) = <<>> THEN "none" ELSE LogOf(id)[Len(LogOf(id))]
Rows       == DOMAIN toolLog

Up(k, step)   == ~toolDown /\ ask[k].step = step
AskGoes(k, step) == ask' = [ask EXCEPT ![k].step = step]
ToolFault     == toolFaults < MaxToolFaults /\ toolFaults' = toolFaults + 1
Holds         == fence = "holds"
InSlot        == {k \in Asks : ask[k].step = "running"}

-----------------------------------------------------------------------------
(* The store: commit_tool *)

\* Logical calls the durable rows charge: every row does, whatever its status.
Consumed == {Logical(id) : id \in Rows}

\* ensure_v11_tool_budget_available: the hard limit, checked for a start only.
StartAllowed(id) == Logical(id) \in Consumed \/ Cardinality(Consumed) < RunLimit

\* A terminal call rejects another status, and accepts its own again.
Accepts(id, e) == Status(id) \in Endings => Status(id) = e

\* Status and lease of the run, which the transaction reads; not the deadline.
StoreTakes == fence \in {"holds", "late"}

Written(id, e) == toolLog' = [i \in Rows \cup {id} |-> IF i = id THEN Append(LogOf(id), e) ELSE toolLog[i]]

\* commit_terminal and audit_expired_leases interrupt the calls that are open.
OpenInterrupted ==
    toolLog' = [i \in Rows |-> IF Status(i) = "started" THEN Append(toolLog[i], "interrupted")
                                                        ELSE toolLog[i]]

-----------------------------------------------------------------------------
(* AdaptiveToolSession._invoke *)

\* resolve_tool_result by idempotency key: a success of this instance and this
\* attempt number.
Reusable(s, q) == \E id \in Rows :
    Logical(id) = [life |-> toolLife, session |-> s, query |-> q] /\ id.try = 1 /\ Status(id) = "success"

\* The model asks a query.  After the deadline it is answered at once.  An unknown
\* tool, a malformed input or a target outside the scope is rejected (the data
\* decides), then the check may raise.  A durable success answers from the store; a
\* repeated query, a stopped agent and an exhausted limit are rejected.  Otherwise
\* the query is remembered before anything is awaited.
AskQuery(s, n, q) ==
    LET asked == session[s].asked + 1
        over  == asked > SpecialistLimit \/ asked > RunLimit
    IN
    /\ ~toolDown /\ ~session[s].cancelling
    /\ ask[<<s, n>>].step = "idle" /\ (n > 1 => ask[<<s, n - 1>>].step # "idle")
    /\ \/ /\ fence \in {"late", "over"}
          /\ AskGoes(<<s, n>>, "rejected")
          /\ UNCHANGED session
       \/ /\ fence # "late"
          /\ \E step \in {"rejected", "raised"} : (step = "raised" => ~Holds) /\ AskGoes(<<s, n>>, step)
          /\ session' = [session EXCEPT ![s].asked = asked]
       \/ /\ Holds /\ Reusable(s, q)
          /\ session' = [session EXCEPT ![s].asked = asked]
          /\ AskGoes(<<s, n>>, "returned")
       \/ /\ Holds /\ ~Reusable(s, q) /\ (q \in session[s].prints \/ session[s].halted \/ over)
          /\ session' = [session EXCEPT ![s].asked = asked,
                           ![s].halted = @ \/ (over /\ q \notin session[s].prints)]
          /\ AskGoes(<<s, n>>, "rejected")
       \/ /\ Holds /\ ~Reusable(s, q) /\ q \notin session[s].prints /\ ~session[s].halted /\ ~over
          /\ session' = [session EXCEPT ![s].asked = asked, ![s].prints = @ \cup {q}]
          /\ ask' = [ask EXCEPT ![<<s, n>>] = [step |-> "admit", stops |-> FALSE,
                       id |-> [life |-> toolLife, session |-> s, query |-> q, n |-> n, try |-> 1]]]
    /\ UNCHANGED <<toolLog, admissions, admitLock, threads, fence, toolLife, toolDown, toolFaults>>

\* admit_tool holds its lock from the check of the capacity until the start of
\* the call is durable.  After the deadline _action_timeout raises before there is a
\* call, or after the one that was closed for the retry.  When check_execution raises
\* before the start is submitted, the lock is free again, and the admission remains.
Admit(k) ==
    LET id    == ask[k].id
        known == Consumed \cup admissions
        full  == Logical(id) \notin known /\ Cardinality(known) >= RunLimit
    IN
    /\ Up(k, "admit") /\ ~session[k[1]].cancelling
    /\ \/ /\ fence = "late"
          /\ AskGoes(k, IF id.try = 1 THEN "rejected" ELSE "failing")
          /\ UNCHANGED <<session, admissions, admitLock>>
       \/ /\ admitLock = NoAsk /\ full
          /\ AskGoes(k, "rejected")
          /\ session' = [session EXCEPT ![k[1]].halted = TRUE]
          /\ UNCHANGED <<admissions, admitLock>>
       \/ /\ admitLock = NoAsk /\ ~full
          /\ AskGoes(k, IF Holds THEN "starting" ELSE "failing")
          /\ admissions' = admissions \cup {Logical(id)}
          /\ admitLock' = IF Holds THEN k ELSE NoAsk
          /\ UNCHANGED session
    /\ UNCHANGED <<toolLog, threads, fence, toolLife, toolDown, toolFaults>>

\* The writer commits the start.  A cancellation of the session that arrives
\* meanwhile is seen afterwards; a deadline that passed meanwhile does not stop the
\* commit, but the check after it raises.
Started(k) ==
    LET id == ask[k].id IN
    /\ Up(k, "starting")
    /\ admitLock' = NoAsk
    /\ IF StoreTakes /\ StartAllowed(id)
       THEN Written(id, "started") /\ AskGoes(k, IF Holds THEN "gate" ELSE "failing")
       ELSE UNCHANGED toolLog /\ AskGoes(k, "failing")
    /\ UNCHANGED <<session, admissions, threads, fence, toolLife, toolDown, toolFaults>>

\* The check after the start raises, or a slot of RunStepGate is free and the query
\* runs in a thread.
EnterGate(k) ==
    /\ Up(k, "gate") /\ ~session[k[1]].cancelling
    /\ \/ ~Holds /\ AskGoes(k, "failing") /\ UNCHANGED threads
       \/ /\ Cardinality(InSlot) < StepLimit
          /\ AskGoes(k, "running")
          /\ threads' = threads \cup {ask[k].id}
    /\ UNCHANGED <<session, toolLog, admissions, admitLock, fence, toolLife, toolDown, toolFaults>>

\* The thread returns.  Nobody looks at the result of an abandoned one; a
\* transport error of a first attempt is retried after the call is closed.
ThreadEnds(id) ==
    LET owners == {k \in Asks : ask[k].step = "running" /\ ask[k].id = id} IN
    /\ id \in threads
    /\ threads' = threads \ {id}
    /\ \/ /\ owners = {} \/ toolDown
          /\ UNCHANGED <<ask, toolFaults>>
       \/ \E k \in owners, result \in {"result", "transport", "error"} :
             /\ ~toolDown /\ ~session[k[1]].cancelling
             /\ IF result = "result" THEN UNCHANGED toolFaults ELSE ToolFault
             /\ \/ fence # "late" /\ result = "result" /\ AskGoes(k, "saving")
                \/ fence # "late" /\ result = "transport" /\ id.try = 1 /\ AskGoes(k, "closing")
                \/ /\ fence = "late" \/ result = "error" \/ (result = "transport" /\ id.try = 2)
                   /\ AskGoes(k, "failing")
    /\ UNCHANGED <<session, toolLog, admissions, admitLock, fence, toolLife, toolDown>>

\* wait_for gives up on the thread, which goes on without a slot.
ToolTimeout(k) ==
    /\ Up(k, "running") /\ ToolFault
    /\ ask' = [ask EXCEPT ![k].step = "failing", ![k].stops = TRUE]
    /\ UNCHANGED <<session, toolLog, admissions, admitLock, threads, fence, toolLife, toolDown>>

\* before_retry: after the check, the first attempt is closed as failed under a
\* shield, and the limit is looked at again.  A cancellation during the write is
\* raised after it, and then the call, still running in memory, is closed once more.
CloseForRetry(k) ==
    LET s == k[1]
        spent == session[s].asked > SpecialistLimit \/ session[s].asked > RunLimit
    IN
    /\ Up(k, "closing")
    /\ \/ ~Holds /\ AskGoes(k, "failing") /\ UNCHANGED <<toolLog, session>>
       \/ /\ Holds /\ Written(ask[k].id, "failed")
          /\ \/ session[s].cancelling /\ AskGoes(k, "interrupting") /\ UNCHANGED session
             \/ /\ ~session[s].cancelling /\ spent
                /\ AskGoes(k, "rejected")
                /\ session' = [session EXCEPT ![s].halted = TRUE]
             \/ /\ ~session[s].cancelling /\ ~spent
                /\ ask' = [ask EXCEPT ![k].step = "admit", ![k].id.try = 2]
                /\ UNCHANGED session
    /\ UNCHANGED <<admissions, admitLock, threads, fence, toolLife, toolDown, toolFaults>>

\* _finish_failed_invocation as failed; a stop ends the queries of the agent.  When
\* the check before the write raises, the call stays as it is, and the exception
\* leaves the session.
CloseFailed(k) ==
    LET s == k[1] IN
    /\ Up(k, "failing")
    /\ IF Holds /\ Accepts(ask[k].id, "failed")
       THEN /\ Written(ask[k].id, "failed")
            /\ AskGoes(k, IF session[s].cancelling THEN "cancelled" ELSE "rejected")
            /\ session' = [session EXCEPT ![s].halted = @ \/ (ask[k].stops /\ ~session[s].cancelling)]
       ELSE AskGoes(k, "raised") /\ UNCHANGED <<toolLog, session>>
    /\ UNCHANGED <<admissions, admitLock, threads, fence, toolLife, toolDown, toolFaults>>

\* Mutant: the session takes the result of a thread before it is committed.
SaveResultAlways(k) ==
    /\ ~toolDown /\ ask[k].step \in {"running", "saving"}
    /\ session' = [session EXCEPT ![k[1]].known = @ \cup {ask[k].id}]
    /\ AskGoes(k, "returned")
    /\ UNCHANGED <<toolLog, admissions, admitLock, threads, fence, toolLife, toolDown, toolFaults>>

\* After the check the result is committed with its evidence.
SaveResult(k) ==
    /\ Up(k, "saving")
    /\ IF Holds /\ Accepts(ask[k].id, "success")
       THEN Written(ask[k].id, "success") /\ AskGoes(k, "saved")
       ELSE UNCHANGED toolLog /\ AskGoes(k, "raised")
    /\ UNCHANGED <<session, admissions, admitLock, threads, fence, toolLife, toolDown, toolFaults>>

\* The session learns of what is durable.  A cancelled coroutine does not, although
\* the write went through, and neither does one that no longer passes the check.
Learn(k) ==
    LET s == k[1] IN
    /\ Up(k, "saved")
    /\ \/ session[s].cancelling /\ AskGoes(k, "cancelled") /\ UNCHANGED session
       \/ ~session[s].cancelling /\ ~Holds /\ AskGoes(k, "raised") /\ UNCHANGED session
       \/ /\ ~session[s].cancelling /\ Holds
          /\ AskGoes(k, "returned")
          /\ session' = [session EXCEPT ![s].known = @ \cup {ask[k].id}]
    /\ UNCHANGED <<toolLog, admissions, admitLock, threads, fence, toolLife, toolDown, toolFaults>>

\* CancelledError reaches a coroutine that waits: for the admission lock (the
\* second attempt has its record already), a slot, or its thread.
CancelHits(k) ==
    /\ ~toolDown /\ session[k[1]].cancelling /\ ask[k].step \in {"admit", "gate", "running"}
    /\ AskGoes(k, "interrupting")
    /\ UNCHANGED <<session, toolLog, admissions, admitLock, threads, fence, toolLife, toolDown, toolFaults>>

\* The call is closed as interrupted.  The store refuses it for a call that was
\* closed for a retry, and the conflict takes the place of the cancellation; so does
\* the exception of the check, and then the call stays open.
CloseInterrupted(k) ==
    /\ Up(k, "interrupting")
    /\ IF Holds /\ Accepts(ask[k].id, "interrupted")
       THEN Written(ask[k].id, "interrupted") /\ AskGoes(k, "cancelled")
       ELSE UNCHANGED toolLog /\ AskGoes(k, "raised")
    /\ UNCHANGED <<session, admissions, admitLock, threads, fence, toolLife, toolDown, toolFaults>>

-----------------------------------------------------------------------------
(* Around the session *)

\* The time limit of the model request, or a shutdown, cancels the session's
\* queries; a retried request finds the same session.
CancelSession(s) ==
    /\ ~toolDown /\ ToolFault /\ ~session[s].cancelling
    /\ \E n \in 1..MaxAsks : ask[<<s, n>>].step \notin SettledSteps
    /\ session' = [session EXCEPT ![s].cancelling = TRUE]
    /\ UNCHANGED <<ask, toolLog, admissions, admitLock, threads, fence, toolLife, toolDown>>

SessionRetries(s) ==
    /\ ~toolDown /\ session[s].cancelling
    /\ \A n \in 1..MaxAsks : ask[<<s, n>>].step \in SettledSteps
    /\ session' = [session EXCEPT ![s].cancelling = FALSE]
    /\ UNCHANGED <<ask, toolLog, admissions, admitLock, threads, fence, toolLife, toolDown, toolFaults>>

\* The deadline of the run passes, its user requests the cancellation, or the lease
\* runs out because the heartbeat failed.  Nothing stops the queries.
RunGivenUp ==
    /\ ~toolDown /\ Holds /\ ToolFault
    /\ fence' \in {"late", "cancelling", "lost"}
    /\ UNCHANGED <<ask, session, toolLog, admissions, admitLock, threads, toolLife, toolDown>>

\* The coordinator meets the deadline or the request and ends the run; queries may
\* still be under way.
RunEnds ==
    /\ ~toolDown /\ fence \in {"late", "cancelling"}
    /\ fence' = "over"
    /\ OpenInterrupted
    /\ UNCHANGED <<ask, session, admissions, admitLock, threads, toolLife, toolDown, toolFaults>>

\* The process dies in the round, its threads with it.  (After the deadline a
\* resumed run asks nothing: started_at is durable.)
RoundDies ==
    /\ ~toolDown /\ fence \in {"holds", "cancelling"} /\ ToolFault
    /\ toolDown' = TRUE
    /\ threads' = {}
    /\ UNCHANGED <<ask, session, toolLog, admissions, admitLock, fence, toolLife>>

\* audit_expired_leases interrupts the open calls; the resumed run repeats the
\* round with new sessions under new instance ids.  A process that lost the lease
\* may still be alive: its threads return, and every check and write of it is
\* refused.
RoundResumes ==
    /\ toolDown \/ fence = "lost"
    /\ OpenInterrupted
    /\ ask' = [k \in Asks |-> Unasked]
    /\ session' = [s \in Sessions |-> FreshSession]
    /\ admissions' = {} /\ admitLock' = NoAsk
    /\ toolLife' = toolLife + 1
    /\ toolDown' = FALSE /\ fence' = "holds"
    /\ UNCHANGED <<threads, toolFaults>>

ToolInit ==
    /\ ask = [k \in Asks |-> Unasked] /\ session = [s \in Sessions |-> FreshSession]
    /\ toolLog = <<>> /\ admissions = {} /\ admitLock = NoAsk /\ threads = {}
    /\ fence = "holds" /\ toolLife = 0 /\ toolDown = FALSE /\ toolFaults = 0

AskStep(k) ==
    \/ Admit(k) \/ Started(k) \/ EnterGate(k) \/ CloseForRetry(k) \/ CloseFailed(k)
    \/ SaveResult(k) \/ Learn(k) \/ CancelHits(k) \/ CloseInterrupted(k)

ToolNext ==
    \/ \E s \in Sessions, n \in 1..MaxAsks, q \in Queries : AskQuery(s, n, q)
    \/ \E k \in Asks : AskStep(k) \/ ToolTimeout(k)
    \/ \E id \in threads : ThreadEnds(id)
    \/ \E s \in Sessions : CancelSession(s) \/ SessionRetries(s)
    \/ RunGivenUp \/ RunEnds \/ RoundDies \/ RoundResumes

\* The event loop and the writer go on, queries return or run into their limit, the
\* coordinator ends a run that is late or to be cancelled, an interrupted run is
\* resumed.
ToolFairness ==
    /\ \A k \in Asks : WF_toolVars(AskStep(k))
    /\ WF_toolVars(\E id \in threads : ThreadEnds(id))
    /\ WF_toolVars(RunEnds) /\ WF_toolVars(RoundResumes)

ToolSpec == ToolInit /\ [][ToolNext]_toolVars /\ ToolFairness

-----------------------------------------------------------------------------
(* Properties *)

\* Type invariant: the lock is held exactly while its holder's start is written.
ToolTypeOK ==
    /\ \A k \in Asks : ask[k].step \in AskSteps /\ ask[k].id \in CallIds \cup {NoAsk}
    /\ Rows \subseteq CallIds /\ threads \subseteq CallIds
    /\ \A id \in Rows : toolLog[id] \in Seq(Endings \cup {"started"})
    /\ \A s \in Sessions : session[s].known \subseteq CallIds /\ session[s].asked \in 0..MaxAsks
    /\ ~toolDown => \A k \in Asks : (admitLock = k) = (ask[k].step = "starting")

\* What the Investigator sees is durable: evidence enters a session only from
\* calls that are stored as successful, never from the thread of a call that
\* was closed by a time limit, a retry or a cancellation.
EvidenceIsDurable ==
    \A s \in Sessions : \A id \in session[s].known : Status(id) = "success"

\* A query of an Investigator crosses the boundary once, and once more after a
\* transport error, however often and however many at a time the model asks it.
QueryCrossesOnce ==
    \A a, b \in Rows : Logical(a) = Logical(b) /\ a.try = b.try => a = b

\* Who closes a call: the session, before its queries have settled, whatever failed,
\* timed out or was cancelled in it, as long as the run holds; the end of the run,
\* when the session no longer may.
NoCallOpen == \A id \in Rows : Status(id) # "started"
QueriesSettled == \A k \in Asks : ask[k].step \in SettledSteps
NothingLeftOpen ==
    /\ ~toolDown /\ Holds /\ QueriesSettled => NoCallOpen
    /\ fence = "over" => NoCallOpen

\* Calls that crossed the boundary stay within the tool budget of the run, over
\* parallel sessions, retries and crashes.
Crossed == {id \in Rows : toolLog[id][1] = "started"}
CrossedWithinBudget == Cardinality({Logical(id) : id \in Crossed}) <= RunLimit

\* Nobody waits for a lock, a slot or a write for ever, and no call stays open: what
\* a session had to leave open is closed by the end of the run or by the audit.
QueriesSettle == []<>(QueriesSettled /\ NoCallOpen)

\* "reuse successful idempotent tool results on resume": a query of a task whose
\* success is durable does not cross the boundary again.
SuccessIsReused ==
    \A a, b \in Crossed : a.session = b.session /\ a.query = b.query /\ a.life < b.life
                          => Status(a) # "success"

\* Calls of a round are asked once, paid for, closed, and seen only when durable
\* (AdaptiveToolSession, the admission in V11Runtime).
ToolCallsConsistent ==
    /\ ToolTypeOK /\ EvidenceIsDurable /\ QueryCrossesOnce
    /\ NothingLeftOpen /\ CrossedWithinBudget
=============================================================================

---------------------------- MODULE SqliteStore ----------------------------
(***************************************************************************)
(* The SQLite runtime store (runtime/sqlite_store.py) between threads and  *)
(* processes.  The driver opens a transaction at the first INSERT, UPDATE  *)
(* or DELETE: every SELECT before it sees the committed state of its own   *)
(* moment, everything from it to the commit is atomic.  A call is          *)
(* therefore up to three steps: what it reads before engine.begin(), what  *)
(* it checks inside before its first write, and the write, which is        *)
(* protected only by the conditions of its own statements and the unique   *)
(* indexes of db/schema.py.  A violated condition rolls everything back    *)
(* and the caller gets an exception; publication to the event hub comes    *)
(* after the commit and cannot undo it.                                    *)
(***************************************************************************)
EXTENDS Integers, Sequences, FiniteSets, TLC

CONSTANTS
    SqlRuns,      \* 1..n: live runs of one investigation, each the rerun of the previous
    SqlWorkers,   \* positive numbers: worker processes; each has one writer thread
    SqlRequests,  \* positive numbers: request threads (cancel, audit, read, reject)
    SqlPhases,    \* number of phases; the last but one writes report and actions
    SqlCalls,     \* tool call ids
    SqlToolBudget,\* frozen tool_budget of a run
    SqlTurns,     \* model turns of a run
    SqlLease,     \* lease_seconds, in ticks
    SqlClock,     \* bound of the model: ticks of the clock
    SqlAttempts,  \* bound of the model: attempts per run
    SqlLog,       \* bound of the model: a run's plain events start below this length
    SqlRetries    \* _SQLITE_PHASE_COMMIT_RETRY_DELAYS_SECONDS: retries of a busy commit

ASSUME SqlAssumption ==
    /\ IsFiniteSet(SqlRuns) /\ SqlRuns = 1..Cardinality(SqlRuns) /\ IsFiniteSet(SqlCalls)
    /\ SqlWorkers \cap SqlRequests = {} /\ 0 \notin SqlWorkers \cup SqlRequests
    /\ SqlPhases \in Nat \ {0, 1}
    /\ SqlToolBudget \in Nat /\ SqlTurns \in Nat /\ SqlLease \in Nat

VARIABLES
    row,      \* runtime_runs
    att,      \* runtime_attempts: the status of attempt 1, 2, ... of each run
    log,      \* runtime_events: a set of rows, the sequence number is a column
    ckpt,     \* runtime_checkpoints
    tool,     \* tool_calls: status by run and call id
    inv,      \* the investigation aggregate
    clock,    \* datetime.now()
    txn,      \* the store call each thread is in
    claim     \* what each worker's coordinator got from its last acquisition

sqlVars == <<row, att, log, ckpt, tool, inv, clock, txn, claim>>
sqlTables == <<row, att, log, ckpt, tool, inv>>

Threads  == SqlWorkers \cup SqlRequests
SqlHeld  == {"running", "cancelling"}
SqlEnded == {"completed", "failed", "cancelled"}
SqlOpen  == SqlHeld \cup {"created", "interrupted"}
EndEvent == {"run.completed", "run.failed", "run.cancelled"}
ToolOver == {"success", "interrupted"}
NoCall   == [op |-> "none"]
NoClaim  == [run |-> 0, owner |-> 0, version |-> 0, attempt |-> 0]
NewRecord == [owner |-> 0, status |-> "pending", done |-> 0, actions |-> "none"]
Unfrozen == -1
NoTool   == [c \in SqlCalls |-> "none"]
NewRow   == [status |-> "absent", owner |-> 0, version |-> 0, expires |-> 0, seq |-> 0,
             phase |-> 0, turns |-> SqlTurns, frozen |-> Unfrozen, contract |-> "sound",
             v11 |-> TRUE]

SqlInit ==
    /\ row = [r \in SqlRuns |-> NewRow]
    /\ att = [r \in SqlRuns |-> <<>>]
    /\ log = [r \in SqlRuns |-> {}]
    /\ ckpt = [r \in SqlRuns |-> {}]
    /\ tool = [r \in SqlRuns |-> NoTool]
    /\ inv = NewRecord
    /\ clock = 0
    /\ txn = [t \in Threads |-> NoCall]
    /\ claim = [w \in SqlWorkers |-> NoClaim]

V11(r)     == row[r].v11   \* execution_contract_version
Idle(t)    == txn[t] = NoCall
InCall(t, op, step) == txn[t].op = op /\ txn[t].step = step
Begin(t, call)  == Idle(t) /\ txn' = [txn EXCEPT ![t] = call]
Proceed(t, call) == txn' = [txn EXCEPT ![t] = call]
Return(t)  == txn' = [txn EXCEPT ![t] = NoCall]
\* The call raises; its transaction, if it has one, is rolled back.
Fails(t)   == Return(t) /\ UNCHANGED <<sqlTables, clock, claim>>

\* The lease condition of the WHERE clauses: the owner and version of the caller's
\* claim, and the time it took for "now".
LeaseHeld(by, at) ==
    /\ row[by.run].owner = by.owner
    /\ row[by.run].version = by.version
    /\ row[by.run].expires > at
Fenced(c) == LeaseHeld(c.by, c.at)

AttemptOpen(r, n) == n \in DOMAIN att[r] /\ att[r][n] = "running"
OpenAttempts(r)   == {n \in DOMAIN att[r] : att[r][n] = "running"}
SqlConsumed(r)    == {c \in SqlCalls : tool[r][c] # "none"}
Row(kind, n)      == [kind |-> kind, attempt |-> n]

\* The unique index on (run_id, sequence) accepts n rows after number "from".
NumbersFree(r, from, n) == \A e \in log[r] : e.seq \notin (from + 1)..(from + n)

\* The rows with the next numbers after "from".
Numbered(from, es) ==
    {[seq |-> from + i, kind |-> es[i].kind, attempt |-> es[i].attempt] : i \in DOMAIN es}
Insert(r, from, es) == log' = [log EXCEPT ![r] = @ \cup Numbered(from, es)]

\* _allocate_sequence for each event: next_event_sequence + 1 ... RETURNING.
Appended(r, es) == Insert(r, row[r].seq, es)

\* Mutant: V10 runs, which own no projection, are forgotten.
ViewOfOwner(r, record) == IF record.owner # r THEN 0 ELSE record.done

\* What freeze_business_projection copies for a run: a V11 run that does not own
\* the projection copies an empty view.
ViewOf(r, record) == IF V11(r) /\ record.owner # r THEN 0 ELSE record.done
SqlView(r) == ViewOf(r, inv)

OwnsProjection(r) == ~V11(r) \/ inv.owner = r

-----------------------------------------------------------------------------
(* Creation, lease, budget: their first statement is the write. *)

\* create_run: the parent is terminal and the partial unique index allows one
\* open run per investigation.
SqlCreate(r, v11) ==
    /\ row[r].status = "absent"
    /\ r > 1 => row[r - 1].status \in SqlEnded
    /\ \A q \in SqlRuns : row[q].status \notin SqlOpen
    /\ row' = [row EXCEPT ![r].status = "created", ![r].v11 = v11]
    /\ UNCHANGED <<att, log, ckpt, tool, inv, clock, txn, claim>>

\* The coordinator numbers the attempt from list_attempts and calls
\* acquire_lease_and_create_attempt.
SqlStart(w, r) ==
    /\ row[r].status \in {"created", "interrupted"}
    /\ Len(att[r]) < SqlAttempts
    /\ Begin(w, [op |-> "acquire", step |-> "write", run |-> r, status |-> row[r].status,
                 number |-> Len(att[r]) + 1, at |-> clock])
    /\ UNCHANGED <<sqlTables, clock, claim>>

\* The WHERE clause of the compare-and-set.
MayAcquire(c) ==
    /\ row[c.run].status = c.status
    /\ row[c.run].owner = 0 \/ row[c.run].expires <= c.at

\* One transaction: the lease, then the attempt.  A damaged contract is repaired
\* inside it, the attempt is then refused, and both are rolled back.
SqlAcquire(w) ==
    /\ InCall(w, "acquire", "write")
    /\ LET c == txn[w] IN
       IF /\ MayAcquire(c)
          /\ row[c.run].contract = "sound"
          /\ c.number = Len(att[c.run]) + 1
          /\ OpenAttempts(c.run) = {}
          /\ c.at + SqlLease > clock
       THEN /\ row' = [row EXCEPT ![c.run] = [row[c.run] EXCEPT
                  !.status = "running", !.owner = w, !.version = @ + 1,
                  !.expires = c.at + SqlLease]]
            /\ att' = [att EXCEPT ![c.run] = Append(@, "running")]
            /\ claim' = [claim EXCEPT ![w] = [run |-> c.run, owner |-> w,
                  version |-> row[c.run].version + 1, attempt |-> c.number]]
            /\ Return(w)
            /\ UNCHANGED <<log, ckpt, tool, inv, clock>>
       ELSE Fails(w)

\* renew_lease
SqlRenew(w) ==
    /\ claim[w].run # 0
    /\ row[claim[w].run].status \in SqlHeld
    /\ LeaseHeld(claim[w], clock)
    /\ row' = [row EXCEPT ![claim[w].run].expires = clock + SqlLease]
    /\ UNCHANGED <<att, log, ckpt, tool, inv, clock, txn, claim>>

\* reserve_model_turn: called beside the writer by the model sessions of a phase,
\* which have ended when the phase or the run is committed.
SqlReserveTurn(w) ==
    /\ claim[w].run # 0
    /\ txn[w].op \notin {"phase", "terminal"}
    /\ row[claim[w].run].status \in SqlHeld
    /\ LeaseHeld(claim[w], clock)
    /\ row[claim[w].run].turns > 0
    /\ row' = [row EXCEPT ![claim[w].run].turns = @ - 1]
    /\ UNCHANGED <<att, log, ckpt, tool, inv, clock, txn, claim>>

-----------------------------------------------------------------------------
(* append_event_command and commit_tool: "now" is taken before the transaction. *)

SqlWorks(w) == claim[w].run # 0

SqlAppendCalled(w) ==
    /\ SqlWorks(w)
    /\ row[claim[w].run].seq < SqlLog
    /\ Begin(w, [op |-> "event", step |-> "check", by |-> claim[w], at |-> clock])
    /\ UNCHANGED <<sqlTables, clock, claim>>

SqlAppendChecked(w) ==
    /\ InCall(w, "event", "check")
    /\ LET c == txn[w] IN
       IF row[c.by.run].status \in SqlHeld /\ Fenced(c) /\ AttemptOpen(c.by.run, c.by.attempt)
       THEN Proceed(w, [c EXCEPT !.step = "write"]) /\ UNCHANGED <<sqlTables, clock, claim>>
       ELSE Fails(w)

SqlAppend(w) ==
    /\ InCall(w, "event", "write")
    /\ LET c == txn[w] r == c.by.run IN
       IF Fenced(c) /\ NumbersFree(r, row[r].seq, 1)
       THEN /\ Appended(r, <<Row("work", c.by.attempt)>>)
            /\ row' = [row EXCEPT ![r].seq = @ + 1]
            /\ Return(w)
            /\ UNCHANGED <<att, ckpt, tool, inv, clock, claim>>
       ELSE Fails(w)

\* The session commits the start of a call before it runs the tool.
SqlToolCalled(w, k, outcome) ==
    /\ SqlWorks(w)
    /\ outcome = "success" => tool[claim[w].run][k] = "running"
    /\ row[claim[w].run].seq < SqlLog
    /\ Begin(w, [op |-> "tool", step |-> "check", by |-> claim[w], at |-> clock,
                 id |-> k, outcome |-> outcome, read |-> NewRecord])
    /\ UNCHANGED <<sqlTables, clock, claim>>

\* ensure_v11_tool_budget_available
Admits(r, k, outcome) ==
    (outcome = "running" /\ tool[r][k] = "none" /\ V11(r))
        => Cardinality(SqlConsumed(r)) < SqlToolBudget

\* The record that the evidence is merged into is read here, before the write.
SqlToolChecked(w) ==
    /\ InCall(w, "tool", "check")
    /\ LET c == txn[w] r == c.by.run IN
       IF /\ row[r].status = "running" /\ Fenced(c)
          /\ OwnsProjection(r)
          /\ AttemptOpen(r, c.by.attempt)
          /\ tool[r][c.id] \in ToolOver => tool[r][c.id] = c.outcome
          /\ Admits(r, c.id, c.outcome)
       THEN /\ Proceed(w, [c EXCEPT !.step = "write", !.read = inv])
            /\ UNCHANGED <<sqlTables, clock, claim>>
       ELSE Fails(w)

\* A result saves the whole investigation record it merged into; a start only
\* the tool call.
SqlCommitTool(w) ==
    /\ InCall(w, "tool", "write")
    /\ LET c == txn[w] r == c.by.run IN
       IF Fenced(c) /\ NumbersFree(r, row[r].seq, 1)
       THEN /\ tool' = [tool EXCEPT ![r][c.id] = c.outcome]
            /\ inv' = IF c.outcome = "running" THEN inv ELSE c.read
            /\ Appended(r, <<Row("tool", c.by.attempt)>>)
            /\ row' = [row EXCEPT ![r].seq = @ + 1]
            /\ Return(w)
            /\ UNCHANGED <<att, ckpt, clock, claim>>
       ELSE Fails(w)

-----------------------------------------------------------------------------
(* commit_phase *)

\* validate_v11_phase_ownership, with the frozen view of the previous owner.
OwnershipValid(r, p) ==
    \/ ~V11(r)
    \/ inv.owner = r
    \/ /\ p = 1
       /\ inv.owner # 0 =>
            row[inv.owner].status \in SqlEnded /\ row[inv.owner].frozen # Unfrozen

\* The executor hands over the record as it was when the phase began, and
\* _commit_phase compares the resume state with what is stored, all before the
\* transaction.
SqlPhaseCalled(w) ==
    /\ SqlWorks(w)
    /\ LET r == claim[w].run IN
       /\ row[r].phase < SqlPhases
       /\ IF OwnershipValid(r, row[r].phase + 1)
          THEN Begin(w, [op |-> "phase", step |-> "check", by |-> claim[w], at |-> clock,
                         phase |-> row[r].phase + 1, base |-> inv, turns |-> row[r].turns,
                         tries |-> 0])
          ELSE Idle(w) /\ UNCHANGED txn
    /\ UNCHANGED <<sqlTables, clock, claim>>

\* ensure_phase_precondition
InOrder(c) == c.phase = row[c.by.run].phase + 1

SqlPhaseChecked(w) ==
    /\ InCall(w, "phase", "check")
    /\ LET c == [txn[w] EXCEPT !.at = clock] IN
       IF /\ row[c.by.run].status \in SqlHeld /\ Fenced(c) /\ InOrder(c)
          /\ AttemptOpen(c.by.run, c.by.attempt)
       THEN Proceed(w, [c EXCEPT !.step = "write"]) /\ UNCHANGED <<sqlTables, clock, claim>>
       ELSE Fails(w)

\* activate_projection_with_connection refuses to replace an owner whose
\* investigation is not finished.
Activates(c)  == V11(c.by.run) /\ c.phase = 1
ActivationOk(c) == Activates(c) /\ inv.owner \notin {0, c.by.run} => inv.status \in SqlEnded

\* The investigation after the phase: the handed over record, with what the phase
\* computed.  INTAKE of a V11 run starts an empty projection.
ProjectionAfter(c) ==
    [owner  |-> IF V11(c.by.run) THEN c.by.run ELSE c.base.owner,
     status |-> IF c.phase = SqlPhases THEN "completed" ELSE "running",
     done   |-> c.phase,
     actions |-> CASE Activates(c) -> "none"
                   [] c.phase = SqlPhases - 1 -> "proposed"
                   [] OTHER -> c.base.actions]

SqlCommitPhase(w) ==
    /\ InCall(w, "phase", "write")
    /\ LET c == txn[w] r == c.by.run n == row[r].seq IN
       IF Fenced(c) /\ ActivationOk(c) /\ NumbersFree(r, n, 2)
       THEN /\ Appended(r, <<Row("phase", c.by.attempt), Row("checkpoint", c.by.attempt)>>)
            /\ ckpt' = [ckpt EXCEPT ![r] = @ \cup
                  {[phase |-> c.phase, attempt |-> c.by.attempt, seq |-> n + 2, turns |-> c.turns]}]
            /\ row' = [row EXCEPT ![r].seq = n + 2, ![r].phase = c.phase]
            /\ inv' = ProjectionAfter(c)
            /\ tool' = IF Activates(c) THEN [q \in SqlRuns |-> NoTool] ELSE tool
            /\ Return(w)
            /\ UNCHANGED <<att, clock, claim>>
       ELSE Fails(w)

\* The write lock stays busy: the transaction is rolled back and the commit is
\* tried again from its reads, a bounded number of times.
SqlPhaseBusy(w) ==
    /\ InCall(w, "phase", "write")
    /\ LET c == txn[w] IN
       IF c.tries < SqlRetries /\ OwnershipValid(c.by.run, c.phase)
          /\ c.turns = row[c.by.run].turns
       THEN /\ Proceed(w, [c EXCEPT !.step = "check", !.tries = @ + 1])
            /\ UNCHANGED <<sqlTables, clock, claim>>
       ELSE Fails(w)

-----------------------------------------------------------------------------
(* commit_terminal *)

\* The view is frozen before the transaction begins.
SqlTerminalCalled(w, target) ==
    /\ SqlWorks(w)
    /\ LET r == claim[w].run IN
       /\ row[r].status \in SqlHeld
       /\ target = "cancelled" <=> row[r].status = "cancelling"
       /\ target = "completed" => row[r].phase = SqlPhases
       /\ Begin(w, [op |-> "terminal", step |-> "check", by |-> claim[w], at |-> clock,
                    status |-> row[r].status, target |-> target, read |-> inv])
    /\ UNCHANGED <<sqlTables, clock, claim>>

\* What is checked first and the conditions of the last UPDATEs.
StillAsChecked(c) ==
    row[c.by.run].status = c.status /\ Fenced(c) /\ AttemptOpen(c.by.run, c.by.attempt)

SqlTerminalChecked(w) ==
    /\ InCall(w, "terminal", "check")
    /\ LET c == [txn[w] EXCEPT !.at = clock] IN
       IF StillAsChecked(c)
       THEN Proceed(w, [c EXCEPT !.step = "write"]) /\ UNCHANGED <<sqlTables, clock, claim>>
       ELSE Fails(w)

\* A stopped run gives up its lease.
Released(r, s) == [row[r] EXCEPT !.status = s, !.owner = 0, !.expires = 0]
CallsInterrupted(r) ==
    [tool EXCEPT ![r] = [k \in SqlCalls |-> IF tool[r][k] = "running" THEN "interrupted" ELSE tool[r][k]]]

TerminalRows(c) ==
    IF c.target = "completed"
    THEN <<Row("attempt.completed", c.by.attempt), Row("run.completed", c.by.attempt)>>
    ELSE <<Row(IF c.target = "failed" THEN "run.failed" ELSE "run.cancelled", c.by.attempt)>>

\* Mutant: the record read for the frozen view is saved.
OutcomeSavedStale(c) ==
    IF OwnsProjection(c.by.run) THEN [c.read EXCEPT !.status = c.target] ELSE inv

\* The record is read again under the write lock.
OutcomeSaved(c) ==
    IF OwnsProjection(c.by.run) THEN [inv EXCEPT !.status = c.target] ELSE inv

SqlCommitTerminal(w) ==
    /\ InCall(w, "terminal", "write")
    /\ LET c == txn[w] r == c.by.run es == TerminalRows(c) IN
       IF StillAsChecked(c) /\ NumbersFree(r, row[r].seq, Len(es))
       THEN /\ Appended(r, es)
            /\ row' = [row EXCEPT ![r] = [Released(r, c.target) EXCEPT
                  !.seq = @ + Len(es), !.frozen = ViewOf(r, c.read)]]
            /\ att' = [att EXCEPT ![r][c.by.attempt] = c.target]
            /\ tool' = CallsInterrupted(r)
            /\ inv' = OutcomeSaved(c)
            /\ Return(w)
            /\ UNCHANGED <<ckpt, clock, claim>>
       ELSE Fails(w)

-----------------------------------------------------------------------------
(* request_cancel *)

\* Ownership and view are read before the transaction, the view only of a run
\* that has not started.
SqlCancelCalled(t, r) ==
    /\ row[r].status # "absent"
    /\ Begin(t, [op |-> "cancel", step |-> "check", run |-> r, owns |-> OwnsProjection(r),
                 view |-> IF row[r].status = "created" THEN SqlView(r) ELSE Unfrozen,
                 status |-> "absent"])
    /\ UNCHANGED <<sqlTables, clock, claim>>

SqlCancelChecked(t) ==
    /\ InCall(t, "cancel", "check")
    /\ LET c == txn[t] IN
       IF row[c.run].status \in {"created", "running"}
       THEN /\ Proceed(t, [c EXCEPT !.step = "write", !.status = row[c.run].status])
            /\ UNCHANGED <<sqlTables, clock, claim>>
       ELSE Fails(t)

CancelStillDue(c) == row[c.run].status = c.status

SqlCancel(t) ==
    /\ InCall(t, "cancel", "write")
    /\ LET c == txn[t] r == c.run IN
       IF ~CancelStillDue(c) THEN Fails(t)
       ELSE /\ IF c.status = "created"
               THEN /\ row' = [row EXCEPT ![r] =
                          [Released(r, "cancelled") EXCEPT !.frozen = c.view]]
                    /\ inv' = IF c.owns THEN [inv EXCEPT !.status = "cancelled"] ELSE inv
               ELSE row' = [row EXCEPT ![r].status = "cancelling"] /\ UNCHANGED inv
            /\ Return(t)
            /\ UNCHANGED <<att, log, ckpt, tool, clock, claim>>

-----------------------------------------------------------------------------
(* audit_expired_leases *)

Expired(at) == {r \in SqlRuns : row[r].status \in SqlHeld /\ row[r].expires < at}

\* The ids, their attempts and the row of the first run are read before the first
\* write.  One open run per investigation: there is one id at most here.
SqlAuditRead(t) ==
    /\ \E r \in Expired(clock) :
        IF OpenAttempts(r) = {} THEN Idle(t) /\ UNCHANGED txn
        ELSE Begin(t, [op |-> "audit", step |-> "write", run |-> r, at |-> clock,
                       attempt |-> CHOOSE n \in OpenAttempts(r) : TRUE, seen |-> row[r]])
    /\ UNCHANGED <<sqlTables, clock, claim>>

\* The compare-and-set on the snapshot.
AuditStillDue(c) ==
    /\ row[c.run].status = c.seen.status
    /\ row[c.run].owner = c.seen.owner
    /\ row[c.run].version = c.seen.version
    /\ row[c.run].expires = c.seen.expires

\* The numbers come from the snapshot: an event written since then is met by the
\* unique index and undoes the audit.
SqlAudit(t) ==
    /\ InCall(t, "audit", "write")
    /\ LET c == txn[t] r == c.run IN
       IF AuditStillDue(c) /\ NumbersFree(r, c.seen.seq, 2)
       THEN /\ Insert(r, c.seen.seq, <<Row("run.interrupted", c.attempt),
                                       Row("attempt.interrupted", c.attempt)>>)
            /\ row' = [row EXCEPT ![r] = [Released(r, "interrupted") EXCEPT
                  !.seq = c.seen.seq + 2,
                  !.frozen = IF V11(r) THEN SqlView(r) ELSE row[r].frozen]]
            /\ att' = [att EXCEPT ![r][c.attempt] = "interrupted"]
            /\ tool' = CallsInterrupted(r)
            /\ Return(t)
            /\ UNCHANGED <<ckpt, inv, clock, claim>>
       ELSE Fails(t)

-----------------------------------------------------------------------------
(* append_recovery_rejection *)

SqlRejectCalled(t, r, n) ==
    /\ row[r].status = "interrupted"
    /\ att[r][n] = "interrupted"
    /\ row[r].seq < SqlLog
    /\ Begin(t, [op |-> "reject", step |-> "write", run |-> r, attempt |-> n])
    /\ UNCHANGED <<sqlTables, clock, claim>>

SqlReject(t) ==
    /\ InCall(t, "reject", "write")
    /\ LET c == txn[t] r == c.run IN
       IF row[r].status = "interrupted" /\ NumbersFree(r, row[r].seq, 1)
       THEN /\ Appended(r, <<Row("rejected", c.attempt)>>)
            /\ row' = [row EXCEPT ![r] = [row[r] EXCEPT !.seq = @ + 1,
                  !.frozen = IF V11(r) THEN SqlView(r) ELSE row[r].frozen]]
            /\ Return(t)
            /\ UNCHANGED <<att, ckpt, tool, inv, clock, claim>>
       ELSE Fails(t)

-----------------------------------------------------------------------------
(* A read that repairs *)

\* Something outside the program changed the stored execution contract.
ContractDamaged(r) ==
    /\ row[r].status # "absent"
    /\ \A q \in SqlRuns : row[q].contract = "sound"
    /\ row' = [row EXCEPT ![r].contract = "damaged"]
    /\ UNCHANGED <<att, log, ckpt, tool, inv, clock, txn, claim>>

\* get_run meets the mismatch and looks for the open attempt.
SqlReadDamaged(t, r) ==
    /\ row[r].contract = "damaged"
    /\ Begin(t, [op |-> "repair", step |-> "write", run |-> r, seen |-> row[r], read |-> inv,
                 open |-> OpenAttempts(r)])
    /\ UNCHANGED <<sqlTables, clock, claim>>

\* The number of the failure event is that of the row that was read.
FailureNumber(c) == c.seen.seq

\* _repair_contract_integrity.  With an open attempt the record is read under the
\* write lock, without one it was read before.
SqlRepair(t) ==
    /\ InCall(t, "repair", "write")
    /\ LET c == txn[t] r == c.run n == FailureNumber(c)
           record == IF c.open # {} THEN inv ELSE c.read IN
       IF c.open # {} => NumbersFree(r, n, 1)
       THEN /\ att' = [att EXCEPT ![r] =
                  [i \in DOMAIN att[r] |->
                      IF i \in c.open /\ att[r][i] = "running" THEN "failed" ELSE att[r][i]]]
            /\ IF c.open = {} THEN UNCHANGED log
               ELSE Insert(r, n, <<Row("run.failed", CHOOSE i \in c.open : TRUE)>>)
            /\ row' = [row EXCEPT ![r] = [Released(r, "failed") EXCEPT
                  !.seq = IF c.open # {} THEN n + 1 ELSE row[r].seq,
                  !.frozen = IF V11(r) THEN SqlView(r) ELSE row[r].frozen,
                  !.contract = "repaired"]]
            /\ inv' = IF ~V11(r) \/ record.owner \in {0, r}
                      THEN [record EXCEPT !.status = "failed"] ELSE inv
            /\ Return(t)
            /\ UNCHANGED <<ckpt, tool, clock, claim>>
       ELSE Fails(t)

-----------------------------------------------------------------------------
(* update_action_status: BEGIN IMMEDIATE, so reading and writing are one step. *)

\* validate_action_transition, for an action that requires approval.
NextDecision(s) ==
    CASE s = "proposed" -> {"approved", "rejected", "skipped"}
      [] s = "approved" -> {"done", "skipped"}
      [] OTHER -> {}

HumanDecides(d) ==
    /\ d \in NextDecision(inv.actions)
    /\ inv' = [inv EXCEPT !.actions = d]
    /\ UNCHANGED <<row, att, log, ckpt, tool, clock, txn, claim>>

-----------------------------------------------------------------------------
SqlTick ==
    /\ clock < SqlClock
    /\ clock' = clock + 1
    /\ UNCHANGED <<sqlTables, txn, claim>>

\* A worker process dies: what it had not committed is gone.
SqlCrash(w) ==
    /\ claim[w] # NoClaim
    /\ claim' = [claim EXCEPT ![w] = NoClaim]
    /\ Return(w)
    /\ UNCHANGED <<sqlTables, clock>>

WorkerCalls(w) ==
    \/ \E r \in SqlRuns : SqlStart(w, r)
    \/ SqlAcquire(w)
    \/ SqlRenew(w) \/ SqlReserveTurn(w)
    \/ SqlAppendCalled(w) \/ SqlAppendChecked(w) \/ SqlAppend(w)
    \/ \E k \in SqlCalls, o \in {"running", "success"} : SqlToolCalled(w, k, o)
    \/ SqlToolChecked(w) \/ SqlCommitTool(w)
    \/ SqlPhaseCalled(w) \/ SqlPhaseChecked(w) \/ SqlCommitPhase(w) \/ SqlPhaseBusy(w)
    \/ \E s \in SqlEnded : SqlTerminalCalled(w, s)
    \/ SqlTerminalChecked(w) \/ SqlCommitTerminal(w)
    \/ SqlCrash(w)

RequestCalls(t) ==
    \/ \E r \in SqlRuns :
        \/ SqlCancelCalled(t, r) \/ SqlReadDamaged(t, r)
        \/ \E n \in DOMAIN att[r] : SqlRejectCalled(t, r, n)
    \/ SqlCancelChecked(t) \/ SqlCancel(t)
    \/ SqlAuditRead(t) \/ SqlAudit(t)
    \/ SqlReject(t) \/ SqlRepair(t)

SqlNext ==
    \/ \E r \in SqlRuns : ContractDamaged(r) \/ \E v11 \in BOOLEAN : SqlCreate(r, v11)
    \/ \E w \in SqlWorkers : WorkerCalls(w)
    \/ \E t \in SqlRequests : RequestCalls(t)
    \/ \E d \in {"approved", "rejected", "done", "skipped"} : HumanDecides(d)
    \/ SqlTick

SqlSpec == SqlInit /\ [][SqlNext]_sqlVars

-----------------------------------------------------------------------------
(* Properties *)

\* The rows keep their types, whatever the order of the calls.
SqlTypeOK ==
    /\ \A r \in SqlRuns :
        /\ row[r].status \in SqlOpen \cup SqlEnded \cup {"absent"}
        /\ row[r].owner \in SqlWorkers \cup {0} /\ (row[r].owner # 0 <=> row[r].status \in SqlHeld)
        /\ row[r].phase \in 0..SqlPhases /\ row[r].turns \in 0..SqlTurns
        /\ row[r].frozen \in Unfrozen..SqlPhases
        /\ att[r] \in Seq(SqlEnded \cup {"running", "interrupted"})
        /\ tool[r] \in [SqlCalls -> ToolOver \cup {"none", "running"}]
    /\ inv.owner \in SqlRuns \cup {0} /\ inv.done \in 0..SqlPhases

\* The event log of a run has the numbers 1 to next_event_sequence, each once:
\* the numbers that audit_expired_leases and the repairing read take from a row
\* read before their transaction never collide and never leave a gap.
SqlLogIsDense ==
    \A r \in SqlRuns :
        /\ {e.seq : e \in log[r]} = 1..row[r].seq
        /\ Cardinality(log[r]) = row[r].seq

\* Events of an earlier attempt never follow those of a later one, although a
\* worker whose lease ran out may have checked its call before it did
\* (recovery.rejected names the attempt the resume was about).
SqlLogInAttemptOrder ==
    \A r \in SqlRuns : \A e, f \in log[r] :
        e.kind # "rejected" /\ f.kind # "rejected" /\ e.seq < f.seq => e.attempt <= f.attempt

\* A run that is running or cancelling has exactly one open attempt and no other
\* run has one: audit_expired_leases, which raises for every expired run when one
\* has no open attempt, always finds it.
SqlAttemptFollowsRun ==
    \A r \in SqlRuns :
        Cardinality(OpenAttempts(r)) = IF row[r].status \in SqlHeld THEN 1 ELSE 0

\* The checkpoints of a run are those of phases 1 to current_phase, each at the
\* number of its checkpoint event, and the turns they record are never fewer than
\* what is left now.
SqlCheckpointsMatchLog ==
    \A r \in SqlRuns :
        /\ {k.phase : k \in ckpt[r]} = 1..row[r].phase
        /\ Cardinality(ckpt[r]) = row[r].phase
        /\ \A k \in ckpt[r] :
            /\ [seq |-> k.seq, kind |-> "checkpoint", attempt |-> k.attempt] \in log[r]
            /\ k.turns >= row[r].turns

\* A run that ended has a frozen view, and it shows every phase the run committed
\* although commit_terminal and request_cancel copy it before their transaction, as
\* long as no stored contract was damaged: the repairing read can save a record it
\* read before a rerun took the investigation over.
SqlEndedIsFrozen ==
    \A r \in SqlRuns :
        row[r].status \in SqlEnded /\ (\A q \in SqlRuns : row[q].contract = "sound") =>
            row[r].frozen # Unfrozen /\ (row[r].phase > 0 => row[r].frozen = row[r].phase)

\* A run ends in the log once: a terminal commit, an audit and two reads that
\* repair the same damaged contract never record two ends.
SqlEndsOnce == \A r \in SqlRuns : Cardinality({e \in log[r] : e.kind \in EndEvent}) <= 1

\* A V11 run never starts more tool calls than its frozen budget.
SqlWithinBudget == \A r \in SqlRuns : V11(r) => Cardinality(SqlConsumed(r)) <= SqlToolBudget

\* The status of a run that ended changes only when a read repairs its damaged
\* contract: no cancel, audit, acquisition or commit that was decided earlier.
SqlEndIsFinal ==
    \A r \in SqlRuns :
        row[r].status \in SqlEnded /\ row'[r].status # row[r].status
            => row[r].contract = "damaged" /\ row'[r].status = "failed"

\* What a human decided about an action is neither lost by the step that ends the
\* run nor later, until a rerun: no call that read the record earlier writes it
\* back (a run with a damaged contract excepted).
SqlDecisionStays ==
    (/\ inv.actions \in {"approved", "rejected", "skipped", "done"}
     /\ \A r \in SqlRuns : row'[r].status \notin SqlOpen /\ row'[r].contract = "sound")
    => inv'.actions \in {inv.actions} \cup NextDecision(inv.actions)

\* How a run ended and what a person decided afterwards is not undone by a call that
\* read before it (commit_terminal, request_cancel, save of the whole record).
SqlOutcomeStays == [][SqlEndIsFinal /\ SqlDecisionStays]_sqlVars

\* The rows of a run fit together although every call decides from reads that precede
\* its transaction: types, numbers and order of events, the open attempt, checkpoints
\* and the tool budget (append_event, audit_expired_leases, commit_phase); a run ends
\* once, with a frozen view of all it committed (commit_terminal, request_cancel, the
\* repairing read).
SqlRowsConsistent ==
    /\ SqlTypeOK /\ SqlLogIsDense /\ SqlLogInAttemptOrder
    /\ SqlAttemptFollowsRun /\ SqlCheckpointsMatchLog /\ SqlWithinBudget
    /\ SqlEndsOnce /\ SqlEndedIsFrozen
=============================================================================

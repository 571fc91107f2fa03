------------------------------ MODULE PairLedger ------------------------------
(***************************************************************************)
(* The custodian's ledger of a RCAEval pair (CustodianPairLedger) and the  *)
(* commands that use it: launch-predict for a side, freeze-set, evaluate   *)
(* with its evaluator child, and the custodian's recovery.  Commands are   *)
(* processes on one SQLite file.  A write takes the writer lock, appends   *)
(* to an anchor file outside SQLite and commits; a reader takes no lock.   *)
(***************************************************************************)
EXTENDS Naturals, FiniteSets

CONSTANTS
    LedgerProcs,    \* slots for processes
    Sides,          \* expected sides of the pair
    OwnerTokens,    \* one-time reauthorization tokens of the owner
    MaxLaunches,    \* bound of the model: commands started
    MaxCrashes,     \* bound of the model: processes killed
    TornCommits     \* a commit may fail, or its process die, behind the anchor

ASSUME PairLedgerAssumption ==
    /\ MaxLaunches \in Nat /\ MaxCrashes \in Nat /\ TornCommits \in BOOLEAN
    /\ LedgerProcs \subseteq Nat /\ IsFiniteSet(Sides) /\ Sides # {} /\ 0 \notin OwnerTokens

VARIABLES
    row,        \* the row of pair_ledger
    sides,      \* pair_sides
    usedTokens, \* reauthorizations
    tx,         \* the open write transaction: what it will commit
    ahead,      \* the anchor file has an entry that ledger_events lacks
    intent,     \* the failure intent file exists
    markers,    \* frozen sets whose SHA256SUMS exists
    proc,       \* the processes
    launched,   \* commands started so far; numbers the leases
    crashes,
    labelReads  \* evaluator children that read the labels: the sets they scored

ledgerVars == <<row, sides, usedTokens, tx, ahead, intent, markers, proc, launched, crashes, labelReads>>

InFlight     == {"predicting", "prelabel_frozen", "labels_open"}
LedgerStates == {"absent", "new", "predictions_frozen", "completed", "failed"} \cup InFlight
Tokens       == 0..(2 * MaxLaunches)      \* 0 is no token; two leases per command
NoTx         == [by |-> {}]

\* The identity of a set: the provisional one of the pair, or what the sides
\* wrote.  An output directory and its bundle are named by the lease they were
\* made under.
SetIds    == [Sides -> Tokens]
Pair      == [s \in Sides |-> 0]
SetOf(sd) == [s \in Sides |-> sd[s].bundle]

NoSides == [s \in Sides |-> [status |-> "none", dir |-> 0, bundle |-> 0]]
FreshRow(state, set, epoch) ==
    [state |-> state, set |-> set, lineage |-> set, bound |-> FALSE, freeze |-> Pair, revealed |-> FALSE,
     kind |-> "none", token |-> 0, over |-> FALSE, side |-> {}, scored |-> Pair, epoch |-> epoch]

Unlaunched == [step |-> "idle", role |-> "none", side |-> {}, owner |-> 0, lease |-> 0, id |-> 0,
               set |-> Pair, seen |-> Pair, child |-> "none", unlink |-> FALSE]

Reading == {"look", "records", "snapshot"}
Writing == {"reauthorize", "init", "start", "beat", "complete", "prepare", "bind",
            "reinit", "rebind", "reserve", "open", "openbeat", "finish", "recover", "invalidate"}
\* Inside the try block that invalidates the pair on every exception.
Guarded == {"beat", "look", "running", "complete", "open", "openbeat", "wait", "finish"}
Steps   == Reading \cup Writing \cup {"idle", "running", "mark", "wait"}

-----------------------------------------------------------------------------
(* The write boundary *)

Sealed == ~ahead
Fencing(p) == proc[p].child = "runs" /\ proc[p].role = "evaluate"
Connected(p, step) == proc[p].step = step /\ tx = NoTx /\ ~intent /\ ~proc[p].unlink /\ Sealed
Reads(p, step)     == proc[p].step = step /\ tx.by # {p} /\ ~intent /\ ~proc[p].unlink
Goes(p, step)      == proc' = [proc EXCEPT ![p].step = step]
Ends(p)            == proc' = [proc EXCEPT ![p] = Unlaunched]
RestOfLedger       == UNCHANGED <<row, sides, usedTokens, markers, launched, crashes, labelReads>>

\* An error reaches the command: inside its try block it invalidates the pair,
\* outside it just ends.
Raised(p) == IF proc[p].step \in Guarded THEN Goes(p, "invalidate") ELSE Ends(p)
Raises(p) == Raised(p) /\ UNCHANGED <<tx, ahead, intent>> /\ RestOfLedger

\* What the process does after the commit.
To(p, step)         == [step |-> step, lease |-> proc[p].lease, spawn |-> FALSE, unlink |-> FALSE]
WithLease(p, step, token) == [To(p, step) EXCEPT !.lease = token]

\* _commit, first half: the seal goes to the anchor file before SQLite commits.
Seals(p, r, sd, used, next) ==
    /\ tx' = [by |-> {p}, row |-> r, sides |-> sd, used |-> used, next |-> next]
    /\ ahead' = TRUE
    /\ UNCHANGED <<proc, intent>> /\ RestOfLedger

\* _recover_if_expired: an in-flight row whose lease is over, or has none.
\* Between two sides a predicting row has no lease and does not expire.
Expired ==
    /\ row.state \in InFlight
    /\ row.state = "predicting" => \E s \in Sides : sides[s].status = "started"
    /\ row.token = 0 \/ row.over

FailedRow(r)   == [r EXCEPT !.state = "failed", !.kind = "none", !.token = 0, !.side = {}]
FailedSides(sd) == [s \in Sides |-> IF sd[s].status = "none" THEN sd[s]
                                    ELSE [sd[s] EXCEPT !.status = "invalidated"]]

\* Mutant: any unexpired lease of the right kind will do.
HasLeaseOfKind(p, kind, side) == row.kind = kind /\ ~row.over /\ row.side = side

\* _require_lease
HasLease(p, kind, side) ==
    row.kind = kind /\ ~row.over /\ row.side = side /\ proc[p].lease = row.token

\* An operation that writes: its checks raise, or its changes are sealed.
Operation(p, step, ok, r, sd, next) ==
    /\ Connected(p, step)
    /\ IF row.state # "absent" /\ ok THEN Seals(p, r, sd, usedTokens, next) ELSE Raises(p)

-----------------------------------------------------------------------------
(* Predictions *)

\* Mutant: revealed labels do not stand in the way, and are forgotten.
ReauthorizeAfterReveal(p) ==
    /\ Connected(p, "reauthorize")
    /\ LET set == proc[p].set IN
       IF (row.state = "failed" \/ Expired) /\ proc[p].owner \notin usedTokens
       THEN Seals(p, FreshRow("new", set, row.epoch + 1), NoSides, usedTokens \cup {proc[p].owner},
                  To(p, IF proc[p].role = "predict" THEN "init" ELSE "snapshot"))
       ELSE Raises(p)

\* A failed pair, or one whose lease is over, starts again under a new epoch;
\* never once its labels were open, and never twice on one token.
Reauthorize(p) ==
    LET set == proc[p].set IN
    /\ Connected(p, "reauthorize")
    /\ IF (row.state = "failed" \/ Expired) /\ ~row.revealed /\ proc[p].owner \notin usedTokens
       THEN Seals(p, FreshRow("new", set, row.epoch + 1), NoSides, usedTokens \cup {proc[p].owner},
                  To(p, IF proc[p].role = "predict" THEN "init" ELSE "snapshot"))
       ELSE Raises(p)

\* initialize: the first call creates the row, later ones must agree with it.
Initialize(p) ==
    /\ Connected(p, "init")
    /\ IF row.state = "absent" THEN Seals(p, FreshRow("new", Pair, 0), NoSides, {}, To(p, "start"))
       ELSE IF row.set = Pair THEN Seals(p, row, sides, usedTokens, To(p, "start"))
       ELSE Raises(p)

RecordSideStarted(p) ==
    LET s == proc[p].side
        token == 2 * proc[p].id - 1
    IN Operation(p, "start",
         /\ row.state \in {"new", "predicting"} /\ ~Expired
         /\ \A t \in Sides : sides[t].status # "started"
         /\ \A t \in s : sides[t].status = "none",
         [row EXCEPT !.state = "predicting", !.kind = "prediction", !.token = token, !.side = s],
         [t \in Sides |-> IF t \in s THEN [status |-> "started", dir |-> token, bundle |-> 0] ELSE sides[t]],
         WithLease(p, "beat", token))

\* heartbeat needs a live lease and recovers nothing.  The extended lease is the
\* same token, not lapsed.
Heartbeat(p) ==
    LET step == proc[p].step
        next == CASE step = "beat" -> "look" [] step = "openbeat" -> "wait" [] OTHER -> "running"
    IN
    /\ step \in {"beat", "openbeat"} \/ (step = "running" /\ proc[p].child = "runs")
    /\ Operation(p, step,
         row.state \in InFlight /\ row.token # 0 /\ ~row.over /\ proc[p].lease = row.token,
         row, sides, [To(p, next) EXCEPT !.spawn = (step = "openbeat")])

\* The launcher reads the lease time and starts the prediction child.
LookAndSpawn(p) ==
    /\ Reads(p, "look")
    /\ IF Sealed
       THEN /\ proc' = [proc EXCEPT ![p].step = "running", ![p].child = "runs"]
            /\ UNCHANGED <<tx, ahead, intent>> /\ RestOfLedger
       ELSE Raises(p)

\* The child predicts, whatever the lease does meanwhile.
PredictionEnds(p) ==
    /\ proc[p].step = "running" /\ proc[p].child = "runs"
    /\ \E result \in {"good", "bad"} : proc' = [proc EXCEPT ![p].child = result]
    /\ UNCHANGED <<tx, ahead, intent>> /\ RestOfLedger

\* Mutant: only a successful child is noticed.
PredictionSeenGood(p) ==
    /\ proc[p].step = "running" /\ proc[p].child = "good" /\ tx.by # {p}
    /\ Goes(p, "complete")
    /\ UNCHANGED <<tx, ahead, intent>> /\ RestOfLedger

\* wait() returns; a heartbeat that is being written comes first.
PredictionSeen(p) ==
    /\ proc[p].step = "running" /\ proc[p].child \in {"good", "bad"} /\ tx.by # {p}
    /\ IF proc[p].child = "good" THEN Goes(p, "complete") ELSE Raised(p)
    /\ UNCHANGED <<tx, ahead, intent>> /\ RestOfLedger

RecordSideCompleted(p) ==
    LET s  == proc[p].side
        sd == [t \in Sides |-> IF t \in s THEN [sides[t] EXCEPT !.status = "completed", !.bundle = proc[p].lease]
                                         ELSE sides[t]]
        whole == \A t \in Sides : sd[t].status = "completed"
    IN Operation(p, "complete",
         row.state = "predicting" /\ ~Expired /\ HasLease(p, "prediction", s)
           /\ \A t \in s : sides[t].status = "started",
         [row EXCEPT !.state = IF whole THEN "predictions_frozen" ELSE "predicting",
                     !.kind = "none", !.token = 0, !.side = {}],
         sd, To(p, "idle"))

-----------------------------------------------------------------------------
(* The frozen set *)

\* freeze_prediction_set reads the row and the sides, and the files they name.
ReadRecords(p) ==
    /\ Reads(p, "records")
    /\ IF /\ Sealed /\ row.state = "predictions_frozen"
          /\ \A s \in Sides : sides[s].status = "completed"
          /\ Pair = IF row.bound THEN row.lineage ELSE row.set
       THEN /\ proc' = [proc EXCEPT ![p].step = "prepare", ![p].set = SetOf(sides)]
            /\ UNCHANGED <<tx, ahead, intent>> /\ RestOfLedger
       ELSE Raises(p)

PrepareFreeze(p) ==
    LET set == proc[p].set IN
    Operation(p, "prepare",
        /\ row.state = "predictions_frozen"
        /\ IF row.bound THEN row.set = set ELSE row.freeze \in {Pair, set},
        IF row.bound THEN row ELSE [row EXCEPT !.freeze = set],
        sides, To(p, "mark"))

\* The checksum file is created, or found with the same content.
WriteMarker(p) ==
    /\ proc[p].step = "mark"
    /\ markers' = markers \cup {proc[p].set}
    /\ Goes(p, "bind")
    /\ UNCHANGED <<row, sides, usedTokens, tx, ahead, intent, launched, crashes, labelReads>>

\* bind_prediction_set_hash: once, to the prepared set; then idempotent.
BindSet(p, step, next) ==
    LET set == proc[p].set IN
    Operation(p, step,
        /\ row.state = "predictions_frozen"
        /\ IF row.bound THEN row.set = set ELSE row.freeze = set,
        [row EXCEPT !.set = set, !.bound = TRUE, !.freeze = Pair],
        sides, next)

Bind(p) == BindSet(p, "bind", To(p, "idle")) \/ BindSet(p, "rebind", To(p, "reserve"))

-----------------------------------------------------------------------------
(* Evaluation *)

\* evaluate reads the set of the row, then initializes the ledger with it.
ReadSnapshot(p) ==
    /\ Reads(p, "snapshot")
    /\ IF Sealed /\ row.state # "absent"
       THEN /\ proc' = [proc EXCEPT ![p].step = "reinit", ![p].seen = row.set]
            /\ UNCHANGED <<tx, ahead, intent>> /\ RestOfLedger
       ELSE Raises(p)

Reinitialize(p) == Operation(p, "reinit", row.set = proc[p].seen, row, sides, To(p, "rebind"))

ReserveEvaluation(p) ==
    LET token == 2 * proc[p].id - 1 IN
    Operation(p, "reserve", row.state = "predictions_frozen" /\ row.bound /\ ~row.revealed,
        [row EXCEPT !.state = "prelabel_frozen", !.kind = "prelabel", !.token = token, !.side = {}],
        sides, WithLease(p, "open", token))

ReserveLabelOpen(p) ==
    LET token == 2 * proc[p].id IN
    Operation(p, "open",
        row.state = "prelabel_frozen" /\ ~Expired /\ HasLease(p, "prelabel", {}) /\ ~row.revealed,
        [row EXCEPT !.state = "labels_open", !.revealed = TRUE, !.kind = "label_open", !.token = token],
        sides, WithLease(p, "openbeat", token))

\* assert_label_open in the evaluator child, which outlives a killed parent.
ChildFence(p) ==
    LET open == /\ Sealed /\ row.state = "labels_open"
                /\ HasLease(p, "label_open", {}) /\ row.set = proc[p].set
    IN
    /\ Fencing(p) /\ ~proc[p].unlink /\ (intent => ~Sealed) /\ tx.by # {p}
    /\ proc' = [proc EXCEPT ![p].child = IF open THEN "fenced" ELSE "bad"]
    /\ UNCHANGED <<tx, ahead, intent>> /\ RestOfLedger

\* The labels are read and the artifact is written after the fence.
ChildScores(p) ==
    /\ proc[p].child = "fenced"
    /\ \E result \in {"good", "bad"} :
          /\ proc' = [proc EXCEPT ![p].child = result]
          /\ labelReads' = labelReads \cup {[id |-> proc[p].id, set |-> proc[p].set, result |-> result]}
    /\ UNCHANGED <<row, sides, usedTokens, tx, ahead, intent, markers, launched, crashes>>

ChildSeen(p) ==
    /\ proc[p].step = "wait" /\ proc[p].child \in {"good", "bad"}
    /\ IF proc[p].child = "good" THEN Goes(p, "finish") ELSE Raised(p)
    /\ UNCHANGED <<tx, ahead, intent>> /\ RestOfLedger

MarkEvaluationCompleted(p) ==
    Operation(p, "finish",
        row.state = "labels_open" /\ ~Expired /\ HasLease(p, "label_open", {}),
        [row EXCEPT !.state = "completed", !.scored = proc[p].set, !.kind = "none", !.token = 0],
        sides, To(p, "idle"))

-----------------------------------------------------------------------------
(* Failures and recovery *)

\* invalidate_pair fails the pair whatever its state, and whoever holds it.
InvalidatePair(p) == Operation(p, "invalidate", TRUE, FailedRow(row), FailedSides(sides), To(p, "idle"))

\* recover_expired and reconcile_pending_failure
RecoverExpired(p) ==
    Operation(p, "recover", TRUE, IF Expired THEN FailedRow(row) ELSE row,
              IF Expired THEN FailedSides(sides) ELSE sides, To(p, "idle"))

\* _reconcile_failure_intent, before every operation: the pair is failed in a
\* transaction of its own, then the file is removed.
ReconcileIntent(p) ==
    /\ intent /\ (proc[p].step \in Reading \cup Writing \/ Fencing(p)) /\ ~proc[p].unlink
    /\ tx = NoTx /\ Sealed
    /\ IF row.state # "failed"
       THEN Seals(p, FailedRow(row), FailedSides(sides), usedTokens, [To(p, proc[p].step) EXCEPT !.unlink = TRUE])
       ELSE intent' = FALSE /\ UNCHANGED <<tx, ahead, proc>> /\ RestOfLedger

UnlinkIntent(p) ==
    /\ proc[p].unlink
    /\ intent' = FALSE
    /\ proc' = [proc EXCEPT ![p].unlink = FALSE]
    /\ UNCHANGED <<tx, ahead>> /\ RestOfLedger

\* _assert_sealed fails: anchor and events differ.  A reader can meet another
\* process between its anchor entry and its commit.
Unsealed(p) ==
    /\ proc[p].step \in Writing \cup Reading /\ ~Sealed /\ tx = NoTx /\ ~proc[p].unlink
    /\ IF proc[p].step \in Writing THEN Raises(p) ELSE intent /\ Raises(p)

\* The writer lock is not free for five seconds.  The operation invalidates the
\* pair; if that cannot get the lock either, it leaves the failure intent (not
\* for a pair that does not exist).  snapshot and side_records have no guard.
Busy(p) ==
    /\ tx # NoTx /\ tx.by # {p}
    /\ \/ /\ proc[p].step \in Writing \ {"invalidate"}
          /\ Goes(p, "invalidate") /\ UNCHANGED intent
       \/ /\ proc[p].step = "invalidate"
          /\ Ends(p) /\ intent' = (intent \/ row.state # "absent")
       \/ /\ proc[p].step \in Reading /\ intent
          /\ Raised(p) /\ UNCHANGED intent
    /\ UNCHANGED <<tx, ahead>> /\ RestOfLedger

Commit(p) ==
    /\ tx # NoTx /\ tx.by = {p}
    /\ row' = [tx.row EXCEPT !.over = row.over /\ tx.row.token = row.token] /\ sides' = tx.sides /\ usedTokens' = tx.used
    /\ tx' = NoTx /\ ahead' = FALSE
    /\ proc' = [proc EXCEPT ![p] =
                  IF tx.next.step = "idle" THEN Unlaunched
                  ELSE [proc[p] EXCEPT !.step = tx.next.step, !.lease = tx.next.lease, !.unlink = tx.next.unlink,
                                       !.child = IF tx.next.spawn THEN "runs" ELSE proc[p].child]]
    /\ UNCHANGED <<intent, markers, launched, crashes, labelReads>>

\* commit() fails behind the anchor: SQLite rolls back, the anchor keeps its
\* entry.  The invalidation then meets a broken seal, so the intent is written.
\* Or the process dies there.
TornCommit(p) ==
    /\ TornCommits /\ tx # NoTx /\ tx.by = {p}
    /\ tx' = NoTx
    /\ Ends(p)
    /\ intent' \in {intent, row.state # "absent" \/ intent}
    /\ UNCHANGED ahead /\ RestOfLedger

\* A command is killed.  The evaluator child goes on.
KillCommand(p) ==
    /\ crashes < MaxCrashes /\ proc[p].step \notin {"idle", "orphan"} /\ (tx = NoTx \/ tx.by # {p})
    /\ crashes' = crashes + 1
    /\ proc' = [proc EXCEPT ![p] = IF proc[p].role = "evaluate" /\ proc[p].child \in {"runs", "fenced"}
                                   THEN [@ EXCEPT !.step = "orphan"] ELSE Unlaunched]
    /\ UNCHANGED <<row, sides, usedTokens, tx, ahead, intent, markers, launched, labelReads>>

OrphanEnds(p) ==
    /\ proc[p].step = "orphan" /\ proc[p].child \in {"good", "bad"}
    /\ Ends(p)
    /\ UNCHANGED <<tx, ahead, intent>> /\ RestOfLedger

LeaseLapses ==
    /\ row.token # 0 /\ ~row.over
    /\ row' = [row EXCEPT !.over = TRUE]
    /\ UNCHANGED <<sides, usedTokens, tx, ahead, intent, markers, proc, launched, crashes, labelReads>>

-----------------------------------------------------------------------------
(* Commands *)

\* Slots are alike: the first idle one is taken.
Free(p) == proc[p].step = "idle" /\ \A q \in LedgerProcs : proc[q].step = "idle" => p <= q

Launch(p, started) ==
    /\ Free(p) /\ launched < MaxLaunches
    /\ launched' = launched + 1
    /\ proc' = [proc EXCEPT ![p] = [started EXCEPT !.id = launched + 1]]
    /\ UNCHANGED <<row, sides, usedTokens, tx, ahead, intent, markers, crashes, labelReads>>

LaunchPredict(p) == \E s \in Sides, o \in OwnerTokens \cup {0} :
    Launch(p, [Unlaunched EXCEPT !.role = "predict", !.side = {s}, !.owner = o,
                                 !.step = IF o = 0 THEN "init" ELSE "reauthorize"])

LaunchFreeze(p) == Launch(p, [Unlaunched EXCEPT !.role = "freeze", !.step = "records"])

\* build_evaluator_launch needs a root with its checksum file.
LaunchEvaluate(p) == \E set \in markers, o \in OwnerTokens \cup {0} :
    Launch(p, [Unlaunched EXCEPT !.role = "evaluate", !.set = set, !.owner = o,
                                 !.step = IF o = 0 THEN "snapshot" ELSE "reauthorize"])

\* The custodian's recovery is not counted: it can be repeated for ever.
LaunchRecovery(p) ==
    /\ Free(p) /\ (Expired \/ intent) /\ \A q \in LedgerProcs : proc[q].role # "recover"
    /\ proc' = [proc EXCEPT ![p] = [Unlaunched EXCEPT !.role = "recover", !.step = "recover"]]
    /\ UNCHANGED <<tx, ahead, intent>> /\ RestOfLedger

LedgerInit ==
    /\ row = FreshRow("absent", Pair, 0) /\ sides = NoSides /\ usedTokens = {}
    /\ tx = NoTx /\ ahead = FALSE /\ intent = FALSE /\ markers = {}
    /\ proc = [p \in LedgerProcs |-> Unlaunched] /\ launched = 0 /\ crashes = 0 /\ labelReads = {}

ProcStep(p) ==
    \/ Reauthorize(p) \/ Initialize(p) \/ RecordSideStarted(p) \/ LookAndSpawn(p) \/ PredictionSeen(p)
    \/ RecordSideCompleted(p) \/ ReadRecords(p) \/ PrepareFreeze(p) \/ WriteMarker(p) \/ Bind(p)
    \/ ReadSnapshot(p) \/ Reinitialize(p) \/ ReserveEvaluation(p) \/ ReserveLabelOpen(p) \/ ChildSeen(p)
    \/ MarkEvaluationCompleted(p) \/ InvalidatePair(p) \/ RecoverExpired(p) \/ ReconcileIntent(p)
    \/ UnlinkIntent(p) \/ Unsealed(p) \/ Commit(p) \/ OrphanEnds(p)
    \/ (proc[p].step # "running" /\ Heartbeat(p))

ChildStep(p) == PredictionEnds(p) \/ ChildFence(p) \/ ChildScores(p)

LedgerNext ==
    \/ \E p \in LedgerProcs : ProcStep(p) \/ ChildStep(p) \/ Heartbeat(p) \/ Busy(p) \/ TornCommit(p) \/ KillCommand(p)
    \/ \E p \in LedgerProcs : LaunchPredict(p) \/ LaunchFreeze(p) \/ LaunchEvaluate(p) \/ LaunchRecovery(p)
    \/ LeaseLapses

LedgerFairness ==
    /\ \A p \in LedgerProcs : WF_ledgerVars(ProcStep(p)) /\ WF_ledgerVars(ChildStep(p))
    /\ WF_ledgerVars(\E p \in LedgerProcs : LaunchRecovery(p))

LedgerSpec == LedgerInit /\ [][LedgerNext]_ledgerVars /\ LedgerFairness

-----------------------------------------------------------------------------
(* Properties *)

\* Type invariant; a lease exists exactly in the in-flight states, except
\* between two sides.
LedgerTypeOK ==
    /\ row.state \in LedgerStates /\ row.set \in SetIds /\ row.token \in Tokens /\ row.epoch \in Nat
    /\ \A s \in Sides : sides[s].status \in {"none", "started", "completed", "invalidated"}
    /\ \A p \in LedgerProcs : proc[p].step \in Steps \cup {"orphan"}
    /\ (row.token # 0) => row.state \in InFlight
    /\ (row.state \in InFlight /\ row.token = 0)
         => row.state = "predicting" /\ \A s \in Sides : sides[s].status # "started"

\* The labels of a pair are read by one evaluation ever, over failures, expired
\* leases, reauthorizations and evaluators that outlive their command.
LabelsReadOnce == Cardinality(labelReads) <= 1

\* A side is completed by the process that started it: the bundle of a process
\* whose pair was failed and reauthorized meanwhile is not taken.
BundleFromItsRun == \A s \in Sides : sides[s].status = "completed" => sides[s].bundle = sides[s].dir

\* What an evaluation scored is the bound set, by a child that read the labels and wrote its artifact.
\* In the first epoch it is made of the bundles the sides wrote; after a
\* reauthorization a freeze that began before it can still bind the old set.
ScoredIsFrozen ==
    row.state = "completed" =>
        /\ row.scored = row.set /\ row.set \in markers
        /\ row.epoch = 0 => row.set = SetOf(sides)
        /\ \E r \in labelReads : r.set = row.scored /\ r.result = "good"

\* "a custodian recovery operation converges an expired lease to
\* FAILED_NON_RESUMABLE", from every state.
ExpiredConverges == Expired ~> ~Expired

\* Every command ends, whoever else works on the ledger and whatever fails.
CommandsEnd == \A p \in LedgerProcs : proc[p].step # "idle" ~> proc[p].step = "idle"

\* Nothing hangs: neither the ledger on an expired lease nor a command on the ledger
\* (recover_expired, reconcile_pending_failure, _launch_predict).
LedgerSettles == ExpiredConverges /\ CommandsEnd

\* The ledger scores what was predicted: bundles come from the process that holds the
\* side and the scored set is the frozen one (record_side_completed,
\* prepare_prediction_set_freeze).
LedgerConsistent == LedgerTypeOK /\ BundleFromItsRun /\ ScoredIsFrozen
=============================================================================

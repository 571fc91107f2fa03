------------------------- MODULE SqliteStoreProofs -------------------------
(***************************************************************************)
(* Proofs about SqliteStore, for any runs, processes, phases, tool calls,  *)
(* leases and attempts: the rows of a run fit together, and how a run      *)
(* ended stays.                                                            *)
(*                                                                         *)
(* The argument: what a call read before its transaction can be out of     *)
(* date when it writes, but a worker's claim is either still the last one, *)
(* and then nobody else has moved the run on (Live), or it never becomes   *)
(* valid again.  Audits and repairs carry numbers instead: numbers only    *)
(* grow, so a number that is still free is the next one.                   *)
(***************************************************************************)
EXTENDS SqliteStore, FiniteSetTheorems, SequenceTheorems, TLAPS

-----------------------------------------------------------------------------
(* Typing *)

RunStatuses == SqlOpen \cup SqlEnded \cup {"absent"}
RowRecords  == [status : RunStatuses, owner : SqlWorkers \cup {0}, version : Nat, expires : Nat,
                seq : Nat, phase : 0..SqlPhases, turns : 0..SqlTurns,
                frozen : Unfrozen..SqlPhases, contract : {"sound", "damaged", "repaired"},
                v11 : BOOLEAN]
AttemptStatuses == SqlEnded \cup {"running", "interrupted"}
EventKinds  == {"work", "tool", "phase", "checkpoint", "attempt.completed", "rejected",
                "run.interrupted", "attempt.interrupted"} \cup EndEvent
LogRows     == [seq : Nat, kind : EventKinds, attempt : Nat]
Checkpoints == [phase : 1..SqlPhases, attempt : Nat, seq : Nat, turns : 0..SqlTurns]
ToolStates  == ToolOver \cup {"none", "running"}
Investigations == [owner : SqlRuns \cup {0}, status : {"pending", "running"} \cup SqlEnded,
                   done : 0..SqlPhases,
                   actions : {"none", "proposed", "approved", "rejected", "skipped", "done"}]
Claims      == [run : SqlRuns, owner : SqlWorkers, version : Nat, attempt : Nat]

AcquireCalls  == [op : {"acquire"}, step : {"write"}, run : SqlRuns,
                  status : {"created", "interrupted"}, number : Nat, at : Nat]
EventCalls    == [op : {"event"}, step : {"check", "write"}, by : Claims, at : Nat]
ToolCalls     == [op : {"tool"}, step : {"check", "write"}, by : Claims, at : Nat, id : SqlCalls,
                  outcome : {"running", "success"}, read : Investigations]
PhaseCalls    == [op : {"phase"}, step : {"check", "write"}, by : Claims, at : Nat,
                  phase : 1..SqlPhases, base : Investigations, turns : 0..SqlTurns, tries : Nat]
TerminalCalls == [op : {"terminal"}, step : {"check", "write"}, by : Claims, at : Nat,
                  status : SqlHeld, target : SqlEnded, read : Investigations]
CancelCalls   == [op : {"cancel"}, step : {"check", "write"}, run : SqlRuns, owns : BOOLEAN,
                  view : Unfrozen..SqlPhases, status : {"absent", "created", "running"}]
AuditCalls    == [op : {"audit"}, step : {"write"}, run : SqlRuns, at : Nat, attempt : Nat,
                  seen : RowRecords]
RejectCalls   == [op : {"reject"}, step : {"write"}, run : SqlRuns, attempt : Nat]
RepairCalls   == [op : {"repair"}, step : {"write"}, run : SqlRuns, seen : RowRecords,
                  read : Investigations, open : SUBSET Nat]
ClaimedCalls  == EventCalls \cup ToolCalls \cup PhaseCalls \cup TerminalCalls
StoreCalls    == {NoCall} \cup AcquireCalls \cup ClaimedCalls \cup CancelCalls \cup AuditCalls
                     \cup RejectCalls \cup RepairCalls

TablesTyped ==
    /\ row \in [SqlRuns -> RowRecords]
    /\ att \in [SqlRuns -> Seq(AttemptStatuses)]
    /\ log \in [SqlRuns -> SUBSET LogRows]
    /\ ckpt \in [SqlRuns -> SUBSET Checkpoints]
    /\ tool \in [SqlRuns -> [SqlCalls -> ToolStates]]
    /\ inv \in Investigations
SqlTyped ==
    /\ TablesTyped
    /\ clock \in Nat
    /\ claim \in [SqlWorkers -> Claims \cup {NoClaim}]
    /\ txn \in [Threads -> StoreCalls]

-----------------------------------------------------------------------------
(* The invariant *)

Held(r) == row[r].status \in SqlHeld
Open(r) == row[r].status \in SqlOpen
NoDamageYet == \A r \in SqlRuns : row[r].contract = "sound"

LogFits(r) ==
    /\ {e.seq : e \in log[r]} = 1..row[r].seq
    /\ \A e, f \in log[r] : e.seq = f.seq => e = f
    /\ \A e \in log[r] : e.kind # "rejected" => e.attempt <= Len(att[r])
    /\ \A e, f \in log[r] :
          e.kind # "rejected" /\ f.kind # "rejected" /\ e.seq < f.seq => e.attempt <= f.attempt
    /\ \A e \in log[r] : e.kind \in EndEvent => row[r].status \in SqlEnded
    /\ \A e, f \in log[r] : e.kind \in EndEvent /\ f.kind \in EndEvent => e = f

CheckpointsFit(r) ==
    /\ {k.phase : k \in ckpt[r]} = 1..row[r].phase
    /\ \A k, m \in ckpt[r] : k.phase = m.phase => k = m
    /\ \A k \in ckpt[r] :
          /\ [seq |-> k.seq, kind |-> "checkpoint", attempt |-> k.attempt] \in log[r]
          /\ k.turns >= row[r].turns

BudgetFits(r) ==
    /\ V11(r) => Cardinality(SqlConsumed(r)) <= SqlToolBudget
    /\ row[r].status = "absent" => SqlConsumed(r) = {}

StatusFits(r) ==
    /\ row[r].owner # 0 <=> Held(r)
    /\ Held(r) => OpenAttempts(r) = {Len(att[r])}
    /\ ~Held(r) => OpenAttempts(r) = {}
    /\ row[r].contract = "repaired" => row[r].status = "failed"
    /\ row[r].status \in {"absent", "created"} => row[r].phase = 0
    /\ row[r].status \in SqlEnded /\ NoDamageYet =>
          row[r].frozen # Unfrozen /\ (row[r].phase > 0 => row[r].frozen = row[r].phase)

RunFits(r) == LogFits(r) /\ CheckpointsFit(r) /\ BudgetFits(r) /\ StatusFits(r)

OneOpen == \A q, r \in SqlRuns : Open(q) /\ Open(r) => q = r

\* A record shows what run r has committed.
Shows(record, r) ==
    row[r].phase > 0 => (V11(r) => record.owner = r) /\ record.done = row[r].phase
ProjectionFits == NoDamageYet => \A r \in SqlRuns : Open(r) => Shows(inv, r)

\* A claim that still has the version of its run is the last one.
ClaimStands(by, w) ==
    LET r == by.run IN
    /\ by.owner = w
    /\ row[r].status # "absent"
    /\ by.version <= row[r].version
    /\ by.version = row[r].version => row[r].owner \in {0, w} /\ by.attempt = Len(att[r])
Live(by) == row[by.run].version = by.version /\ row[by.run].owner = by.owner

ToolCallFits(c) ==
    LET r == c.by.run IN
    Live(c.by) =>
        /\ c.outcome = "success" => tool[r][c.id] # "none"
        /\ c.step = "write" => Admits(r, c.id, c.outcome)
        /\ c.step = "write" /\ NoDamageYet => c.read.owner = inv.owner /\ c.read.done = inv.done
PhaseCallFits(c) ==
    LET r == c.by.run IN
    /\ c.turns >= row[r].turns
    /\ Live(c.by) /\ c.step = "write" => InOrder(c)
TerminalCallFits(c) == Live(c.by) /\ NoDamageYet => Shows(c.read, c.by.run)
CancelCallFits(c) ==
    /\ row[c.run].status # "absent"
    /\ row[c.run].status = "created" => c.view # Unfrozen
    /\ c.step = "write" => c.status # "absent"
AuditCallFits(c) ==
    /\ c.seen.status \in SqlHeld
    /\ c.seen.seq <= row[c.run].seq
    /\ c.seen.version <= row[c.run].version
    /\ c.seen.version = row[c.run].version => c.attempt = Len(att[c.run])
RepairCallFits(c) ==
    /\ row[c.run].contract # "sound"
    /\ c.seen.seq <= row[c.run].seq
    /\ c.open = {} => ~Held(c.run)
    /\ c.open # {} => c.open = {Len(att[c.run])} /\ (row[c.run].seq = c.seen.seq => Held(c.run))

CallFits(c, t) ==
    /\ c.op \in {"event", "tool", "phase", "terminal"} => ClaimStands(c.by, t)
    /\ c.op = "tool"     => ToolCallFits(c)
    /\ c.op = "phase"    => PhaseCallFits(c)
    /\ c.op = "terminal" => TerminalCallFits(c)
    /\ c.op = "cancel"   => CancelCallFits(c)
    /\ c.op = "audit"    => AuditCallFits(c)
    /\ c.op = "repair"   => RepairCallFits(c)

RunsFit   == \A r \in SqlRuns : RunFits(r)
ClaimsFit == \A w \in SqlWorkers : claim[w] # NoClaim => ClaimStands(claim[w], w)
CallsFit  == \A t \in Threads : CallFits(txn[t], t)
SqlInv    == SqlTyped /\ RunsFit /\ OneOpen /\ ProjectionFits /\ ClaimsFit /\ CallsFit

-----------------------------------------------------------------------------
(* The invariant implies the property, and holds initially *)

LEMMA Counted ==
    ASSUME NEW S, NEW n \in Nat, NEW g \in [S -> 1..n],
           \A i \in 1..n : \E e \in S : g[e] = i,
           \A e, f \in S : g[e] = g[f] => e = f
    PROVE  Cardinality(S) = n
<1> DEFINE h == [i \in 1..n |-> CHOOSE e \in S : g[e] = i]
<1>1. \A i \in 1..n : h[i] \in S /\ g[h[i]] = i
  OBVIOUS
<1>2. h \in [1..n -> S]
  BY <1>1
<1>3. h \in Injection(1..n, S)
  <2>1. \A i, j \in 1..n : h[i] = h[j] => i = j
    BY <1>1
  <2> QED
    BY <1>2, <2>1 DEF Injection, IsInjective
<1>4. h \in Surjection(1..n, S)
  <2>1. \A e \in S : g[e] \in 1..n /\ h[g[e]] = e
    BY <1>1
  <2> QED
    BY <1>2, <2>1, Zenon DEF Surjection
<1>5. ExistsBijection(1..n, S)
  BY <1>3, <1>4, Zenon DEF ExistsBijection, Bijection
<1>6. IsFiniteSet(1..n) /\ Cardinality(1..n) = n
  BY FS_Interval
<1> QED
  BY <1>5, <1>6, FS_Bijection

LEMMA AtMostOne ==
    ASSUME NEW S, \A e, f \in S : e = f
    PROVE  Cardinality(S) <= 1
<1>1. CASE S = {}
  BY <1>1, FS_EmptySet
<1>2. CASE S # {}
  <2>1. PICK e \in S : TRUE
    BY <1>2
  <2>2. S = {e}
    BY <2>1
  <2> QED
    BY <2>2, FS_Singleton
<1> QED
  BY <1>1, <1>2

\* What the runs check follows from the invariant.
LEMMA InvFitsRows == SqlInv => SqlRowsConsistent
<1> SUFFICES ASSUME SqlInv PROVE SqlRowsConsistent
  OBVIOUS
<1>0. TablesTyped
  BY DEF SqlInv, SqlTyped
<1>1. SqlTypeOK
  <2>1. ASSUME NEW r \in SqlRuns
        PROVE  /\ row[r].status \in SqlOpen \cup SqlEnded \cup {"absent"}
               /\ row[r].owner \in SqlWorkers \cup {0}
               /\ row[r].owner # 0 <=> row[r].status \in SqlHeld
               /\ row[r].phase \in 0..SqlPhases /\ row[r].turns \in 0..SqlTurns
               /\ row[r].frozen \in Unfrozen..SqlPhases
               /\ att[r] \in Seq(SqlEnded \cup {"running", "interrupted"})
               /\ tool[r] \in [SqlCalls -> ToolOver \cup {"none", "running"}]
    <3>1. row[r] \in RowRecords /\ att[r] \in Seq(AttemptStatuses) /\ tool[r] \in [SqlCalls -> ToolStates]
      BY <1>0 DEF TablesTyped
    <3>2. row[r].owner # 0 <=> row[r].status \in SqlHeld
      BY DEF SqlInv, RunsFit, RunFits, StatusFits, Held
    <3> QED
      BY <3>1, <3>2 DEF RowRecords, AttemptStatuses, ToolStates, RunStatuses
  <2>2. inv.owner \in SqlRuns \cup {0} /\ inv.done \in 0..SqlPhases
    BY <1>0 DEF TablesTyped, Investigations
  <2> QED
    BY <2>1, <2>2 DEF SqlTypeOK
<1>2. ASSUME NEW r \in SqlRuns
      PROVE  Cardinality(log[r]) = row[r].seq
  <2> DEFINE g == [e \in log[r] |-> e.seq]
  <2>1. row[r].seq \in Nat
    BY <1>0 DEF TablesTyped, RowRecords
  <2>2. /\ {e.seq : e \in log[r]} = 1..row[r].seq
        /\ \A e, f \in log[r] : e.seq = f.seq => e = f
    BY DEF SqlInv, RunsFit, RunFits, LogFits
  <2>3. g \in [log[r] -> 1..row[r].seq]
    BY <2>2
  <2>4. \A i \in 1..row[r].seq : \E e \in log[r] : g[e] = i
    BY <2>2
  <2>5. \A e, f \in log[r] : g[e] = g[f] => e = f
    BY <2>2
  <2> HIDE DEF g
  <2> QED
    BY <2>1, <2>3, <2>4, <2>5, Counted
<1>3. ASSUME NEW r \in SqlRuns
      PROVE  Cardinality(ckpt[r]) = row[r].phase
  <2> DEFINE g == [k \in ckpt[r] |-> k.phase]
  <2>1. row[r].phase \in Nat
    BY <1>0 DEF TablesTyped, RowRecords
  <2>2. /\ {k.phase : k \in ckpt[r]} = 1..row[r].phase
        /\ \A k, m \in ckpt[r] : k.phase = m.phase => k = m
    BY DEF SqlInv, RunsFit, RunFits, CheckpointsFit
  <2>3. g \in [ckpt[r] -> 1..row[r].phase]
    BY <2>2
  <2>4. \A i \in 1..row[r].phase : \E k \in ckpt[r] : g[k] = i
    BY <2>2
  <2>5. \A k, m \in ckpt[r] : g[k] = g[m] => k = m
    BY <2>2
  <2> HIDE DEF g
  <2> QED
    BY <2>1, <2>3, <2>4, <2>5, Counted
<1>4. SqlLogIsDense /\ SqlLogInAttemptOrder
  BY <1>2 DEF SqlInv, RunsFit, RunFits, LogFits, SqlLogIsDense, SqlLogInAttemptOrder
<1>5. SqlAttemptFollowsRun
  <2>1. ASSUME NEW r \in SqlRuns
        PROVE  Cardinality(OpenAttempts(r)) = IF row[r].status \in SqlHeld THEN 1 ELSE 0
    <3>1. /\ row[r].status \in SqlHeld => OpenAttempts(r) = {Len(att[r])}
          /\ row[r].status \notin SqlHeld => OpenAttempts(r) = {}
      BY DEF SqlInv, RunsFit, RunFits, StatusFits, Held
    <3> QED
      BY <3>1, FS_EmptySet, FS_Singleton
  <2> QED
    BY <2>1 DEF SqlAttemptFollowsRun
<1>6. SqlCheckpointsMatchLog
  BY <1>3 DEF SqlInv, RunsFit, RunFits, CheckpointsFit, SqlCheckpointsMatchLog
<1>7. SqlWithinBudget
  BY DEF SqlInv, RunsFit, RunFits, BudgetFits, SqlWithinBudget
<1>8. SqlEndsOnce
  <2>1. ASSUME NEW r \in SqlRuns
        PROVE  Cardinality({e \in log[r] : e.kind \in EndEvent}) <= 1
    <3>1. \A e, f \in {d \in log[r] : d.kind \in EndEvent} : e = f
      BY DEF SqlInv, RunsFit, RunFits, LogFits
    <3> QED
      BY <3>1, AtMostOne
  <2> QED
    BY <2>1 DEF SqlEndsOnce
<1>9. SqlEndedIsFrozen
  BY DEF SqlInv, RunsFit, RunFits, StatusFits, SqlEndedIsFrozen, NoDamageYet
<1> QED
  BY <1>1, <1>4, <1>5, <1>6, <1>7, <1>8, <1>9 DEF SqlRowsConsistent

LEMMA SqlInitFits == SqlInit => SqlInv
<1> SUFFICES ASSUME SqlInit PROVE SqlInv
  OBVIOUS
<1>1. \A r \in SqlRuns : row[r] = NewRow /\ att[r] = <<>> /\ log[r] = {} /\ ckpt[r] = {}
                          /\ tool[r] = NoTool
  BY DEF SqlInit
<1>2. /\ NewRow \in RowRecords /\ NewRow.status = "absent" /\ NewRow.owner = 0 /\ NewRow.seq = 0
      /\ NewRow.phase = 0 /\ NewRow.contract = "sound"
  BY SqlAssumption DEF NewRow, RowRecords, RunStatuses, Unfrozen
<1>3. NoTool \in [SqlCalls -> ToolStates] /\ NewRecord \in Investigations
  BY SqlAssumption DEF NoTool, ToolStates, NewRecord, Investigations
<1>4. SqlTyped
  <2>1. TablesTyped
    BY <1>1, <1>2, <1>3 DEF SqlInit, TablesTyped
  <2>2. claim \in [SqlWorkers -> Claims \cup {NoClaim}] /\ txn \in [Threads -> StoreCalls]
    BY DEF SqlInit, StoreCalls
  <2> QED
    BY <2>1, <2>2 DEF SqlInit, SqlTyped
<1>5. ASSUME NEW r \in SqlRuns PROVE RunFits(r)
  <2>1. /\ row[r].status = "absent" /\ row[r].owner = 0 /\ row[r].seq = 0 /\ row[r].phase = 0
        /\ row[r].contract = "sound" /\ att[r] = <<>> /\ log[r] = {} /\ ckpt[r] = {}
    BY <1>1, <1>2
  <2>2. SqlConsumed(r) = {}
    BY <1>1 DEF SqlConsumed, NoTool
  <2>3. BudgetFits(r)
    BY <2>2, FS_EmptySet, SqlAssumption DEF BudgetFits
  <2>4. OpenAttempts(r) = {}
    BY <2>1 DEF OpenAttempts
  <2>5. StatusFits(r)
    BY <2>1, <2>4 DEF StatusFits, Held, SqlHeld, SqlEnded
  <2>6. LogFits(r) /\ CheckpointsFit(r)
    BY <2>1 DEF LogFits, CheckpointsFit
  <2> QED
    BY <2>3, <2>5, <2>6 DEF RunFits
<1>6. \A r \in SqlRuns : ~Open(r)
  BY <1>1, <1>2 DEF Open, SqlOpen, SqlHeld
<1>7. ClaimsFit /\ CallsFit
  BY DEF ClaimsFit, CallsFit, SqlInit, CallFits, NoCall
<1> QED
  BY <1>4, <1>5, <1>6, <1>7 DEF SqlInv, RunsFit, OneOpen, ProjectionFits

-----------------------------------------------------------------------------
(* What a step may do to a run, and what it leaves of the others' calls *)

\* What every step keeps of run r: versions, numbers and the end only move on.
Moves(r) ==
    /\ row'[r].version >= row[r].version
    /\ row'[r].version = row[r].version =>
          row'[r].owner \in {0, row[r].owner} /\ Len(att'[r]) = Len(att[r])
    /\ row'[r].seq >= row[r].seq
    /\ row'[r].turns <= row[r].turns
    /\ row[r].status # "absent" => row'[r].status # "absent" /\ row'[r].v11 = row[r].v11
    /\ row'[r].status = "created" => row[r].status \in {"absent", "created"}
    /\ row[r].contract # "sound" =>
          /\ row'[r].contract # "sound"
          /\ Len(att'[r]) = Len(att[r])
          /\ row'[r].status \in SqlHeld => row[r].status \in SqlHeld
    /\ row[r].status \in SqlHeld /\ row'[r].seq = row[r].seq => row'[r].status \in SqlHeld

\* What a step leaves of a run that t holds before and after it.
Leaves(r, t) ==
    row[r].owner = t /\ row'[r].owner = t /\ row'[r].version = row[r].version =>
        /\ row'[r].phase = row[r].phase /\ tool'[r] = tool[r]
        /\ NoDamageYet' => inv'.owner = inv.owner /\ inv'.done = inv.done

LEMMA RowOf ==
    ASSUME TablesTyped, NEW r \in SqlRuns
    PROVE  /\ row[r] \in RowRecords /\ att[r] \in Seq(AttemptStatuses) /\ log[r] \subseteq LogRows
           /\ ckpt[r] \subseteq Checkpoints /\ tool[r] \in [SqlCalls -> ToolStates]
           /\ row[r].version \in Nat /\ row[r].seq \in Nat /\ row[r].turns \in 0..SqlTurns
           /\ row[r].phase \in 0..SqlPhases /\ row[r].expires \in Nat
           /\ Len(att[r]) \in Nat
BY DEF TablesTyped, RowRecords

LEMMA ClaimKept ==
    ASSUME TablesTyped, TablesTyped', NEW by \in Claims, NEW w, ClaimStands(by, w), Moves(by.run)
    PROVE  /\ ClaimStands(by, w)'
           /\ by.version = row'[by.run].version => by.version = row[by.run].version
           /\ Live(by)' /\ w # 0 => Live(by)
<1> DEFINE r == by.run
<1>1. r \in SqlRuns /\ by.version \in Nat
  BY DEF Claims
<1>2. row[r].version \in Nat /\ row'[r].version \in Nat /\ row'[r].version >= row[r].version
  BY <1>1, RowOf DEF Moves, TablesTyped, RowRecords
<1>3. by.version <= row[r].version
  BY DEF ClaimStands
<1>4. by.version = row'[r].version => by.version = row[r].version /\ row'[r].version = row[r].version
  BY <1>1, <1>2, <1>3
<1>5. by.version <= row'[r].version
  BY <1>1, <1>2, <1>3
<1>6. by.owner = w /\ row'[r].status # "absent"
  BY DEF ClaimStands, Moves
<1>7. by.version = row'[r].version => row'[r].owner \in {0, w} /\ by.attempt = Len(att'[r])
  BY <1>4 DEF ClaimStands, Moves
<1>8. Live(by)' /\ w # 0 => Live(by)
  BY <1>4, <1>6 DEF Live, ClaimStands, Moves
<1> QED
  BY <1>4, <1>5, <1>6, <1>7, <1>8 DEF ClaimStands

\* The call of a thread that takes no step still fits.
LEMMA CallKept ==
    ASSUME TablesTyped, TablesTyped', NEW t \in Threads, NEW c \in StoreCalls, CallFits(c, t),
           NoDamageYet' => NoDamageYet,
           \A r \in SqlRuns : Moves(r) /\ Leaves(r, t)
    PROVE  CallFits(c, t)'
<1>1. CASE c = NoCall
  BY <1>1 DEF CallFits, NoCall
<1>2. CASE c \in AcquireCalls \cup RejectCalls
  BY <1>2 DEF CallFits, AcquireCalls, RejectCalls
<1>3. CASE c \in ClaimedCalls
  <2> DEFINE r == c.by.run
  <2>1. /\ c.by \in Claims /\ r \in SqlRuns /\ c.by.owner \in SqlWorkers
        /\ c.op \in {"event", "tool", "phase", "terminal"}
    BY <1>3 DEF ClaimedCalls, EventCalls, ToolCalls, PhaseCalls, TerminalCalls, Claims
  <2>2. ClaimStands(c.by, t) /\ t # 0
    BY <2>1, SqlAssumption DEF CallFits, ClaimStands
  <2>3. Moves(r) /\ Leaves(r, t)
    BY <2>1
  <2>4. ClaimStands(c.by, t)' /\ (Live(c.by)' => Live(c.by))
    BY <2>1, <2>2, <2>3, ClaimKept
  <2>5. Live(c.by)' =>
            /\ row'[r].phase = row[r].phase /\ tool'[r] = tool[r] /\ row'[r].v11 = row[r].v11
            /\ NoDamageYet' => inv'.owner = inv.owner /\ inv'.done = inv.done
    BY <2>2, <2>3, <2>4 DEF Live, ClaimStands, Leaves, Moves
  <2>6. CASE c.op = "event"
    BY <2>4, <2>6 DEF CallFits
  <2>7. CASE c.op = "tool"
    <3>1. ToolCallFits(c)
      BY <2>7 DEF CallFits
    <3>2. ToolCallFits(c)'
      BY <2>4, <2>5, <3>1 DEF ToolCallFits, Admits, V11, SqlConsumed
    <3> QED
      BY <2>4, <2>7, <3>2 DEF CallFits
  <2>8. CASE c.op = "phase"
    <3>1. PhaseCallFits(c)
      BY <2>8 DEF CallFits
    <3>2. c.turns \in Nat /\ row[r].turns \in Nat /\ row'[r].turns \in Nat
      <4>1. c.turns \in 0..SqlTurns
        BY <1>3, <2>8 DEF ClaimedCalls, EventCalls, ToolCalls, PhaseCalls, TerminalCalls
      <4>2. row[r].turns \in 0..SqlTurns /\ row'[r].turns \in 0..SqlTurns
        BY <2>1 DEF TablesTyped, RowRecords
      <4> QED
        BY <4>1, <4>2, SqlAssumption
    <3>3. c.turns >= row'[r].turns
      BY <2>3, <3>1, <3>2 DEF PhaseCallFits, Moves
    <3>4. PhaseCallFits(c)'
      BY <2>4, <2>5, <3>1, <3>3 DEF PhaseCallFits, InOrder
    <3> QED
      BY <2>4, <2>8, <3>4 DEF CallFits
  <2>9. CASE c.op = "terminal"
    <3>1. TerminalCallFits(c)
      BY <2>9 DEF CallFits
    <3>2. TerminalCallFits(c)'
      BY <2>4, <2>5, <3>1 DEF TerminalCallFits, Shows, V11
    <3> QED
      BY <2>4, <2>9, <3>2 DEF CallFits
  <2> QED
    BY <2>1, <2>6, <2>7, <2>8, <2>9
<1>4. CASE c \in CancelCalls
  <2>1. c.op = "cancel" /\ c.run \in SqlRuns
    BY <1>4 DEF CancelCalls
  <2>2. CancelCallFits(c) /\ Moves(c.run)
    BY <2>1 DEF CallFits
  <2>3. CancelCallFits(c)'
    BY <2>2 DEF CancelCallFits, Moves
  <2> QED
    BY <2>1, <2>3 DEF CallFits
<1>5. CASE c \in AuditCalls
  <2>1. c.op = "audit" /\ c.run \in SqlRuns /\ c.seen.seq \in Nat /\ c.seen.version \in Nat
    BY <1>5 DEF AuditCalls, RowRecords
  <2>2. AuditCallFits(c) /\ Moves(c.run)
    BY <2>1 DEF CallFits
  <2>3. /\ row[c.run].seq \in Nat /\ row'[c.run].seq \in Nat
        /\ row[c.run].version \in Nat /\ row'[c.run].version \in Nat
    BY <2>1 DEF TablesTyped, RowRecords
  <2>4. AuditCallFits(c)'
    BY <2>1, <2>2, <2>3 DEF AuditCallFits, Moves
  <2> QED
    BY <2>1, <2>4 DEF CallFits
<1>6. CASE c \in RepairCalls
  <2>1. c.op = "repair" /\ c.run \in SqlRuns /\ c.seen.seq \in Nat
    BY <1>6 DEF RepairCalls, RowRecords
  <2>2. RepairCallFits(c) /\ Moves(c.run)
    BY <2>1 DEF CallFits
  <2>3. row[c.run].seq \in Nat /\ row'[c.run].seq \in Nat
    BY <2>1 DEF TablesTyped, RowRecords
  <2>4. RepairCallFits(c)'
    BY <2>1, <2>2, <2>3 DEF RepairCallFits, Moves, Held
  <2> QED
    BY <2>1, <2>4 DEF CallFits
<1> QED
  BY <1>1, <1>2, <1>3, <1>4, <1>5, <1>6 DEF StoreCalls

\* A run whose rows a step leaves alone still fits.
LEMMA RunKept ==
    ASSUME NEW r \in SqlRuns, RunFits(r), NoDamageYet' => NoDamageYet,
           row'[r] = row[r], att'[r] = att[r], log'[r] = log[r], ckpt'[r] = ckpt[r],
           tool'[r] = tool[r]
    PROVE  RunFits(r)'
<1>1. LogFits(r)' /\ CheckpointsFit(r)'
  BY DEF RunFits, LogFits, CheckpointsFit
<1>2. BudgetFits(r)'
  BY DEF RunFits, BudgetFits, SqlConsumed, V11
<1>3. StatusFits(r)'
  BY DEF RunFits, StatusFits, Held, OpenAttempts
<1> QED
  BY <1>1, <1>2, <1>3 DEF RunFits

-----------------------------------------------------------------------------
(* The log *)

NewRows == [kind : EventKinds, attempt : Nat]

LEMMA NumberedAre ==
    ASSUME NEW es \in Seq(NewRows), NEW from \in Nat, NEW e \in Numbered(from, es)
    PROVE  /\ e \in LogRows
           /\ \E i \in 1..Len(es) : e.seq = from + i /\ e.kind = es[i].kind /\ e.attempt = es[i].attempt
<1>1. PICK i \in DOMAIN es : e = [seq |-> from + i, kind |-> es[i].kind, attempt |-> es[i].attempt]
  BY DEF Numbered
<1>2. i \in 1..Len(es) /\ es[i] \in NewRows /\ Len(es) \in Nat
  BY <1>1
<1> QED
  BY <1>1, <1>2 DEF NewRows, LogRows

\* New numbers that the unique index accepts follow the last one.
LEMMA FreeIsNext ==
    ASSUME TablesTyped, NEW r \in SqlRuns, LogFits(r), NEW from \in Nat, from <= row[r].seq,
           NEW n \in Nat \ {0}, NumbersFree(r, from, n)
    PROVE  from = row[r].seq
<1>1. row[r].seq \in Nat
  BY RowOf
<1> SUFFICES ASSUME from < row[r].seq PROVE FALSE
  BY <1>1
<1>2. from + 1 \in 1..row[r].seq
  BY <1>1
<1>3. PICK e \in log[r] : e.seq = from + 1
  BY <1>2 DEF LogFits
<1>4. from + 1 \in (from + 1)..(from + n)
  OBVIOUS
<1> QED
  BY <1>3, <1>4 DEF NumbersFree

LEMMA LogGrows ==
    ASSUME TablesTyped, NEW r \in SqlRuns, LogFits(r),
           NEW es \in Seq(NewRows), log'[r] = log[r] \cup Numbered(row[r].seq, es),
           row'[r].seq = row[r].seq + Len(es), Len(att'[r]) = Len(att[r]),
           \A i \in 1..Len(es) : es[i].kind # "rejected" => es[i].attempt = Len(att[r]),
           \A i \in 1..Len(es) : es[i].kind \in EndEvent =>
               row[r].status \notin SqlEnded /\ row'[r].status \in SqlEnded,
           \A i, j \in 1..Len(es) : es[i].kind \in EndEvent /\ es[j].kind \in EndEvent => i = j,
           row[r].status \in SqlEnded => row'[r].status \in SqlEnded
    PROVE  LogFits(r)' /\ log'[r] \subseteq LogRows /\ log[r] \subseteq log'[r]
<1> DEFINE from == row[r].seq
           N == Numbered(row[r].seq, es)
<1>1. from \in Nat /\ Len(es) \in Nat /\ Len(att[r]) \in Nat /\ log[r] \subseteq LogRows
  BY RowOf
<1>2. \A e \in N : /\ e \in LogRows
                   /\ \E i \in 1..Len(es) : e.seq = from + i /\ e.kind = es[i].kind
                                                  /\ e.attempt = es[i].attempt
  BY <1>1, NumberedAre
<1>3. \A e \in log[r] : e.seq \in 1..from /\ e.attempt \in Nat
  BY <1>1 DEF LogFits, LogRows
<1>4. \A e \in N : e.seq \in (from + 1)..(from + Len(es))
  BY <1>1, <1>2
<1>5. \A i \in (from + 1)..(from + Len(es)) : \E e \in N : e.seq = i
  <2> SUFFICES ASSUME NEW i \in (from + 1)..(from + Len(es)) PROVE \E e \in N : e.seq = i
    OBVIOUS
  <2>1. i - from \in DOMAIN es /\ from + (i - from) = i
    BY <1>1
  <2>2. [seq |-> from + (i - from), kind |-> es[i - from].kind, attempt |-> es[i - from].attempt] \in N
    BY <2>1 DEF Numbered
  <2> QED
    BY <2>1, <2>2
<1>6. \A e, f \in N : e.seq = f.seq => e = f
  <2> SUFFICES ASSUME NEW e \in N, NEW f \in N, e.seq = f.seq PROVE e = f
    OBVIOUS
  <2>1. PICK i \in DOMAIN es : e = [seq |-> from + i, kind |-> es[i].kind, attempt |-> es[i].attempt]
    BY DEF Numbered
  <2>2. PICK j \in DOMAIN es : f = [seq |-> from + j, kind |-> es[j].kind, attempt |-> es[j].attempt]
    BY DEF Numbered
  <2>3. i \in Nat /\ j \in Nat /\ from + i = from + j
    BY <2>1, <2>2, <1>1
  <2>4. i = j
    BY <2>3, <1>1
  <2> QED
    BY <2>1, <2>2, <2>4
<1> HIDE DEF N
<1>7. log'[r] = log[r] \cup N
  BY DEF N
<1>8. {e.seq : e \in log'[r]} = 1..row'[r].seq
  <2>1. \A i \in 1..from : \E e \in log[r] : e.seq = i
    BY DEF LogFits
  <2>2. \A e \in log'[r] : e.seq \in 1..(from + Len(es))
    BY <1>1, <1>3, <1>4, <1>7
  <2>3. \A i \in 1..(from + Len(es)) : \E e \in log'[r] : e.seq = i
    BY <1>1, <1>5, <1>7, <2>1
  <2> QED
    BY <2>2, <2>3
<1>9. \A e, f \in log'[r] : e.seq = f.seq => e = f
  <2>1. \A e \in log[r], f \in N : e.seq # f.seq
    BY <1>1, <1>3, <1>4
  <2>2. \A e, f \in log[r] : e.seq = f.seq => e = f
    BY DEF LogFits
  <2> QED
    BY <1>6, <1>7, <2>1, <2>2
<1>10. \A e \in log'[r] : e.kind # "rejected" => e.attempt <= Len(att'[r])
  <2>1. \A e \in N : e.kind # "rejected" => e.attempt = Len(att[r])
    BY <1>2
  <2>2. \A e \in log[r] : e.kind # "rejected" => e.attempt <= Len(att[r])
    BY DEF LogFits
  <2> QED
    BY <1>1, <1>7, <2>1, <2>2
<1>11. \A e, f \in log'[r] :
          e.kind # "rejected" /\ f.kind # "rejected" /\ e.seq < f.seq => e.attempt <= f.attempt
  <2> SUFFICES ASSUME NEW e \in log'[r], NEW f \in log'[r], e.kind # "rejected", f.kind # "rejected",
                      e.seq < f.seq
               PROVE  e.attempt <= f.attempt
    OBVIOUS
  <2>1. CASE f \in N
    <3>1. f.attempt = Len(att[r])
      BY <1>2, <2>1
    <3> QED
      BY <1>10, <3>1
  <2>2. CASE f \in log[r] /\ e \in log[r]
    BY <2>2 DEF LogFits
  <2>3. ~(f \in log[r] /\ e \in N)
    BY <1>1, <1>3, <1>4
  <2> QED
    BY <1>7, <2>1, <2>2, <2>3
<1>12. \A e \in log'[r] : e.kind \in EndEvent => row'[r].status \in SqlEnded
  BY <1>2, <1>7 DEF LogFits
<1>13. \A e, f \in log'[r] : e.kind \in EndEvent /\ f.kind \in EndEvent => e = f
  <2> SUFFICES ASSUME NEW e \in log'[r], NEW f \in log'[r], e.kind \in EndEvent, f.kind \in EndEvent
               PROVE  e = f
    OBVIOUS
  <2>1. CASE e \in N /\ f \in N
    <3>1. PICK i \in 1..Len(es) : e.seq = from + i /\ e.kind = es[i].kind
      BY <1>2, <2>1
    <3>2. PICK j \in 1..Len(es) : f.seq = from + j /\ f.kind = es[j].kind
      BY <1>2, <2>1
    <3> QED
      BY <1>6, <2>1, <3>1, <3>2
  <2>2. \A d \in N : d.kind \in EndEvent => row[r].status \notin SqlEnded
    BY <1>2
  <2>3. \A d \in log[r] : d.kind \in EndEvent => row[r].status \in SqlEnded
    BY DEF LogFits
  <2>4. CASE e \in log[r] /\ f \in log[r]
    BY <2>4 DEF LogFits
  <2> QED
    BY <1>7, <2>1, <2>2, <2>3, <2>4
<1>14. log'[r] \subseteq LogRows /\ log[r] \subseteq log'[r]
  BY <1>1, <1>2, <1>7
<1> QED
  BY <1>8, <1>9, <1>10, <1>11, <1>12, <1>13, <1>14 DEF LogFits

\* Without new rows, the status may still change.
LEMMA LogStays ==
    ASSUME TablesTyped, NEW r \in SqlRuns, LogFits(r), log'[r] = log[r], row'[r].seq = row[r].seq,
           Len(att'[r]) \in Nat, Len(att'[r]) >= Len(att[r]),
           row[r].status \in SqlEnded => row'[r].status \in SqlEnded
    PROVE  LogFits(r)'
<1>1. \A e \in log[r] : e.attempt \in Nat
  BY RowOf DEF LogRows
<1>2. \A e \in log'[r] : e.kind # "rejected" => e.attempt <= Len(att'[r])
  BY <1>1, RowOf DEF LogFits
<1> QED
  BY <1>2 DEF LogFits

-----------------------------------------------------------------------------
(* What a step has to show *)

SameProjection == NoDamageYet' => inv'.owner = inv.owner /\ inv'.done = inv.done

LEMMA OwnerIsOpen ==
    ASSUME RunsFit, NEW r \in SqlRuns, NEW t \in Threads, row[r].owner = t
    PROVE  Open(r) /\ Held(r)
BY SqlAssumption DEF RunsFit, RunFits, StatusFits, Held, Open, SqlOpen, Threads

\* A step that writes no row, and of the investigation neither owner nor phases.
LEMMA SameFits ==
    ASSUME SqlInv, SqlTyped', UNCHANGED <<row, att, log, ckpt, tool>>,
           inv'.owner = inv.owner, inv'.done = inv.done,
           \A w \in SqlWorkers : claim'[w] \in {claim[w], NoClaim},
           \A t \in Threads : txn'[t] = txn[t] \/ CallFits(txn[t], t)'
    PROVE  SqlInv'
<1>1. TablesTyped /\ TablesTyped' /\ RunsFit /\ (NoDamageYet' <=> NoDamageYet)
  BY DEF SqlInv, SqlTyped, NoDamageYet
<1>2. \A r \in SqlRuns : Moves(r)
  <2>1. ASSUME NEW r \in SqlRuns PROVE Moves(r)
    <3>1. row[r].version \in Nat /\ row[r].seq \in Nat /\ row[r].turns \in Nat
      BY <1>1, RowOf, SqlAssumption
    <3>2. row' = row /\ att' = att
      OBVIOUS
    <3> QED
      BY <3>1, <3>2 DEF Moves
  <2> QED
    BY <2>1
<1>3. \A r \in SqlRuns, t \in Threads : Leaves(r, t)
  BY DEF Leaves
<1>4. ASSUME NEW r \in SqlRuns PROVE RunFits(r)'
  <2>1. RunFits(r)
    BY <1>1 DEF RunsFit
  <2>2. /\ row'[r] = row[r] /\ att'[r] = att[r] /\ log'[r] = log[r] /\ ckpt'[r] = ckpt[r]
        /\ tool'[r] = tool[r]
    OBVIOUS
  <2> QED
    BY <1>1, <2>1, <2>2, RunKept
<1>5. OneOpen' /\ ProjectionFits'
  BY DEF SqlInv, OneOpen, ProjectionFits, Open, Shows, V11, NoDamageYet
<1>6. ASSUME NEW w \in SqlWorkers, claim'[w] # NoClaim PROVE ClaimStands(claim[w], w)'
  <2>1. PICK by : by = claim[w]
    OBVIOUS
  <2>2. claim'[w] = by /\ ClaimStands(by, w)
    BY <1>6, <2>1 DEF SqlInv, ClaimsFit
  <2>3. ClaimStands(by, w)'
    BY <2>2 DEF ClaimStands
  <2> QED
    BY <2>2, <2>3
<1>7. ASSUME NEW t \in Threads PROVE CallFits(txn[t], t)'
  <2>1. txn[t] \in StoreCalls /\ CallFits(txn[t], t)
    BY DEF SqlInv, SqlTyped, CallsFit
  <2>2. PICK c : c = txn[t]
    OBVIOUS
  <2>3. CASE txn'[t] = txn[t]
    <3>1. CallFits(c, t)'
      BY <1>1, <1>2, <1>3, <2>1, <2>2, CallKept
    <3> QED
      BY <2>2, <2>3, <3>1
  <2> QED
    BY <2>3
<1>8. RunsFit' /\ ClaimsFit' /\ CallsFit'
  BY <1>4, <1>6, <1>7 DEF RunsFit, ClaimsFit, CallsFit
<1> QED
  BY <1>5, <1>8 DEF SqlInv

\* A step that writes no table.
LEMMA ReadFits ==
    ASSUME SqlInv, SqlTyped', UNCHANGED sqlTables,
           \A w \in SqlWorkers : claim'[w] \in {claim[w], NoClaim},
           \A t \in Threads : txn'[t] = txn[t] \/ CallFits(txn[t], t)'
    PROVE  SqlInv'
BY SameFits DEF sqlTables

\* A step that writes rows of one run, and of others at most removes tool calls.
LEMMA StepFits ==
    ASSUME SqlInv, SqlTyped', NEW r \in SqlRuns,
           \A q \in SqlRuns \ {r} :
               /\ row'[q] = row[q] /\ att'[q] = att[q] /\ log'[q] = log[q] /\ ckpt'[q] = ckpt[q]
               /\ tool'[q] = tool[q] \/ (Open(r) /\ tool'[q] = NoTool),
           RunFits(r)', Moves(r),
           Open(r)' => Open(r) \/ \A q \in SqlRuns : ~Open(q),
           Open(r) \/ SameProjection,
           NoDamageYet' /\ Open(r)' => Shows(inv, r)',
           \A w \in SqlWorkers : claim'[w] \in {claim[w], NoClaim} \/ ClaimStands(claim[w], w)',
           \A t \in Threads : (txn'[t] = txn[t] /\ Leaves(r, t)) \/ CallFits(txn[t], t)'
    PROVE  SqlInv'
<1>1. TablesTyped /\ TablesTyped' /\ RunsFit /\ OneOpen
  BY DEF SqlInv, SqlTyped
<1>2. \A q \in SqlRuns : Moves(q)
  <2>1. ASSUME NEW q \in SqlRuns, q # r PROVE Moves(q)
    <3>1. row[q].version \in Nat /\ row[q].seq \in Nat /\ row[q].turns \in Nat
      BY <1>1, RowOf, SqlAssumption
    <3>2. row'[q] = row[q] /\ att'[q] = att[q]
      BY <2>1
    <3> QED
      BY <3>1, <3>2 DEF Moves
  <2> QED
    BY <2>1
<1>3. NoDamageYet' => NoDamageYet
  BY <1>2 DEF Moves, NoDamageYet
<1>4. ASSUME NEW q \in SqlRuns, q # r, NEW t \in Threads PROVE Leaves(q, t)
  <2> SUFFICES ASSUME row[q].owner = t, row'[q].owner = t, row'[q].version = row[q].version
               PROVE  /\ row'[q].phase = row[q].phase /\ tool'[q] = tool[q]
                      /\ NoDamageYet' => inv'.owner = inv.owner /\ inv'.done = inv.done
    BY DEF Leaves
  <2>1. ~Open(r)
    BY <1>1, <1>4, OwnerIsOpen DEF OneOpen
  <2> QED
    BY <1>4, <2>1 DEF SameProjection
<1>5. ASSUME NEW q \in SqlRuns PROVE RunFits(q)'
  <2>1. CASE q = r
    BY <2>1
  <2>2. CASE q # r
    <3>1. RunFits(q)
      BY <1>1 DEF RunsFit
    <3>2. CASE tool'[q] = tool[q]
      BY <1>3, <2>2, <3>1, <3>2, RunKept
    <3>3. CASE tool'[q] = NoTool
      <4>1. row'[q] = row[q] /\ att'[q] = att[q] /\ log'[q] = log[q] /\ ckpt'[q] = ckpt[q]
        BY <2>2
      <4>2. LogFits(q)' /\ CheckpointsFit(q)'
        BY <3>1, <4>1 DEF RunFits, LogFits, CheckpointsFit
      <4>3. SqlConsumed(q)' = {}
        BY <3>3 DEF SqlConsumed, NoTool
      <4>4. BudgetFits(q)'
        BY <4>3, FS_EmptySet, SqlAssumption DEF BudgetFits
      <4>5. StatusFits(q)'
        BY <1>3, <3>1, <4>1 DEF RunFits, StatusFits, Held, OpenAttempts
      <4> QED
        BY <4>2, <4>4, <4>5 DEF RunFits
    <3> QED
      BY <2>2, <3>2, <3>3
  <2> QED
    BY <2>1, <2>2
<1>6. \A q \in SqlRuns \ {r} : Open(q)' <=> Open(q)
  BY DEF Open
<1>7. OneOpen'
  BY <1>1, <1>6 DEF OneOpen
<1>8. ProjectionFits'
  <2> SUFFICES ASSUME NoDamageYet', NEW q \in SqlRuns, Open(q)' PROVE Shows(inv, q)'
    BY DEF ProjectionFits
  <2>1. CASE q = r
    BY <2>1
  <2>2. CASE q # r
    <3>1. Open(q) /\ ~Open(r)
      BY <1>1, <1>6, <2>2 DEF OneOpen
    <3>2. Shows(inv, q)
      BY <1>3, <3>1 DEF SqlInv, ProjectionFits
    <3>3. inv'.owner = inv.owner /\ inv'.done = inv.done /\ row'[q] = row[q]
      BY <2>2, <3>1 DEF SameProjection
    <3> QED
      BY <3>2, <3>3 DEF Shows, V11
  <2> QED
    BY <2>1, <2>2
<1>9. ASSUME NEW w \in SqlWorkers, claim'[w] # NoClaim PROVE ClaimStands(claim[w], w)'
  <2>1. CASE claim'[w] = claim[w]
    <3>1. claim[w] \in Claims /\ ClaimStands(claim[w], w)
      BY <1>9, <2>1 DEF SqlInv, SqlTyped, ClaimsFit
    <3>2. claim[w].run \in SqlRuns
      BY <3>1 DEF Claims
    <3>3. PICK by : by = claim[w]
      OBVIOUS
    <3>4. ClaimStands(by, w)'
      BY <1>1, <1>2, <3>1, <3>2, <3>3, ClaimKept
    <3> QED
      BY <2>1, <3>3, <3>4
  <2> QED
    BY <1>9, <2>1
<1>10. ASSUME NEW t \in Threads PROVE CallFits(txn[t], t)'
  <2>1. CASE txn'[t] = txn[t] /\ Leaves(r, t)
    <3>1. txn[t] \in StoreCalls /\ CallFits(txn[t], t)
      BY DEF SqlInv, SqlTyped, CallsFit
    <3>2. \A q \in SqlRuns : Moves(q) /\ Leaves(q, t)
      BY <1>2, <1>4, <2>1
    <3>3. PICK c : c = txn[t]
      OBVIOUS
    <3>4. CallFits(c, t)'
      BY <1>1, <1>3, <3>1, <3>2, <3>3, CallKept
    <3> QED
      BY <2>1, <3>3, <3>4
  <2> QED
    BY <2>1
<1>11. RunsFit' /\ ClaimsFit' /\ CallsFit'
  BY <1>5, <1>9, <1>10 DEF RunsFit, ClaimsFit, CallsFit
<1> QED
  BY <1>7, <1>8, <1>11 DEF SqlInv

-----------------------------------------------------------------------------
(* Steps that read: they begin a call, check it, or give up *)

LEMMA Still ==
    ASSUME TablesTyped, UNCHANGED sqlTables
    PROVE  /\ TablesTyped' /\ (NoDamageYet' <=> NoDamageYet)
           /\ \A r \in SqlRuns : Moves(r) /\ \A t \in Threads : Leaves(r, t)
<1>1. TablesTyped'
  BY DEF TablesTyped, sqlTables
<1>2. NoDamageYet' <=> NoDamageYet
  BY DEF sqlTables, NoDamageYet
<1>3. ASSUME NEW r \in SqlRuns PROVE Moves(r)
  <2>1. row[r].version \in Nat /\ row[r].seq \in Nat /\ row[r].turns \in Nat
    BY RowOf, SqlAssumption
  <2>2. row' = row /\ att' = att
    BY DEF sqlTables
  <2> QED
    BY <2>1, <2>2 DEF Moves
<1>4. \A r \in SqlRuns, t \in Threads : Leaves(r, t)
  BY DEF Leaves, sqlTables
<1> QED
  BY <1>1, <1>2, <1>3, <1>4

LEMMA NewCallFits ==
    ASSUME SqlInv, UNCHANGED <<sqlTables, claim, clock>>, NEW t \in Threads, NEW c \in StoreCalls,
           txn' = [txn EXCEPT ![t] = c], CallFits(c, t)
    PROVE  SqlInv'
<1>1. TablesTyped /\ SqlTyped
  BY DEF SqlInv, SqlTyped
<1>2. TablesTyped' /\ (NoDamageYet' <=> NoDamageYet) /\ UNCHANGED sqlTables
          /\ \A r \in SqlRuns : Moves(r) /\ Leaves(r, t)
  BY <1>1, Still
<1>3. SqlTyped'
  BY <1>1, <1>2 DEF SqlTyped
<1>4. CallFits(c, t)'
  BY <1>1, <1>2, CallKept
<1>5. ASSUME NEW u \in Threads PROVE txn'[u] = txn[u] \/ CallFits(txn[u], u)'
  <2>1. CASE u = t
    <3>1. txn'[u] = c
      BY <1>1, <2>1 DEF SqlTyped
    <3> QED
      BY <1>4, <2>1, <3>1
  <2>2. CASE u # t
    BY <1>1, <2>2 DEF SqlTyped
  <2> QED
    BY <2>1, <2>2
<1>6. \A w \in SqlWorkers : claim'[w] \in {claim[w], NoClaim}
  OBVIOUS
<1> QED
  BY <1>2, <1>3, <1>5, <1>6, ReadFits

LEMMA NoCallFits == ASSUME NEW t PROVE NoCall \in StoreCalls /\ CallFits(NoCall, t)
BY DEF StoreCalls, NoCall, CallFits

LEMMA FailsFits ==
    ASSUME SqlInv, NEW t \in Threads, Fails(t)
    PROVE  SqlInv'
BY NoCallFits, NewCallFits DEF Fails, Return

LEMMA CrashFits ==
    ASSUME SqlInv, NEW w \in SqlWorkers, SqlCrash(w)
    PROVE  SqlInv'
<1>1. w \in Threads /\ SqlTyped
  BY DEF SqlInv, Threads
<1>2. /\ txn' = [txn EXCEPT ![w] = NoCall] /\ claim' = [claim EXCEPT ![w] = NoClaim]
      /\ UNCHANGED sqlTables /\ clock' = clock
  BY DEF SqlCrash, Return
<1>3. SqlTyped'
  <2>1. TablesTyped'
    BY <1>1, <1>2, Still DEF SqlTyped
  <2> QED
    BY <1>1, <1>2, <2>1, NoCallFits DEF SqlTyped
<1>4. ASSUME NEW u \in Threads PROVE txn'[u] = txn[u] \/ CallFits(txn[u], u)'
  <2>1. CASE u = w
    <3>1. txn'[u] = NoCall
      BY <1>1, <1>2, <2>1 DEF SqlTyped
    <3> QED
      BY <3>1 DEF CallFits, NoCall
  <2>2. CASE u # w
    BY <1>1, <1>2, <2>2 DEF SqlTyped
  <2> QED
    BY <2>1, <2>2
<1>5. \A v \in SqlWorkers : claim'[v] \in {claim[v], NoClaim}
  BY <1>1, <1>2 DEF SqlTyped
<1> QED
  BY <1>2, <1>3, <1>4, <1>5, ReadFits

LEMMA TickFits ==
    ASSUME SqlInv, SqlTick
    PROVE  SqlInv'
<1>1. SqlTyped /\ TablesTyped
  BY DEF SqlInv, SqlTyped
<1>2. UNCHANGED <<sqlTables, txn, claim>> /\ clock' = clock + 1
  BY DEF SqlTick
<1>3. SqlTyped'
  BY <1>1, <1>2, Still DEF SqlTyped
<1> QED
  BY <1>2, <1>3, ReadFits

\* A worker's claim, for the call it begins.
LEMMA ClaimOf ==
    ASSUME SqlInv, NEW w \in SqlWorkers, SqlWorks(w)
    PROVE  claim[w] \in Claims /\ claim[w].run \in SqlRuns /\ ClaimStands(claim[w], w)
<1>1. claim[w] # NoClaim
  BY DEF SqlWorks, NoClaim
<1> QED
  BY <1>1 DEF SqlInv, SqlTyped, ClaimsFit, Claims

LEMMA CallOf ==
    ASSUME SqlInv, NEW t \in Threads
    PROVE  txn[t] \in StoreCalls /\ CallFits(txn[t], t) /\ clock \in Nat /\ inv \in Investigations
BY DEF SqlInv, SqlTyped, TablesTyped, CallsFit

LEMMA KindsOf ==
    ASSUME NEW c \in StoreCalls
    PROVE  /\ c.op = "acquire"  => c \in AcquireCalls
           /\ c.op = "event"    => c \in EventCalls
           /\ c.op = "tool"     => c \in ToolCalls
           /\ c.op = "phase"    => c \in PhaseCalls
           /\ c.op = "terminal" => c \in TerminalCalls
           /\ c.op = "cancel"   => c \in CancelCalls
           /\ c.op = "audit"    => c \in AuditCalls
           /\ c.op = "reject"   => c \in RejectCalls
           /\ c.op = "repair"   => c \in RepairCalls
BY DEF StoreCalls, NoCall, AcquireCalls, ClaimedCalls, EventCalls, ToolCalls, PhaseCalls,
       TerminalCalls, CancelCalls, AuditCalls, RejectCalls, RepairCalls

-----------------------------------------------------------------------------
(* The calls of a worker, up to their transaction *)

LEMMA StartFits ==
    ASSUME SqlInv, NEW w \in SqlWorkers, NEW r \in SqlRuns, SqlStart(w, r)
    PROVE  SqlInv'
<1>1. w \in Threads /\ TablesTyped /\ clock \in Nat
  BY DEF SqlInv, SqlTyped, Threads
<1>2. PICK c : c = [op |-> "acquire", step |-> "write", run |-> r, status |-> row[r].status,
                    number |-> Len(att[r]) + 1, at |-> clock]
  OBVIOUS
<1>3. row[r].status \in {"created", "interrupted"} /\ txn' = [txn EXCEPT ![w] = c]
          /\ UNCHANGED <<sqlTables, claim, clock>>
  BY <1>2 DEF SqlStart, Begin
<1>4. c \in AcquireCalls
  BY <1>1, <1>2, <1>3, RowOf DEF AcquireCalls
<1>5. c \in StoreCalls /\ CallFits(c, w)
  BY <1>4 DEF StoreCalls, CallFits, AcquireCalls
<1> QED
  BY <1>1, <1>3, <1>5, NewCallFits

LEMMA AppendCalledFits ==
    ASSUME SqlInv, NEW w \in SqlWorkers, SqlAppendCalled(w)
    PROVE  SqlInv'
<1>1. w \in Threads /\ clock \in Nat /\ claim[w] \in Claims /\ ClaimStands(claim[w], w)
  BY ClaimOf DEF SqlInv, SqlTyped, Threads, SqlAppendCalled
<1>2. PICK c : c = [op |-> "event", step |-> "check", by |-> claim[w], at |-> clock]
  OBVIOUS
<1>3. txn' = [txn EXCEPT ![w] = c] /\ UNCHANGED <<sqlTables, claim, clock>>
  BY <1>2 DEF SqlAppendCalled, Begin
<1>4. c \in EventCalls
  BY <1>1, <1>2 DEF EventCalls
<1>5. c \in StoreCalls /\ CallFits(c, w)
  BY <1>1, <1>2, <1>4 DEF StoreCalls, ClaimedCalls, CallFits
<1> QED
  BY <1>1, <1>3, <1>5, NewCallFits

LEMMA AppendCheckedFits ==
    ASSUME SqlInv, NEW w \in SqlWorkers, SqlAppendChecked(w)
    PROVE  SqlInv'
<1>1. w \in Threads
  BY DEF Threads
<1>2. CASE Fails(w)
  BY <1>1, <1>2, FailsFits
<1>3. CASE ~Fails(w)
  <2>1. PICK c : c = txn[w]
    OBVIOUS
  <2>2. c \in EventCalls /\ CallFits(c, w)
    BY <1>1, <2>1, CallOf, KindsOf DEF SqlAppendChecked, InCall
  <2>3. PICK d : d = [c EXCEPT !.step = "write"]
    OBVIOUS
  <2>4. txn' = [txn EXCEPT ![w] = d] /\ UNCHANGED <<sqlTables, claim, clock>>
    BY <1>3, <2>1, <2>3 DEF SqlAppendChecked, Proceed
  <2>5. d \in EventCalls /\ d.by = c.by
    BY <2>2, <2>3 DEF EventCalls
  <2>6. d \in StoreCalls /\ CallFits(d, w)
    BY <2>2, <2>5 DEF StoreCalls, ClaimedCalls, CallFits, EventCalls
  <2> QED
    BY <1>1, <2>4, <2>6, NewCallFits
<1> QED
  BY <1>2, <1>3

LEMMA ToolCalledFits ==
    ASSUME SqlInv, NEW w \in SqlWorkers, NEW k \in SqlCalls, NEW o \in {"running", "success"},
           SqlToolCalled(w, k, o)
    PROVE  SqlInv'
<1>1. w \in Threads /\ clock \in Nat /\ claim[w] \in Claims /\ ClaimStands(claim[w], w)
  BY ClaimOf DEF SqlInv, SqlTyped, Threads, SqlToolCalled
<1>2. PICK c : c = [op |-> "tool", step |-> "check", by |-> claim[w], at |-> clock,
                    id |-> k, outcome |-> o, read |-> NewRecord]
  OBVIOUS
<1>3. /\ txn' = [txn EXCEPT ![w] = c] /\ UNCHANGED <<sqlTables, claim, clock>>
      /\ o = "success" => tool[claim[w].run][k] = "running"
  BY <1>2 DEF SqlToolCalled, Begin
<1>4. NewRecord \in Investigations
  BY SqlAssumption DEF NewRecord, Investigations
<1>5. c \in ToolCalls
  BY <1>1, <1>2, <1>4 DEF ToolCalls
<1>6. ToolCallFits(c)
  BY <1>2, <1>3 DEF ToolCallFits
<1>7. c \in StoreCalls /\ CallFits(c, w)
  BY <1>1, <1>2, <1>5, <1>6 DEF StoreCalls, ClaimedCalls, CallFits
<1> QED
  BY <1>1, <1>3, <1>7, NewCallFits

LEMMA ToolCheckedFits ==
    ASSUME SqlInv, NEW w \in SqlWorkers, SqlToolChecked(w)
    PROVE  SqlInv'
<1>1. w \in Threads
  BY DEF Threads
<1>2. CASE Fails(w)
  BY <1>1, <1>2, FailsFits
<1>3. CASE ~Fails(w)
  <2>1. PICK c : c = txn[w]
    OBVIOUS
  <2>2. c \in ToolCalls /\ CallFits(c, w) /\ inv \in Investigations
    BY <1>1, <2>1, CallOf, KindsOf DEF SqlToolChecked, InCall
  <2>3. PICK d : d = [c EXCEPT !.step = "write", !.read = inv]
    OBVIOUS
  <2>4. /\ txn' = [txn EXCEPT ![w] = d] /\ UNCHANGED <<sqlTables, claim, clock>>
        /\ Admits(c.by.run, c.id, c.outcome)
    BY <1>3, <2>1, <2>3 DEF SqlToolChecked, Proceed
  <2>5. d \in ToolCalls /\ d.by = c.by /\ d.read = inv /\ d.id = c.id /\ d.outcome = c.outcome
    BY <2>2, <2>3 DEF ToolCalls
  <2>6. ToolCallFits(c) /\ ClaimStands(c.by, w)
    BY <2>2 DEF CallFits, ToolCalls
  <2>7. ToolCallFits(d)
    BY <2>4, <2>5, <2>6 DEF ToolCallFits
  <2>8. d \in StoreCalls /\ CallFits(d, w)
    BY <2>5, <2>6, <2>7 DEF StoreCalls, ClaimedCalls, CallFits, ToolCalls
  <2> QED
    BY <1>1, <2>4, <2>8, NewCallFits
<1> QED
  BY <1>2, <1>3

LEMMA PhaseCalledFits ==
    ASSUME SqlInv, NEW w \in SqlWorkers, SqlPhaseCalled(w)
    PROVE  SqlInv'
<1> DEFINE r == claim[w].run
<1>1. w \in Threads /\ clock \in Nat /\ claim[w] \in Claims /\ ClaimStands(claim[w], w)
          /\ r \in SqlRuns /\ inv \in Investigations
  BY ClaimOf DEF SqlInv, SqlTyped, TablesTyped, Threads, SqlPhaseCalled
<1>2. PICK c : c = [op |-> "phase", step |-> "check", by |-> claim[w], at |-> clock,
                    phase |-> row[r].phase + 1, base |-> inv, turns |-> row[r].turns, tries |-> 0]
  OBVIOUS
<1>3. /\ txn' = txn \/ txn' = [txn EXCEPT ![w] = c]
      /\ UNCHANGED <<sqlTables, claim, clock>>
      /\ row[r].phase < SqlPhases
  BY <1>2 DEF SqlPhaseCalled, Begin
<1>4. row[r].phase \in 0..SqlPhases /\ row[r].turns \in 0..SqlTurns
  BY <1>1, RowOf DEF SqlInv, SqlTyped
<1>5. row[r].phase + 1 \in 1..SqlPhases
  BY <1>3, <1>4, SqlAssumption
<1>6. c \in PhaseCalls
  BY <1>1, <1>2, <1>4, <1>5 DEF PhaseCalls
<1>7. PhaseCallFits(c)
  <2>1. row[r].turns >= row[r].turns
    BY <1>4, SqlAssumption
  <2> QED
    BY <1>2, <2>1 DEF PhaseCallFits
<1>8. c \in StoreCalls /\ CallFits(c, w)
  BY <1>1, <1>2, <1>6, <1>7 DEF StoreCalls, ClaimedCalls, CallFits
<1>9. CASE txn' = txn
  <2>1. SqlTyped'
    BY <1>3, <1>9, Still DEF SqlInv, SqlTyped
  <2> QED
    BY <1>3, <1>9, <2>1, ReadFits
<1> QED
  BY <1>1, <1>3, <1>8, <1>9, NewCallFits

LEMMA PhaseCheckedFits ==
    ASSUME SqlInv, NEW w \in SqlWorkers, SqlPhaseChecked(w)
    PROVE  SqlInv'
<1>1. w \in Threads
  BY DEF Threads
<1>2. CASE Fails(w)
  BY <1>1, <1>2, FailsFits
<1>3. CASE ~Fails(w)
  <2>1. PICK b : b = txn[w]
    OBVIOUS
  <2>2. b \in PhaseCalls /\ CallFits(b, w) /\ clock \in Nat
    BY <1>1, <2>1, CallOf, KindsOf DEF SqlPhaseChecked, InCall
  <2>3. PICK c : c = [b EXCEPT !.at = clock]
    OBVIOUS
  <2>4. PICK d : d = [c EXCEPT !.step = "write"]
    OBVIOUS
  <2>5. /\ txn' = [txn EXCEPT ![w] = d] /\ UNCHANGED <<sqlTables, claim, clock>>
        /\ InOrder(c)
    BY <1>3, <2>1, <2>3, <2>4 DEF SqlPhaseChecked, Proceed
  <2>6. c \in PhaseCalls /\ c.by = b.by /\ c.phase = b.phase /\ c.turns = b.turns
    BY <2>2, <2>3 DEF PhaseCalls
  <2>7. d \in PhaseCalls /\ d.by = b.by /\ d.phase = c.phase /\ d.turns = b.turns
    BY <2>4, <2>6 DEF PhaseCalls
  <2>8. PhaseCallFits(b) /\ ClaimStands(b.by, w)
    BY <2>2 DEF CallFits, PhaseCalls
  <2>9. PhaseCallFits(d)
    BY <2>5, <2>6, <2>7, <2>8 DEF PhaseCallFits, InOrder
  <2>10. d \in StoreCalls /\ CallFits(d, w)
    BY <2>7, <2>8, <2>9 DEF StoreCalls, ClaimedCalls, CallFits, PhaseCalls
  <2> QED
    BY <1>1, <2>5, <2>10, NewCallFits
<1> QED
  BY <1>2, <1>3

LEMMA PhaseBusyFits ==
    ASSUME SqlInv, NEW w \in SqlWorkers, SqlPhaseBusy(w)
    PROVE  SqlInv'
<1>1. w \in Threads
  BY DEF Threads
<1>2. CASE Fails(w)
  BY <1>1, <1>2, FailsFits
<1>3. CASE ~Fails(w)
  <2>1. PICK c : c = txn[w]
    OBVIOUS
  <2>2. c \in PhaseCalls /\ CallFits(c, w)
    BY <1>1, <2>1, CallOf, KindsOf DEF SqlPhaseBusy, InCall
  <2>9. PICK n \in Nat : n = c.tries + 1
    BY <2>2 DEF PhaseCalls
  <2>3. PICK d : d = [c EXCEPT !.step = "check", !.tries = n]
    OBVIOUS
  <2>4. txn' = [txn EXCEPT ![w] = d] /\ UNCHANGED <<sqlTables, claim, clock>>
    BY <1>3, <2>1, <2>3, <2>9 DEF SqlPhaseBusy, Proceed
  <2>5. d \in PhaseCalls /\ d.by = c.by /\ d.turns = c.turns /\ d.step = "check"
    BY <2>2, <2>3 DEF PhaseCalls
  <2>6. PhaseCallFits(c) /\ ClaimStands(c.by, w)
    BY <2>2 DEF CallFits, PhaseCalls
  <2>7. PhaseCallFits(d)
    BY <2>5, <2>6 DEF PhaseCallFits
  <2>8. d \in StoreCalls /\ CallFits(d, w)
    BY <2>5, <2>6, <2>7 DEF StoreCalls, ClaimedCalls, CallFits, PhaseCalls
  <2> QED
    BY <1>1, <2>4, <2>8, NewCallFits
<1> QED
  BY <1>2, <1>3

LEMMA TerminalCalledFits ==
    ASSUME SqlInv, NEW w \in SqlWorkers, NEW target \in SqlEnded, SqlTerminalCalled(w, target)
    PROVE  SqlInv'
<1> DEFINE r == claim[w].run
<1>1. w \in Threads /\ clock \in Nat /\ claim[w] \in Claims /\ ClaimStands(claim[w], w)
          /\ r \in SqlRuns /\ inv \in Investigations
  BY ClaimOf DEF SqlInv, SqlTyped, TablesTyped, Threads, SqlTerminalCalled
<1>2. PICK c : c = [op |-> "terminal", step |-> "check", by |-> claim[w], at |-> clock,
                    status |-> row[r].status, target |-> target, read |-> inv]
  OBVIOUS
<1>3. /\ txn' = [txn EXCEPT ![w] = c] /\ UNCHANGED <<sqlTables, claim, clock>>
      /\ row[r].status \in SqlHeld
  BY <1>2 DEF SqlTerminalCalled, Begin
<1>4. c \in TerminalCalls
  BY <1>1, <1>2, <1>3 DEF TerminalCalls
<1>5. TerminalCallFits(c)
  BY <1>1, <1>2, <1>3 DEF TerminalCallFits, SqlInv, ProjectionFits, Open, SqlOpen
<1>6. c \in StoreCalls /\ CallFits(c, w)
  BY <1>1, <1>2, <1>4, <1>5 DEF StoreCalls, ClaimedCalls, CallFits
<1> QED
  BY <1>1, <1>3, <1>6, NewCallFits

LEMMA TerminalCheckedFits ==
    ASSUME SqlInv, NEW w \in SqlWorkers, SqlTerminalChecked(w)
    PROVE  SqlInv'
<1>1. w \in Threads
  BY DEF Threads
<1>2. CASE Fails(w)
  BY <1>1, <1>2, FailsFits
<1>3. CASE ~Fails(w)
  <2>1. PICK b : b = txn[w]
    OBVIOUS
  <2>2. b \in TerminalCalls /\ CallFits(b, w) /\ clock \in Nat
    BY <1>1, <2>1, CallOf, KindsOf DEF SqlTerminalChecked, InCall
  <2>3. PICK c : c = [b EXCEPT !.at = clock]
    OBVIOUS
  <2>4. PICK d : d = [c EXCEPT !.step = "write"]
    OBVIOUS
  <2>5. txn' = [txn EXCEPT ![w] = d] /\ UNCHANGED <<sqlTables, claim, clock>>
    BY <1>3, <2>1, <2>3, <2>4 DEF SqlTerminalChecked, Proceed
  <2>6. c \in TerminalCalls /\ c.by = b.by /\ c.read = b.read
    BY <2>2, <2>3 DEF TerminalCalls
  <2>7. d \in TerminalCalls /\ d.by = b.by /\ d.read = b.read
    BY <2>4, <2>6 DEF TerminalCalls
  <2>8. TerminalCallFits(b) /\ ClaimStands(b.by, w)
    BY <2>2 DEF CallFits, TerminalCalls
  <2>9. TerminalCallFits(d)
    BY <2>7, <2>8 DEF TerminalCallFits
  <2>10. d \in StoreCalls /\ CallFits(d, w)
    BY <2>7, <2>8, <2>9 DEF StoreCalls, ClaimedCalls, CallFits, TerminalCalls
  <2> QED
    BY <1>1, <2>5, <2>10, NewCallFits
<1> QED
  BY <1>2, <1>3

-----------------------------------------------------------------------------
(* The calls of a request, up to their transaction *)

LEMMA ViewTyped ==
    ASSUME NEW record \in Investigations, NEW r
    PROVE  ViewOf(r, record) \in 0..SqlPhases /\ ViewOf(r, record) # Unfrozen
               /\ ViewOf(r, record) \in Unfrozen..SqlPhases
BY SqlAssumption DEF ViewOf, Investigations, Unfrozen

LEMMA CancelCalledFits ==
    ASSUME SqlInv, NEW t \in SqlRequests, NEW r \in SqlRuns, SqlCancelCalled(t, r)
    PROVE  SqlInv'
<1>1. t \in Threads /\ inv \in Investigations
  BY DEF Threads, SqlInv, SqlTyped, TablesTyped
<1>3. PICK v : v = IF row[r].status = "created" THEN SqlView(r) ELSE Unfrozen
  OBVIOUS
<1>4. v \in Unfrozen..SqlPhases /\ (row[r].status = "created" => v # Unfrozen)
  BY <1>1, <1>3, ViewTyped, SqlAssumption DEF SqlView, Unfrozen
<1>5. PICK c : c = [op |-> "cancel", step |-> "check", run |-> r, owns |-> OwnsProjection(r),
                    view |-> v, status |-> "absent"]
  OBVIOUS
<1>6. txn' = [txn EXCEPT ![t] = c] /\ UNCHANGED <<sqlTables, claim, clock>>
          /\ row[r].status # "absent"
  BY <1>3, <1>5, Zenon DEF SqlCancelCalled, Begin
<1>7. OwnsProjection(r) \in BOOLEAN
  BY DEF OwnsProjection
<1>8. c \in CancelCalls
  BY <1>4, <1>5, <1>7 DEF CancelCalls
<1>9. CancelCallFits(c)
  BY <1>4, <1>5, <1>6 DEF CancelCallFits
<1>10. c \in StoreCalls /\ CallFits(c, t)
  BY <1>5, <1>8, <1>9 DEF StoreCalls, CallFits
<1> QED
  BY <1>1, <1>6, <1>10, NewCallFits

LEMMA CancelCheckedFits ==
    ASSUME SqlInv, NEW t \in SqlRequests, SqlCancelChecked(t)
    PROVE  SqlInv'
<1>1. t \in Threads
  BY DEF Threads
<1>2. CASE Fails(t)
  BY <1>1, <1>2, FailsFits
<1>3. CASE ~Fails(t)
  <2>1. PICK c : c = txn[t]
    OBVIOUS
  <2>2. c \in CancelCalls /\ CallFits(c, t)
    BY <1>1, <2>1, CallOf, KindsOf DEF SqlCancelChecked, InCall
  <2>3. PICK s : s = row[c.run].status
    OBVIOUS
  <2>4. PICK d : d = [c EXCEPT !.step = "write", !.status = s]
    OBVIOUS
  <2>5. txn' = [txn EXCEPT ![t] = d] /\ UNCHANGED <<sqlTables, claim, clock>>
          /\ s \in {"created", "running"}
    BY <1>3, <2>1, <2>3, <2>4 DEF SqlCancelChecked, Proceed
  <2>6. d \in CancelCalls /\ d.run = c.run /\ d.view = c.view /\ d.status = s
    BY <2>2, <2>4, <2>5 DEF CancelCalls
  <2>7. CancelCallFits(c)
    BY <2>2 DEF CallFits, CancelCalls
  <2>8. CancelCallFits(d)
    BY <2>5, <2>6, <2>7 DEF CancelCallFits
  <2>9. d \in StoreCalls /\ CallFits(d, t)
    BY <2>6, <2>8 DEF StoreCalls, CallFits, CancelCalls
  <2> QED
    BY <1>1, <2>5, <2>9, NewCallFits
<1> QED
  BY <1>2, <1>3

LEMMA AuditReadFits ==
    ASSUME SqlInv, NEW t \in SqlRequests, SqlAuditRead(t)
    PROVE  SqlInv'
<1>1. t \in Threads /\ TablesTyped /\ clock \in Nat
  BY DEF Threads, SqlInv, SqlTyped
<1>2. UNCHANGED <<sqlTables, claim, clock>>
  BY DEF SqlAuditRead
<1>3. CASE txn' = txn
  <2>1. SqlTyped'
    BY <1>2, <1>3, Still DEF SqlInv, SqlTyped
  <2> QED
    BY <1>2, <1>3, <2>1, ReadFits
<1>4. CASE txn' # txn
  <2>1. PICK r \in Expired(clock) :
           /\ OpenAttempts(r) # {}
           /\ Begin(t, [op |-> "audit", step |-> "write", run |-> r, at |-> clock,
                        attempt |-> CHOOSE n \in OpenAttempts(r) : TRUE, seen |-> row[r]])
    BY <1>4 DEF SqlAuditRead
  <2>2. r \in SqlRuns /\ Held(r) /\ row[r] \in RowRecords /\ row[r].seq \in Nat
            /\ row[r].version \in Nat /\ Len(att[r]) \in Nat
    BY <1>1, RowOf DEF Expired, Held
  <2>3. OpenAttempts(r) = {Len(att[r])}
    BY <2>2 DEF SqlInv, RunsFit, RunFits, StatusFits
  <2>4. PICK n : n = CHOOSE i \in OpenAttempts(r) : TRUE
    OBVIOUS
  <2>5. n = Len(att[r])
    BY <2>3, <2>4
  <2>6. PICK c : c = [op |-> "audit", step |-> "write", run |-> r, at |-> clock, attempt |-> n,
                      seen |-> row[r]]
    OBVIOUS
  <2>7. txn' = [txn EXCEPT ![t] = c]
    BY <2>1, <2>4, <2>6, Zenon DEF Begin
  <2>8. c \in AuditCalls
    BY <1>1, <2>2, <2>5, <2>6 DEF AuditCalls
  <2>9. AuditCallFits(c)
    BY <2>2, <2>5, <2>6 DEF AuditCallFits, Held
  <2>10. c \in StoreCalls /\ CallFits(c, t)
    BY <2>6, <2>8, <2>9 DEF StoreCalls, CallFits
  <2> QED
    BY <1>1, <1>2, <2>7, <2>10, NewCallFits
<1> QED
  BY <1>3, <1>4

LEMMA RejectCalledFits ==
    ASSUME SqlInv, NEW t \in SqlRequests, NEW r \in SqlRuns, NEW n \in DOMAIN att[r],
           SqlRejectCalled(t, r, n)
    PROVE  SqlInv'
<1>1. t \in Threads /\ n \in Nat
  BY DEF Threads, SqlInv, SqlTyped, TablesTyped
<1>2. PICK c : c = [op |-> "reject", step |-> "write", run |-> r, attempt |-> n]
  OBVIOUS
<1>3. txn' = [txn EXCEPT ![t] = c] /\ UNCHANGED <<sqlTables, claim, clock>>
  BY <1>2 DEF SqlRejectCalled, Begin
<1>4. c \in RejectCalls
  BY <1>1, <1>2 DEF RejectCalls
<1>5. c \in StoreCalls /\ CallFits(c, t)
  BY <1>2, <1>4 DEF StoreCalls, CallFits
<1> QED
  BY <1>1, <1>3, <1>5, NewCallFits

LEMMA ReadDamagedFits ==
    ASSUME SqlInv, NEW t \in SqlRequests, NEW r \in SqlRuns, SqlReadDamaged(t, r)
    PROVE  SqlInv'
<1>1. t \in Threads /\ TablesTyped /\ inv \in Investigations
  BY DEF Threads, SqlInv, SqlTyped, TablesTyped
<1>2. PICK c : c = [op |-> "repair", step |-> "write", run |-> r, seen |-> row[r], read |-> inv,
                    open |-> OpenAttempts(r)]
  OBVIOUS
<1>3. /\ txn' = [txn EXCEPT ![t] = c] /\ UNCHANGED <<sqlTables, claim, clock>>
      /\ row[r].contract = "damaged"
  BY <1>2 DEF SqlReadDamaged, Begin
<1>4. row[r] \in RowRecords /\ row[r].seq \in Nat /\ Len(att[r]) \in Nat
  BY <1>1, RowOf
<1>5. /\ Held(r) => OpenAttempts(r) = {Len(att[r])}
      /\ ~Held(r) => OpenAttempts(r) = {}
  BY DEF SqlInv, RunsFit, RunFits, StatusFits
<1>6. OpenAttempts(r) \subseteq Nat
  BY <1>4, <1>5
<1>7. c \in RepairCalls
  BY <1>1, <1>2, <1>4, <1>6 DEF RepairCalls
<1>8. RepairCallFits(c)
  BY <1>2, <1>3, <1>4, <1>5 DEF RepairCallFits
<1>9. c \in StoreCalls /\ CallFits(c, t)
  BY <1>2, <1>7, <1>8 DEF StoreCalls, CallFits
<1> QED
  BY <1>1, <1>3, <1>9, NewCallFits

-----------------------------------------------------------------------------
(* Steps that write: what they have in common *)

OnlyAt(g, f, r, v) == g = [f EXCEPT ![r] = v] \/ (g = f /\ v = f[r])

LEMMA TablesAfter ==
    ASSUME TablesTyped, NEW r \in SqlRuns,
           NEW nr \in RowRecords, OnlyAt(row', row, r, nr),
           NEW na \in Seq(AttemptStatuses), OnlyAt(att', att, r, na),
           NEW nl \in SUBSET LogRows, OnlyAt(log', log, r, nl),
           NEW nc \in SUBSET Checkpoints, OnlyAt(ckpt', ckpt, r, nc),
           tool' \in [SqlRuns -> [SqlCalls -> ToolStates]], inv' \in Investigations
    PROVE  /\ TablesTyped'
           /\ row'[r] = nr /\ att'[r] = na /\ log'[r] = nl /\ ckpt'[r] = nc
           /\ \A q \in SqlRuns \ {r} : /\ row'[q] = row[q] /\ att'[q] = att[q] /\ log'[q] = log[q]
                                       /\ ckpt'[q] = ckpt[q]
<1>1. row' \in [SqlRuns -> RowRecords] /\ row'[r] = nr /\ \A q \in SqlRuns \ {r} : row'[q] = row[q]
  BY DEF OnlyAt, TablesTyped
<1>2. att' \in [SqlRuns -> Seq(AttemptStatuses)] /\ att'[r] = na
          /\ \A q \in SqlRuns \ {r} : att'[q] = att[q]
  BY DEF OnlyAt, TablesTyped
<1>3. log' \in [SqlRuns -> SUBSET LogRows] /\ log'[r] = nl /\ \A q \in SqlRuns \ {r} : log'[q] = log[q]
  BY DEF OnlyAt, TablesTyped
<1>4. ckpt' \in [SqlRuns -> SUBSET Checkpoints] /\ ckpt'[r] = nc
          /\ \A q \in SqlRuns \ {r} : ckpt'[q] = ckpt[q]
  BY DEF OnlyAt, TablesTyped
<1> QED
  BY <1>1, <1>2, <1>3, <1>4 DEF TablesTyped

LEMMA CheckpointsKept ==
    ASSUME TablesTyped, NEW r \in SqlRuns, row'[r] \in RowRecords, CheckpointsFit(r), ckpt'[r] = ckpt[r],
           log[r] \subseteq log'[r], row'[r].phase = row[r].phase, row'[r].turns <= row[r].turns
    PROVE  CheckpointsFit(r)'
<1>1. row[r].turns \in Nat /\ row'[r].turns \in Nat /\ \A k \in ckpt[r] : k.turns \in Nat
  <2>1. row[r].turns \in 0..SqlTurns /\ row'[r].turns \in 0..SqlTurns
    BY RowOf DEF RowRecords
  <2>2. \A k \in ckpt[r] : k.turns \in 0..SqlTurns
    BY DEF TablesTyped, Checkpoints
  <2> QED
    BY <2>1, <2>2, SqlAssumption
<1>2. \A k \in ckpt[r] :
          /\ [seq |-> k.seq, kind |-> "checkpoint", attempt |-> k.attempt] \in log[r]
          /\ k.turns >= row[r].turns
  BY Zenon DEF CheckpointsFit
<1>3. ASSUME NEW k \in ckpt[r] PROVE k.turns >= row'[r].turns
  <2>1. PICK n : n = k.turns
    OBVIOUS
  <2>2. n \in Nat /\ n >= row[r].turns
    BY <1>1, <1>2, <2>1, Zenon
  <2>3. n >= row'[r].turns
    BY <1>1, <2>2
  <2> QED
    BY <2>1, <2>3
<1> QED
  BY <1>2, <1>3 DEF CheckpointsFit

LEMMA BudgetKept ==
    ASSUME NEW r \in SqlRuns, BudgetFits(r), tool'[r] = tool[r], row'[r].v11 = row[r].v11,
           row'[r].status = "absent" => row[r].status = "absent"
    PROVE  BudgetFits(r)'
BY DEF BudgetFits, SqlConsumed, V11

LEMMA StatusKept ==
    ASSUME NEW r \in SqlRuns, StatusFits(r), att'[r] = att[r], NoDamageYet' => NoDamageYet,
           row'[r].owner = row[r].owner, row'[r].status = row[r].status,
           row'[r].contract = row[r].contract \/ row'[r].contract = "damaged",
           row'[r].phase = row[r].phase,
           row'[r].frozen = row[r].frozen \/ row[r].status \notin SqlEnded
    PROVE  StatusFits(r)'
BY DEF StatusFits, Held, OpenAttempts

\* A write of the calling worker, which has the lease.
LEMMA LeaseIs ==
    ASSUME SqlInv, NEW w \in SqlWorkers, NEW by \in Claims, ClaimStands(by, w), NEW at, LeaseHeld(by, at)
    PROVE  /\ by.run \in SqlRuns /\ Live(by) /\ row[by.run].owner = w /\ Held(by.run) /\ Open(by.run)
           /\ by.attempt = Len(att[by.run]) /\ OpenAttempts(by.run) = {Len(att[by.run])}
           /\ w \in Threads
<1>1. by.run \in SqlRuns /\ w \in Threads
  BY DEF Claims, Threads
<1>2. row[by.run].owner = w /\ Live(by) /\ by.attempt = Len(att[by.run])
  BY DEF LeaseHeld, Live, ClaimStands
<1>3. Open(by.run) /\ Held(by.run)
  BY <1>1, <1>2, OwnerIsOpen DEF SqlInv
<1>4. OpenAttempts(by.run) = {Len(att[by.run])}
  BY <1>1, <1>3 DEF SqlInv, RunsFit, RunFits, StatusFits
<1> QED
  BY <1>1, <1>2, <1>3, <1>4

\* Its own call ends, and nobody else's depends on its run.
LEMMA ReturnFits ==
    ASSUME SqlTyped, NEW w \in Threads, NEW r \in SqlRuns, row[r].owner = w, Return(w)
    PROVE  /\ \A t \in Threads : (txn'[t] = txn[t] /\ Leaves(r, t)) \/ CallFits(txn[t], t)'
           /\ txn' \in [Threads -> StoreCalls]
<1>1. txn' = [txn EXCEPT ![w] = NoCall] /\ txn \in [Threads -> StoreCalls]
  BY DEF Return, SqlTyped
<1>2. ASSUME NEW t \in Threads PROVE (txn'[t] = txn[t] /\ Leaves(r, t)) \/ CallFits(txn[t], t)'
  <2>1. CASE t = w
    <3>1. txn'[t] = NoCall
      BY <1>1, <2>1
    <3> QED
      BY <3>1 DEF CallFits, NoCall
  <2>2. CASE t # w
    <3>1. Leaves(r, t)
      BY <2>2 DEF Leaves
    <3> QED
      BY <1>1, <2>2, <3>1
  <2> QED
    BY <2>1, <2>2
<1> QED
  BY <1>1, <1>2, NoCallFits

\* A request's call ends; what it wrote is no business of a worker's call.
LEMMA AnswerFits ==
    ASSUME SqlTyped, NEW t \in Threads, Return(t), NEW r,
           \A u \in Threads : Leaves(r, u)
    PROVE  /\ \A u \in Threads : (txn'[u] = txn[u] /\ Leaves(r, u)) \/ CallFits(txn[u], u)'
           /\ txn' \in [Threads -> StoreCalls]
<1>1. txn' = [txn EXCEPT ![t] = NoCall] /\ txn \in [Threads -> StoreCalls]
  BY DEF Return, SqlTyped
<1>2. ASSUME NEW u \in Threads PROVE (txn'[u] = txn[u] /\ Leaves(r, u)) \/ CallFits(txn[u], u)'
  <2>1. CASE u = t
    <3>1. txn'[u] = NoCall
      BY <1>1, <2>1
    <3> QED
      BY <3>1 DEF CallFits, NoCall
  <2>2. CASE u # t
    BY <1>1, <2>2
  <2> QED
    BY <2>1, <2>2
<1> QED
  BY <1>1, <1>2, NoCallFits

-----------------------------------------------------------------------------
(* Creation, lease, budget *)

\* A step that writes only the row of r.
LEMMA RowFits ==
    ASSUME SqlInv, NEW r \in SqlRuns, NEW nr \in RowRecords, row' = [row EXCEPT ![r] = nr],
           UNCHANGED <<att, log, ckpt, tool, inv, clock, txn, claim>>,
           Moves(r), nr.seq = row[r].seq, nr.phase = row[r].phase,
           nr.status = "absent" => row[r].status = "absent",
           row[r].status \in SqlEnded => nr.status \in SqlEnded,
           BudgetFits(r)', StatusFits(r)',
           nr.status \in SqlOpen => Open(r) \/ \A q \in SqlRuns : ~Open(q),
           nr.status \in SqlOpen /\ nr.phase > 0 => Open(r) /\ nr.v11 = row[r].v11
    PROVE  SqlInv'
<1>1. TablesTyped /\ RunFits(r)
  BY DEF SqlInv, SqlTyped, RunsFit
<1>2. PICK na : na = att[r]
  OBVIOUS
<1>3. PICK nl : nl = log[r]
  OBVIOUS
<1>4. PICK nc : nc = ckpt[r]
  OBVIOUS
<1>5. na \in Seq(AttemptStatuses) /\ nl \in SUBSET LogRows /\ nc \in SUBSET Checkpoints
  BY <1>1, <1>2, <1>3, <1>4, RowOf
<1>6. OnlyAt(row', row, r, nr) /\ OnlyAt(att', att, r, na) /\ OnlyAt(log', log, r, nl)
          /\ OnlyAt(ckpt', ckpt, r, nc)
  BY <1>2, <1>3, <1>4 DEF OnlyAt
<1>7. tool' \in [SqlRuns -> [SqlCalls -> ToolStates]] /\ inv' \in Investigations
  BY <1>1 DEF TablesTyped
<1>8. /\ TablesTyped'
      /\ row'[r] = nr /\ att'[r] = na /\ log'[r] = nl /\ ckpt'[r] = nc
      /\ \A q \in SqlRuns \ {r} : /\ row'[q] = row[q] /\ att'[q] = att[q] /\ log'[q] = log[q]
                                  /\ ckpt'[q] = ckpt[q]
  BY <1>1, <1>5, <1>6, <1>7, TablesAfter
<1>9. SqlTyped'
  BY <1>8 DEF SqlInv, SqlTyped
<1>10. LogFits(r)'
  <2>1. Len(att'[r]) \in Nat /\ Len(att'[r]) >= Len(att[r])
    BY <1>1, RowOf
  <2> QED
    BY <1>1, <1>8, <2>1, LogStays DEF RunFits
<1>11. CheckpointsFit(r)'
  <2>1. row'[r] \in RowRecords /\ log[r] \subseteq log'[r] /\ row'[r].turns <= row[r].turns
    BY <1>8 DEF Moves
  <2> QED
    BY <1>1, <1>8, <2>1, CheckpointsKept DEF RunFits
<1>12. RunFits(r)'
  BY <1>10, <1>11 DEF RunFits
<1>13. NoDamageYet' /\ Open(r)' => Shows(inv, r)'
  <2> SUFFICES ASSUME NoDamageYet', Open(r)', row'[r].phase > 0
               PROVE  (V11(r) => inv.owner = r)' /\ inv'.done = row'[r].phase
    BY DEF Shows
  <2>1. Open(r) /\ nr.v11 = row[r].v11
    BY <1>8 DEF Open
  <2>2. NoDamageYet
    BY <1>8 DEF NoDamageYet, Moves
  <2>3. Shows(inv, r)
    BY <2>1, <2>2 DEF SqlInv, ProjectionFits
  <2> QED
    BY <1>8, <2>1, <2>3 DEF Shows, V11
<1>14. SameProjection /\ (Open(r)' => Open(r) \/ \A q \in SqlRuns : ~Open(q))
  BY <1>8 DEF SameProjection, Open
<1>15. \A t \in Threads : txn'[t] = txn[t] /\ Leaves(r, t)
  BY <1>8 DEF Leaves
<1>16. \A w \in SqlWorkers : claim'[w] \in {claim[w], NoClaim}
  OBVIOUS
<1> QED
  BY <1>8, <1>9, <1>12, <1>13, <1>14, <1>15, <1>16, StepFits

LEMMA CreateFits ==
    ASSUME SqlInv, NEW r \in SqlRuns, NEW v11 \in BOOLEAN, SqlCreate(r, v11)
    PROVE  SqlInv'
<1>1. TablesTyped /\ RunFits(r) /\ row[r] \in RowRecords /\ row[r].version \in Nat
          /\ row[r].seq \in Nat /\ row[r].turns \in Nat
  BY RowOf, SqlAssumption DEF SqlInv, SqlTyped, RunsFit
<1>2. PICK nr : nr = [row[r] EXCEPT !.status = "created", !.v11 = v11]
  OBVIOUS
<1>3. nr \in RowRecords /\ nr.status = "created" /\ nr.owner = row[r].owner
          /\ nr.version = row[r].version /\ nr.seq = row[r].seq /\ nr.phase = row[r].phase
          /\ nr.turns = row[r].turns /\ nr.contract = row[r].contract
  BY <1>1, <1>2 DEF RowRecords, RunStatuses, SqlOpen
<1>4. row' = [row EXCEPT ![r] = nr]
  BY <1>1, <1>2 DEF SqlCreate, TablesTyped
<1>5. row[r].status = "absent" /\ (\A q \in SqlRuns : ~Open(q))
          /\ UNCHANGED <<att, log, ckpt, tool, inv, clock, txn, claim>>
  BY DEF SqlCreate, Open
<1>6. row'[r] = nr /\ row[r].phase = 0 /\ SqlConsumed(r) = {} /\ row[r].contract # "repaired"
          /\ row[r].owner = 0 /\ OpenAttempts(r) = {}
  BY <1>1, <1>4, <1>5 DEF RunFits, StatusFits, BudgetFits, Held, SqlHeld, TablesTyped
<1>7. Moves(r)
  BY <1>1, <1>3, <1>5, <1>6 DEF Moves, SqlHeld
<1>8. BudgetFits(r)'
  <2>1. SqlConsumed(r)' = {}
    BY <1>5, <1>6 DEF SqlConsumed
  <2> QED
    BY <2>1, FS_EmptySet, SqlAssumption DEF BudgetFits
<1>9. StatusFits(r)'
  <2>1. OpenAttempts(r)' = {}
    BY <1>5, <1>6 DEF OpenAttempts
  <2> QED
    BY <1>3, <1>6, <2>1 DEF StatusFits, Held, SqlHeld, SqlEnded
<1>10. "absent" \notin SqlEnded /\ nr.status # "absent"
  BY <1>3 DEF SqlEnded
<1>11. ~(nr.phase > 0)
  BY <1>3, <1>6
<1>12. /\ nr.status \in SqlOpen => Open(r) \/ \A q \in SqlRuns : ~Open(q)
       /\ nr.status \in SqlOpen /\ nr.phase > 0 => Open(r) /\ nr.v11 = row[r].v11
       /\ row[r].status \in SqlEnded => nr.status \in SqlEnded
       /\ nr.status = "absent" => row[r].status = "absent"
  BY <1>5, <1>10, <1>11
<1> QED
  BY <1>3, <1>4, <1>5, <1>7, <1>8, <1>9, <1>12, RowFits

LEMMA RenewFits ==
    ASSUME SqlInv, NEW w \in SqlWorkers, SqlRenew(w)
    PROVE  SqlInv'
<1> DEFINE r == claim[w].run
<1>1. claim[w] \in Claims /\ r \in SqlRuns
  BY ClaimOf DEF SqlRenew, SqlWorks
<1>2. TablesTyped /\ RunFits(r) /\ row[r] \in RowRecords /\ clock \in Nat /\ row[r].version \in Nat
          /\ row[r].seq \in Nat /\ row[r].turns \in Nat
  BY <1>1, RowOf, SqlAssumption DEF SqlInv, SqlTyped, RunsFit
<1>3. PICK e \in Nat : e = clock + SqlLease
  BY <1>2, SqlAssumption
<1>4. PICK nr : nr = [row[r] EXCEPT !.expires = e]
  OBVIOUS
<1>5. nr \in RowRecords /\ nr.status = row[r].status /\ nr.owner = row[r].owner
          /\ nr.version = row[r].version /\ nr.seq = row[r].seq /\ nr.phase = row[r].phase
          /\ nr.turns = row[r].turns /\ nr.contract = row[r].contract /\ nr.v11 = row[r].v11
          /\ nr.frozen = row[r].frozen
  BY <1>2, <1>4 DEF RowRecords
<1>6. row' = [row EXCEPT ![r] = nr]
  BY <1>1, <1>2, <1>3, <1>4 DEF SqlRenew, TablesTyped
<1>7. UNCHANGED <<att, log, ckpt, tool, inv, clock, txn, claim>> /\ row'[r] = nr
  BY <1>1, <1>2, <1>6 DEF SqlRenew, TablesTyped
<1>8. Moves(r)
  BY <1>2, <1>5, <1>7 DEF Moves
<1>9. NoDamageYet' => NoDamageYet
  BY <1>1, <1>2, <1>5, <1>6 DEF NoDamageYet, TablesTyped
<1>10. BudgetFits(r)' /\ StatusFits(r)'
  BY <1>1, <1>2, <1>5, <1>7, <1>9, BudgetKept, StatusKept DEF RunFits
<1> QED
  BY <1>1, <1>5, <1>6, <1>7, <1>8, <1>10, RowFits DEF Open

LEMMA ReserveTurnFits ==
    ASSUME SqlInv, NEW w \in SqlWorkers, SqlReserveTurn(w)
    PROVE  SqlInv'
<1> DEFINE r == claim[w].run
<1>1. claim[w] \in Claims /\ r \in SqlRuns
  BY ClaimOf DEF SqlReserveTurn, SqlWorks
<1>2. TablesTyped /\ RunFits(r) /\ row[r] \in RowRecords /\ row[r].version \in Nat
          /\ row[r].seq \in Nat /\ row[r].turns \in 0..SqlTurns
  BY <1>1, RowOf DEF SqlInv, SqlTyped, RunsFit
<1>3. PICK n \in 0..SqlTurns : n = row[r].turns - 1 /\ n <= row[r].turns
  <2>1. row[r].turns > 0
    BY DEF SqlReserveTurn
  <2>2. row[r].turns - 1 \in 0..SqlTurns /\ row[r].turns - 1 <= row[r].turns
    BY <1>2, <2>1, SqlAssumption
  <2> QED
    BY <2>2
<1>4. PICK nr : nr = [row[r] EXCEPT !.turns = n]
  OBVIOUS
<1>5. nr \in RowRecords /\ nr.status = row[r].status /\ nr.owner = row[r].owner
          /\ nr.version = row[r].version /\ nr.seq = row[r].seq /\ nr.phase = row[r].phase
          /\ nr.turns = n /\ nr.contract = row[r].contract /\ nr.v11 = row[r].v11
          /\ nr.frozen = row[r].frozen
  BY <1>2, <1>4 DEF RowRecords
<1>6. row' = [row EXCEPT ![r] = nr]
  BY <1>1, <1>2, <1>3, <1>4 DEF SqlReserveTurn, TablesTyped
<1>7. UNCHANGED <<att, log, ckpt, tool, inv, clock, txn, claim>> /\ row'[r] = nr
  BY <1>1, <1>2, <1>6 DEF SqlReserveTurn, TablesTyped
<1>8. Moves(r)
  BY <1>2, <1>3, <1>5, <1>7 DEF Moves
<1>9. NoDamageYet' => NoDamageYet
  BY <1>1, <1>2, <1>5, <1>6 DEF NoDamageYet, TablesTyped
<1>10. BudgetFits(r)' /\ StatusFits(r)'
  BY <1>1, <1>2, <1>5, <1>7, <1>9, BudgetKept, StatusKept DEF RunFits
<1> QED
  BY <1>1, <1>5, <1>6, <1>7, <1>8, <1>10, RowFits DEF Open

LEMMA DamagedFits ==
    ASSUME SqlInv, NEW r \in SqlRuns, ContractDamaged(r)
    PROVE  SqlInv'
<1>2. TablesTyped /\ RunFits(r) /\ row[r] \in RowRecords /\ row[r].version \in Nat
          /\ row[r].seq \in Nat /\ row[r].turns \in Nat
  BY RowOf, SqlAssumption DEF SqlInv, SqlTyped, RunsFit
<1>4. PICK nr : nr = [row[r] EXCEPT !.contract = "damaged"]
  OBVIOUS
<1>5. nr \in RowRecords /\ nr.status = row[r].status /\ nr.owner = row[r].owner
          /\ nr.version = row[r].version /\ nr.seq = row[r].seq /\ nr.phase = row[r].phase
          /\ nr.turns = row[r].turns /\ nr.contract = "damaged" /\ nr.v11 = row[r].v11
          /\ nr.frozen = row[r].frozen
  BY <1>2, <1>4 DEF RowRecords
<1>6. row' = [row EXCEPT ![r] = nr]
  BY <1>2, <1>4 DEF ContractDamaged, TablesTyped
<1>7. UNCHANGED <<att, log, ckpt, tool, inv, clock, txn, claim>> /\ row'[r] = nr
  BY <1>2, <1>6 DEF ContractDamaged, TablesTyped
<1>8. Moves(r)
  BY <1>2, <1>5, <1>7 DEF Moves
<1>9. ~NoDamageYet'
  BY <1>5, <1>7 DEF NoDamageYet
<1>10. BudgetFits(r)' /\ StatusFits(r)'
  BY <1>2, <1>5, <1>7, <1>9, BudgetKept, StatusKept DEF RunFits
<1> QED
  BY <1>5, <1>6, <1>7, <1>8, <1>10, RowFits DEF Open

LEMMA DecisionFits ==
    ASSUME SqlInv, NEW d \in {"approved", "rejected", "done", "skipped"}, HumanDecides(d)
    PROVE  SqlInv'
<1>1. TablesTyped /\ inv \in Investigations
  BY DEF SqlInv, SqlTyped, TablesTyped
<1>2. /\ inv' = [inv EXCEPT !.actions = d] /\ UNCHANGED <<row, att, log, ckpt, tool>>
      /\ UNCHANGED <<clock, txn, claim>>
  BY DEF HumanDecides
<1>3. inv' \in Investigations /\ inv'.owner = inv.owner /\ inv'.done = inv.done
  BY <1>1, <1>2 DEF Investigations
<1>4. TablesTyped'
  BY <1>1, <1>2, <1>3 DEF TablesTyped
<1>5. SqlTyped'
  BY <1>2, <1>4 DEF SqlInv, SqlTyped
<1> QED
  BY <1>2, <1>3, <1>5, SameFits

-----------------------------------------------------------------------------
(* Writes that append events *)

LEMMA InsertTyped ==
    ASSUME TablesTyped, NEW r \in SqlRuns, NEW es \in Seq(NewRows)
    PROVE  log[r] \cup Numbered(row[r].seq, es) \in SUBSET LogRows
BY RowOf, NumberedAre

LEMMA ReturnTyped ==
    ASSUME SqlTyped, TablesTyped', NEW t \in Threads, Return(t), clock' = clock, claim' = claim
    PROVE  SqlTyped'
<1>1. txn' \in [Threads -> StoreCalls]
  BY NoCallFits DEF Return, SqlTyped
<1> QED
  BY <1>1 DEF SqlTyped

LEMMA OneRow ==
    ASSUME NEW k \in EventKinds, NEW a \in Nat
    PROVE  /\ <<Row(k, a)>> \in Seq(NewRows) /\ Len(<<Row(k, a)>>) = 1
           /\ <<Row(k, a)>>[1].kind = k /\ <<Row(k, a)>>[1].attempt = a
BY DEF Row, NewRows

LEMMA TwoRows ==
    ASSUME NEW k \in EventKinds, NEW m \in EventKinds, NEW a \in Nat
    PROVE  /\ <<Row(k, a), Row(m, a)>> \in Seq(NewRows) /\ Len(<<Row(k, a), Row(m, a)>>) = 2
           /\ <<Row(k, a), Row(m, a)>>[1].kind = k /\ <<Row(k, a), Row(m, a)>>[1].attempt = a
           /\ <<Row(k, a), Row(m, a)>>[2].kind = m /\ <<Row(k, a), Row(m, a)>>[2].attempt = a
BY DEF Row, NewRows

LEMMA CallsInterruptedAre ==
    ASSUME TablesTyped, NEW r \in SqlRuns, tool' = CallsInterrupted(r)
    PROVE  /\ tool' \in [SqlRuns -> [SqlCalls -> ToolStates]]
           /\ \A q \in SqlRuns \ {r} : tool'[q] = tool[q]
           /\ SqlConsumed(r)' = SqlConsumed(r)
<1>1. PICK nt : nt = [k \in SqlCalls |-> IF tool[r][k] = "running" THEN "interrupted" ELSE tool[r][k]]
  OBVIOUS
<1>2. tool' = [tool EXCEPT ![r] = nt] /\ tool[r] \in [SqlCalls -> ToolStates]
  BY <1>1, RowOf DEF CallsInterrupted
<1>3. nt \in [SqlCalls -> ToolStates] /\ \A k \in SqlCalls : nt[k] # "none" <=> tool[r][k] # "none"
  BY <1>1, <1>2 DEF ToolStates, ToolOver
<1>4. tool' \in [SqlRuns -> [SqlCalls -> ToolStates]] /\ tool'[r] = nt
          /\ \A q \in SqlRuns \ {r} : tool'[q] = tool[q]
  BY <1>2, <1>3 DEF TablesTyped
<1> QED
  BY <1>3, <1>4 DEF SqlConsumed

\* The last attempt, which was the open one, ends.
LEMMA AttemptEnds ==
    ASSUME TablesTyped, NEW r \in SqlRuns, OpenAttempts(r) = {Len(att[r])},
           NEW s \in AttemptStatuses, s # "running", NEW na, na = [att[r] EXCEPT ![Len(att[r])] = s]
    PROVE  /\ na \in Seq(AttemptStatuses) /\ Len(na) = Len(att[r])
           /\ att'[r] = na => OpenAttempts(r)' = {}
<1>1. att[r] \in Seq(AttemptStatuses) /\ Len(att[r]) \in Nat
  BY RowOf
<1>2. Len(att[r]) \in 1..Len(att[r])
  <2>1. Len(att[r]) \in DOMAIN att[r]
    BY DEF OpenAttempts
  <2> QED
    BY <1>1, <2>1
<1>4. na \in Seq(AttemptStatuses) /\ Len(na) = Len(att[r])
          /\ \A i \in 1..Len(att[r]) : na[i] = IF i = Len(att[r]) THEN s ELSE att[r][i]
  BY <1>1, <1>2, ExceptSeq
<1>3. \A i \in DOMAIN na : na[i] # "running"
  <2>1. \A i \in DOMAIN att[r] : i # Len(att[r]) => att[r][i] # "running"
    BY DEF OpenAttempts
  <2>2. DOMAIN na = 1..Len(att[r]) /\ DOMAIN att[r] = 1..Len(att[r])
    BY <1>1, <1>4
  <2> QED
    BY <1>4, <2>1, <2>2
<1> QED
  BY <1>4, <1>3 DEF OpenAttempts

\* A worker with the lease adds an event, and changes nothing else of its run's rows.
LEMMA EventAdded ==
    ASSUME SqlInv, NEW r \in SqlRuns, Held(r), NEW es \in Seq(NewRows), Len(es) = 1,
           es[1].kind \in {"work", "tool"}, es[1].attempt = Len(att[r]),
           Insert(r, row[r].seq, es), row' = [row EXCEPT ![r].seq = row[r].seq + 1],
           UNCHANGED <<att, ckpt>>
    PROVE  /\ row' \in [SqlRuns -> RowRecords] /\ row'[r].phase = row[r].phase
           /\ row'[r].v11 = row[r].v11 /\ row'[r].status = row[r].status
           /\ log' \in [SqlRuns -> SUBSET LogRows]
           /\ \A q \in SqlRuns \ {r} : row'[q] = row[q] /\ log'[q] = log[q]
           /\ Moves(r) /\ (NoDamageYet' => NoDamageYet)
           /\ LogFits(r)' /\ CheckpointsFit(r)' /\ StatusFits(r)'
<1>2. TablesTyped /\ RunFits(r) /\ row[r] \in RowRecords /\ row[r].version \in Nat
          /\ row[r].seq \in Nat /\ row[r].turns \in 0..SqlTurns /\ Len(att[r]) \in Nat
  BY RowOf DEF SqlInv, SqlTyped, RunsFit
<1>3. PICK n \in Nat : n = row[r].seq + 1
  BY <1>2
<1>4. PICK nr : nr = [row[r] EXCEPT !.seq = n]
  OBVIOUS
<1>5. nr \in RowRecords /\ nr.status = row[r].status /\ nr.owner = row[r].owner
          /\ nr.version = row[r].version /\ nr.seq = n /\ nr.phase = row[r].phase
          /\ nr.turns = row[r].turns /\ nr.contract = row[r].contract /\ nr.v11 = row[r].v11
          /\ nr.frozen = row[r].frozen
  BY <1>2, <1>4 DEF RowRecords
<1>6. row' = [row EXCEPT ![r] = nr]
  BY <1>2, <1>3, <1>4 DEF TablesTyped
<1>7. row' \in [SqlRuns -> RowRecords] /\ row'[r] = nr /\ \A q \in SqlRuns \ {r} : row'[q] = row[q]
  BY <1>2, <1>5, <1>6 DEF TablesTyped
<1>10. PICK nl : nl = log[r] \cup Numbered(row[r].seq, es)
  OBVIOUS
<1>11. nl \in SUBSET LogRows /\ log' = [log EXCEPT ![r] = nl]
  BY <1>2, <1>10, InsertTyped DEF Insert
<1>12. log' \in [SqlRuns -> SUBSET LogRows] /\ log'[r] = nl /\ \A q \in SqlRuns \ {r} : log'[q] = log[q]
  BY <1>2, <1>11 DEF TablesTyped
<1>13. LogFits(r)' /\ log[r] \subseteq log'[r]
  <2>1. /\ \A i \in 1..Len(es) : es[i].kind \in {"work", "tool"} /\ es[i].attempt = Len(att[r])
        /\ "work" \notin EndEvent /\ "tool" \notin EndEvent /\ row[r].status \notin SqlEnded
    BY DEF EndEvent, Held, SqlHeld, SqlEnded
  <2>2. /\ row'[r].seq = row[r].seq + Len(es) /\ Len(att'[r]) = Len(att[r])
        /\ log'[r] = log[r] \cup Numbered(row[r].seq, es) /\ LogFits(r)
    BY <1>2, <1>3, <1>5, <1>7, <1>10, <1>12 DEF RunFits
  <2> QED
    BY <1>2, <2>1, <2>2, LogGrows
<1>14. Moves(r)
  BY <1>2, <1>3, <1>5, <1>7 DEF Moves
<1>15. NoDamageYet' => NoDamageYet
  BY <1>5, <1>7 DEF NoDamageYet
<1>16. CheckpointsFit(r)'
  BY <1>2, <1>5, <1>7, <1>13, <1>14, CheckpointsKept DEF RunFits, Moves
<1>17. StatusFits(r)'
  BY <1>2, <1>5, <1>7, <1>15, StatusKept DEF RunFits
<1> QED
  BY <1>5, <1>7, <1>12, <1>13, <1>14, <1>15, <1>16, <1>17

LEMMA AppendFits ==
    ASSUME SqlInv, NEW w \in SqlWorkers, SqlAppend(w)
    PROVE  SqlInv'
<1>1. w \in Threads /\ SqlTyped /\ TablesTyped
  BY DEF Threads, SqlInv, SqlTyped
<1>2. CASE Fails(w)
  BY <1>1, <1>2, FailsFits
<1>3. CASE ~Fails(w)
  <2>1. PICK c : c = txn[w]
    OBVIOUS
  <2>2. c \in EventCalls /\ CallFits(c, w)
    BY <1>1, <2>1, CallOf, KindsOf DEF SqlAppend, InCall
  <2>3. PICK r : r = c.by.run
    OBVIOUS
  <2>4. c.by \in Claims /\ ClaimStands(c.by, w)
    BY <2>2 DEF CallFits, EventCalls
  <2>5. LeaseHeld(c.by, c.at)
    BY <1>3, <2>1 DEF SqlAppend, Fenced
  <2>30. PICK es : es = <<Row("work", c.by.attempt)>>
    OBVIOUS
  <2>31. /\ r \in SqlRuns /\ Open(r) /\ Held(r) /\ row[r].owner = w
         /\ c.by.attempt = Len(att[r]) /\ row[r].status # "absent"
    BY <2>3, <2>4, <2>5, LeaseIs DEF Held, SqlHeld
  <2>32. "work" \in EventKinds /\ c.by.attempt \in Nat
    BY <2>4 DEF EventKinds, Claims
  <2>33. /\ es \in Seq(NewRows) /\ Len(es) = 1 /\ es[1].kind \in {"work", "tool"}
         /\ es[1].attempt = Len(att[r])
    BY <2>30, <2>31, <2>32, OneRow
  <2>6. Insert(r, row[r].seq, es)
            /\ UNCHANGED <<att, ckpt, tool, inv, clock, claim>> /\ Return(w)
    BY <1>3, <2>1, <2>3, <2>30, Zenon DEF SqlAppend, Appended
  <2>7. row' = [row EXCEPT ![r].seq = row[r].seq + 1]
    BY <1>3, <2>1, <2>3 DEF SqlAppend
  <2>8. /\ row' \in [SqlRuns -> RowRecords] /\ row'[r].phase = row[r].phase
        /\ row'[r].v11 = row[r].v11 /\ row'[r].status = row[r].status
        /\ log' \in [SqlRuns -> SUBSET LogRows]
        /\ \A q \in SqlRuns \ {r} : row'[q] = row[q] /\ log'[q] = log[q]
        /\ Moves(r) /\ (NoDamageYet' => NoDamageYet)
        /\ LogFits(r)' /\ CheckpointsFit(r)' /\ StatusFits(r)'
    BY <2>6, <2>7, <2>31, <2>33, EventAdded
  <2>9. TablesTyped'
    BY <1>1, <2>6, <2>8, <2>31 DEF TablesTyped
  <2>10. SqlTyped'
    BY <1>1, <2>6, <2>9, ReturnTyped
  <2>11. BudgetFits(r)'
    BY <2>6, <2>8, <2>31, BudgetKept DEF SqlInv, RunsFit, RunFits
  <2>12. RunFits(r)'
    BY <2>8, <2>11 DEF RunFits
  <2>13. NoDamageYet' /\ Open(r)' => Shows(inv, r)'
    BY <2>6, <2>8, <2>31 DEF SqlInv, ProjectionFits, Shows, V11
  <2>14. \A t \in Threads : (txn'[t] = txn[t] /\ Leaves(r, t)) \/ CallFits(txn[t], t)'
    BY <1>1, <2>6, <2>8, <2>31, ReturnFits
  <2>15. /\ \A q \in SqlRuns \ {r} : /\ row'[q] = row[q] /\ att'[q] = att[q] /\ log'[q] = log[q]
                                      /\ ckpt'[q] = ckpt[q] /\ tool'[q] = tool[q]
         /\ \A v \in SqlWorkers : claim'[v] \in {claim[v], NoClaim}
    BY <2>6, <2>8, <2>31
  <2> QED
    BY <2>8, <2>31, <2>10, <2>12, <2>13, <2>14, <2>15, StepFits
<1> QED
  BY <1>2, <1>3

LEMMA CommitToolFits ==
    ASSUME SqlInv, NEW w \in SqlWorkers, SqlCommitTool(w)
    PROVE  SqlInv'
<1>1. w \in Threads /\ SqlTyped /\ TablesTyped
  BY DEF Threads, SqlInv, SqlTyped
<1>2. CASE Fails(w)
  BY <1>1, <1>2, FailsFits
<1>3. CASE ~Fails(w)
  <2>1. PICK c : c = txn[w]
    OBVIOUS
  <2>2. c \in ToolCalls /\ CallFits(c, w) /\ c.step = "write"
    BY <1>1, <2>1, CallOf, KindsOf DEF SqlCommitTool, InCall
  <2>3. PICK r : r = c.by.run
    OBVIOUS
  <2>4. c.by \in Claims /\ ClaimStands(c.by, w) /\ ToolCallFits(c)
    BY <2>2 DEF CallFits, ToolCalls
  <2>5. LeaseHeld(c.by, c.at)
    BY <1>3, <2>1 DEF SqlCommitTool, Fenced
  <2>30. PICK es : es = <<Row("tool", c.by.attempt)>>
    OBVIOUS
  <2>31. /\ r \in SqlRuns /\ Open(r) /\ Held(r) /\ row[r].owner = w
         /\ c.by.attempt = Len(att[r]) /\ row[r].status # "absent"
    BY <2>3, <2>4, <2>5, LeaseIs DEF Held, SqlHeld
  <2>32. "tool" \in EventKinds /\ c.by.attempt \in Nat
    BY <2>4 DEF EventKinds, Claims
  <2>33. /\ es \in Seq(NewRows) /\ Len(es) = 1 /\ es[1].kind \in {"work", "tool"}
         /\ es[1].attempt = Len(att[r])
    BY <2>30, <2>31, <2>32, OneRow
  <2>6. Insert(r, row[r].seq, es)
            /\ UNCHANGED <<att, ckpt, clock, claim>> /\ Return(w)
    BY <1>3, <2>1, <2>3, <2>30, Zenon DEF SqlCommitTool, Appended
  <2>7. row' = [row EXCEPT ![r].seq = row[r].seq + 1]
    BY <1>3, <2>1, <2>3 DEF SqlCommitTool
  <2>8. /\ row' \in [SqlRuns -> RowRecords] /\ row'[r].phase = row[r].phase
        /\ row'[r].v11 = row[r].v11 /\ row'[r].status = row[r].status
        /\ log' \in [SqlRuns -> SUBSET LogRows]
        /\ \A q \in SqlRuns \ {r} : row'[q] = row[q] /\ log'[q] = log[q]
        /\ Moves(r) /\ (NoDamageYet' => NoDamageYet)
        /\ LogFits(r)' /\ CheckpointsFit(r)' /\ StatusFits(r)'
    BY <2>6, <2>7, <2>31, <2>33, EventAdded
  <2>16. inv' = IF c.outcome = "running" THEN inv ELSE c.read
    BY <1>3, <2>1 DEF SqlCommitTool
  <2>17. PICK nt : nt = [tool[r] EXCEPT ![c.id] = c.outcome]
    OBVIOUS
  <2>18. tool' = [tool EXCEPT ![r] = nt]
    BY <1>3, <2>1, <2>3, <2>17, Zenon DEF SqlCommitTool
  <2>19. /\ tool[r] \in [SqlCalls -> ToolStates] /\ c.id \in SqlCalls
         /\ c.outcome \in {"running", "success"} /\ c.read \in Investigations
    BY <1>1, <2>2, <2>31, RowOf DEF ToolCalls
  <2>20. nt \in [SqlCalls -> ToolStates] /\ nt[c.id] = c.outcome
             /\ \A k \in SqlCalls \ {c.id} : nt[k] = tool[r][k]
    BY <2>17, <2>19 DEF ToolStates, ToolOver
  <2>21. tool' \in [SqlRuns -> [SqlCalls -> ToolStates]] /\ tool'[r] = nt
             /\ \A q \in SqlRuns \ {r} : tool'[q] = tool[q]
    BY <1>1, <2>18, <2>20, <2>31 DEF TablesTyped
  <2>9. TablesTyped'
    BY <1>1, <2>6, <2>8, <2>31, <2>16, <2>19, <2>21 DEF TablesTyped
  <2>10. SqlTyped'
    BY <1>1, <2>6, <2>9, ReturnTyped
  <2>22. Live(c.by)
    BY <2>4, <2>5, LeaseIs
  <2>11. BudgetFits(r)'
    <3> SUFFICES ASSUME V11(r)' PROVE Cardinality(SqlConsumed(r)') <= SqlToolBudget
      BY <2>8, <2>31 DEF BudgetFits
    <3>1. V11(r) /\ Cardinality(SqlConsumed(r)) <= SqlToolBudget
      BY <2>8, <2>31 DEF SqlInv, RunsFit, RunFits, BudgetFits, V11
    <3>2. CASE tool[r][c.id] # "none"
      <4>1. SqlConsumed(r)' = SqlConsumed(r)
        BY <2>19, <2>20, <2>21, <3>2 DEF SqlConsumed
      <4> QED
        BY <3>1, <4>1
    <3>3. CASE tool[r][c.id] = "none"
      <4>1. Cardinality(SqlConsumed(r)) < SqlToolBudget
        BY <2>2, <2>3, <2>4, <2>19, <2>22, <3>1, <3>3 DEF ToolCallFits, Admits
      <4>2. SqlConsumed(r)' = SqlConsumed(r) \cup {c.id} /\ c.id \notin SqlConsumed(r)
        BY <2>19, <2>20, <2>21, <3>3 DEF SqlConsumed
      <4>3. IsFiniteSet(SqlConsumed(r))
        BY FS_Subset, SqlAssumption DEF SqlConsumed
      <4>4. Cardinality(SqlConsumed(r)) \in Nat
                /\ Cardinality(SqlConsumed(r)') = Cardinality(SqlConsumed(r)) + 1
        BY <4>2, <4>3, FS_AddElement, FS_CardinalityType
      <4> QED
        BY <4>1, <4>4, SqlAssumption
    <3> QED
      BY <3>2, <3>3
  <2>12. RunFits(r)'
    BY <2>8, <2>11 DEF RunFits
  <2>13. NoDamageYet' /\ Open(r)' => Shows(inv, r)'
    <3> SUFFICES ASSUME NoDamageYet' PROVE Shows(inv, r)'
      OBVIOUS
    <3>1. Shows(inv, r)
      BY <2>8, <2>31 DEF SqlInv, ProjectionFits
    <3>2. inv'.owner = inv.owner /\ inv'.done = inv.done
      BY <2>2, <2>4, <2>8, <2>31, <2>16, <2>22 DEF ToolCallFits
    <3> QED
      BY <2>8, <2>31, <3>1, <3>2 DEF Shows, V11
  <2>14. \A t \in Threads : (txn'[t] = txn[t] /\ Leaves(r, t)) \/ CallFits(txn[t], t)'
    BY <1>1, <2>6, <2>8, <2>31, ReturnFits
  <2>15. /\ \A q \in SqlRuns \ {r} : /\ row'[q] = row[q] /\ att'[q] = att[q] /\ log'[q] = log[q]
                                      /\ ckpt'[q] = ckpt[q] /\ tool'[q] = tool[q]
         /\ \A v \in SqlWorkers : claim'[v] \in {claim[v], NoClaim}
    BY <2>6, <2>8, <2>31, <2>21
  <2> QED
    BY <2>8, <2>31, <2>10, <2>12, <2>13, <2>14, <2>15, StepFits
<1> QED
  BY <1>2, <1>3

-----------------------------------------------------------------------------
(* commit_phase and commit_terminal *)

LEMMA ProjectionAfterTyped ==
    ASSUME NEW c \in PhaseCalls
    PROVE  /\ ProjectionAfter(c) \in Investigations
           /\ V11(c.by.run) => ProjectionAfter(c).owner = c.by.run
           /\ ProjectionAfter(c).done = c.phase
<1>1. c.base \in Investigations /\ c.by.run \in SqlRuns /\ c.phase \in 1..SqlPhases
  BY DEF PhaseCalls, Claims
<1>2. PICK a : a = CASE Activates(c) -> "none"
                     [] c.phase = SqlPhases - 1 -> "proposed"
                     [] OTHER -> c.base.actions
  OBVIOUS
<1>3. a \in {"none", "proposed", "approved", "rejected", "skipped", "done"}
  <2>1. c.base.actions \in {"none", "proposed", "approved", "rejected", "skipped", "done"}
    BY <1>1 DEF Investigations
  <2>2. a \in {"none", "proposed", c.base.actions}
    BY <1>2
  <2> QED
    BY <2>1, <2>2
<1>4. PICK o : o = IF V11(c.by.run) THEN c.by.run ELSE c.base.owner
  OBVIOUS
<1>5. PICK s : s = IF c.phase = SqlPhases THEN "completed" ELSE "running"
  OBVIOUS
<1>6. ProjectionAfter(c) = [owner |-> o, status |-> s, done |-> c.phase, actions |-> a]
  BY <1>2, <1>4, <1>5, Zenon DEF ProjectionAfter
<1>7. o \in SqlRuns \cup {0} /\ s \in {"pending", "running"} \cup SqlEnded
          /\ (V11(c.by.run) => o = c.by.run)
  BY <1>1, <1>4, <1>5 DEF Investigations, SqlEnded
<1>8. c.phase \in 0..SqlPhases
  BY <1>1, SqlAssumption
<1> QED
  BY <1>3, <1>6, <1>7, <1>8 DEF Investigations

LEMMA NextCheckpoint ==
    ASSUME TablesTyped, NEW r \in SqlRuns, CheckpointsFit(r), NEW k \in Checkpoints,
           ckpt'[r] = ckpt[r] \cup {k}, k.phase = row[r].phase + 1, row'[r].phase = k.phase,
           row'[r].turns = row[r].turns, k.turns >= row[r].turns, log[r] \subseteq log'[r],
           [seq |-> k.seq, kind |-> "checkpoint", attempt |-> k.attempt] \in log'[r]
    PROVE  CheckpointsFit(r)'
<1>1. row[r].phase \in Nat /\ ckpt[r] \subseteq Checkpoints
  BY RowOf, SqlAssumption
<1>2. \A m \in ckpt[r] : m.phase \in 1..row[r].phase
  BY DEF CheckpointsFit
<1>3. \A i \in 1..row[r].phase : \E m \in ckpt[r] : m.phase = i
  BY DEF CheckpointsFit
<1>4. {m.phase : m \in ckpt'[r]} = 1..row'[r].phase
  <2>1. \A m \in ckpt'[r] : m.phase \in 1..row'[r].phase
    BY <1>1, <1>2
  <2>2. \A i \in 1..row'[r].phase : \E m \in ckpt'[r] : m.phase = i
    BY <1>1, <1>3
  <2> QED
    BY <2>1, <2>2
<1>5. \A j, m \in ckpt'[r] : j.phase = m.phase => j = m
  <2>1. \A m \in ckpt[r] : m.phase # k.phase
    BY <1>1, <1>2
  <2>2. \A j, m \in ckpt[r] : j.phase = m.phase => j = m
    BY DEF CheckpointsFit
  <2> QED
    BY <2>1, <2>2
<1>6. \A m \in ckpt'[r] :
          /\ [seq |-> m.seq, kind |-> "checkpoint", attempt |-> m.attempt] \in log'[r]
          /\ m.turns >= row'[r].turns
  <2>1. \A m \in ckpt[r] :
          /\ [seq |-> m.seq, kind |-> "checkpoint", attempt |-> m.attempt] \in log[r]
          /\ m.turns >= row[r].turns
    BY Zenon DEF CheckpointsFit
  <2>2. ASSUME NEW m \in ckpt'[r]
        PROVE  /\ [seq |-> m.seq, kind |-> "checkpoint", attempt |-> m.attempt] \in log'[r]
               /\ m.turns >= row'[r].turns
    <3>1. CASE m = k
      BY <3>1
    <3>2. CASE m \in ckpt[r]
      BY <2>1, <3>2, Zenon
    <3> QED
      BY <3>1, <3>2
  <2> QED
    BY <2>2, Zenon
<1> QED
  BY <1>4, <1>5, <1>6 DEF CheckpointsFit

LEMMA CommitPhaseFits ==
    ASSUME SqlInv, NEW w \in SqlWorkers, SqlCommitPhase(w)
    PROVE  SqlInv'
<1>1. w \in Threads /\ SqlTyped /\ TablesTyped
  BY DEF Threads, SqlInv, SqlTyped
<1>2. CASE Fails(w)
  BY <1>1, <1>2, FailsFits
<1>3. CASE ~Fails(w)
  <2>1. PICK c : c = txn[w]
    OBVIOUS
  <2>2. c \in PhaseCalls /\ CallFits(c, w) /\ c.step = "write"
    BY <1>1, <2>1, CallOf, KindsOf DEF SqlCommitPhase, InCall
  <2>3. PICK r : r = c.by.run
    OBVIOUS
  <2>4. c.by \in Claims /\ ClaimStands(c.by, w) /\ PhaseCallFits(c)
    BY <2>2 DEF CallFits, PhaseCalls
  <2>5. LeaseHeld(c.by, c.at)
    BY <1>3, <2>1 DEF SqlCommitPhase, Fenced
  <2>6. /\ r \in SqlRuns /\ Open(r) /\ Held(r) /\ row[r].owner = w /\ Live(c.by)
        /\ c.by.attempt = Len(att[r]) /\ row[r].status # "absent"
    BY <2>3, <2>4, <2>5, LeaseIs DEF Held, SqlHeld
  <2>7. RunFits(r) /\ row[r] \in RowRecords /\ row[r].version \in Nat
            /\ row[r].seq \in Nat /\ row[r].turns \in 0..SqlTurns /\ Len(att[r]) \in Nat
            /\ row[r].phase \in 0..SqlPhases
    BY <1>1, <2>6, RowOf DEF SqlInv, RunsFit
  <2>8. c.phase = row[r].phase + 1 /\ c.turns >= row[r].turns /\ c.phase \in 1..SqlPhases
            /\ c.turns \in 0..SqlTurns
    BY <2>2, <2>3, <2>4, <2>6 DEF PhaseCallFits, InOrder, PhaseCalls
  <2>9. PICK n \in Nat : n = row[r].seq + 2
    BY <2>7
  <2>10. PICK es : es = <<Row("phase", c.by.attempt), Row("checkpoint", c.by.attempt)>>
    OBVIOUS
  <2>11. PICK k : k = [phase |-> c.phase, attempt |-> c.by.attempt, seq |-> n, turns |-> c.turns]
    OBVIOUS
  <2>12. /\ Insert(r, row[r].seq, es) /\ UNCHANGED <<att, clock, claim>> /\ Return(w)
         /\ inv' = ProjectionAfter(c)
    BY <1>3, <2>1, <2>3, <2>10, Zenon DEF SqlCommitPhase, Appended
  <2>13. /\ ckpt' = [ckpt EXCEPT ![r] = ckpt[r] \cup {k}]
         /\ row' = [row EXCEPT ![r].seq = n, ![r].phase = c.phase]
         /\ tool' = IF Activates(c) THEN [q \in SqlRuns |-> NoTool] ELSE tool
    BY <1>3, <2>1, <2>3, <2>9, <2>11, Zenon DEF SqlCommitPhase
  <2>14. PICK nr : nr = [row[r] EXCEPT !.seq = n, !.phase = c.phase]
    OBVIOUS
  <2>15. nr \in RowRecords /\ nr.status = row[r].status /\ nr.owner = row[r].owner
            /\ nr.version = row[r].version /\ nr.seq = n /\ nr.phase = c.phase
            /\ nr.turns = row[r].turns /\ nr.contract = row[r].contract /\ nr.v11 = row[r].v11
            /\ nr.frozen = row[r].frozen
    <3>1. c.phase \in 0..SqlPhases
      BY <2>8, SqlAssumption
    <3> QED
      BY <2>7, <2>14, <3>1 DEF RowRecords
  <2>16. row' = [row EXCEPT ![r] = nr]
    BY <1>1, <2>6, <2>13, <2>14 DEF TablesTyped
  <2>17. row' \in [SqlRuns -> RowRecords] /\ row'[r] = nr /\ \A q \in SqlRuns \ {r} : row'[q] = row[q]
    BY <1>1, <2>6, <2>15, <2>16 DEF TablesTyped
  <2>18. "phase" \in EventKinds /\ "checkpoint" \in EventKinds /\ c.by.attempt \in Nat
    BY <2>6, <2>7 DEF EventKinds
  <2>19. /\ es \in Seq(NewRows) /\ Len(es) = 2
         /\ es[1].kind = "phase" /\ es[1].attempt = Len(att[r])
         /\ es[2].kind = "checkpoint" /\ es[2].attempt = Len(att[r])
    BY <2>6, <2>10, <2>18, TwoRows
  <2>20. PICK nl : nl = log[r] \cup Numbered(row[r].seq, es)
    OBVIOUS
  <2>21. nl \in SUBSET LogRows /\ log' = [log EXCEPT ![r] = nl]
    BY <1>1, <2>6, <2>12, <2>19, <2>20, InsertTyped DEF Insert
  <2>22. log' \in [SqlRuns -> SUBSET LogRows] /\ log'[r] = nl /\ \A q \in SqlRuns \ {r} : log'[q] = log[q]
    BY <1>1, <2>6, <2>21 DEF TablesTyped
  <2>23. k \in Checkpoints /\ k.phase = c.phase /\ k.turns = c.turns /\ k.seq = n
             /\ k.attempt = Len(att[r])
    BY <2>6, <2>8, <2>11, <2>18 DEF Checkpoints
  <2>24. ckpt' \in [SqlRuns -> SUBSET Checkpoints] /\ ckpt'[r] = ckpt[r] \cup {k}
             /\ \A q \in SqlRuns \ {r} : ckpt'[q] = ckpt[q]
    BY <1>1, <2>6, <2>13, <2>23 DEF TablesTyped
  <2>25. NoTool \in [SqlCalls -> ToolStates]
    BY DEF NoTool, ToolStates
  <2>26. tool' \in [SqlRuns -> [SqlCalls -> ToolStates]]
             /\ \A q \in SqlRuns : tool'[q] = tool[q] \/ tool'[q] = NoTool
    BY <1>1, <2>13, <2>25 DEF TablesTyped
  <2>27. inv' \in Investigations /\ inv'.done = c.phase /\ (V11(r) => inv'.owner = r)
    BY <2>2, <2>3, <2>12, ProjectionAfterTyped
  <2>28. TablesTyped'
    BY <1>1, <2>12, <2>17, <2>22, <2>24, <2>26, <2>27 DEF TablesTyped
  <2>29. SqlTyped'
    BY <1>1, <2>12, <2>28, ReturnTyped
  <2>30. LogFits(r)' /\ log[r] \subseteq log'[r]
    <3>1. /\ \A i \in 1..Len(es) : es[i].kind \in {"phase", "checkpoint"} /\ es[i].attempt = Len(att[r])
          /\ "phase" \notin EndEvent /\ "checkpoint" \notin EndEvent /\ row[r].status \notin SqlEnded
      BY <2>6, <2>19 DEF EndEvent, Held, SqlHeld, SqlEnded
    <3>2. /\ row'[r].seq = row[r].seq + Len(es) /\ Len(att'[r]) = Len(att[r])
          /\ log'[r] = log[r] \cup Numbered(row[r].seq, es) /\ LogFits(r)
      BY <2>7, <2>9, <2>12, <2>15, <2>17, <2>19, <2>20, <2>22 DEF RunFits
    <3>3. /\ \A i \in 1..Len(es) : es[i].kind # "rejected" => es[i].attempt = Len(att[r])
          /\ \A i \in 1..Len(es) : es[i].kind \in EndEvent =>
                row[r].status \notin SqlEnded /\ row'[r].status \in SqlEnded
          /\ \A i, j \in 1..Len(es) : es[i].kind \in EndEvent /\ es[j].kind \in EndEvent => i = j
          /\ row[r].status \in SqlEnded => row'[r].status \in SqlEnded
      BY <3>1
    <3> QED
      BY <1>1, <2>6, <2>19, <3>2, <3>3, LogGrows
  <2>31. Moves(r)
    BY <2>7, <2>9, <2>12, <2>15, <2>17 DEF Moves
  <2>32. NoDamageYet' => NoDamageYet
    BY <2>15, <2>17 DEF NoDamageYet
  <2>33. [seq |-> k.seq, kind |-> "checkpoint", attempt |-> k.attempt] \in log'[r]
    <3>1. 2 \in DOMAIN es /\ row[r].seq + 2 = k.seq
      BY <2>9, <2>19, <2>23
    <3>2. [seq |-> row[r].seq + 2, kind |-> es[2].kind, attempt |-> es[2].attempt]
              \in Numbered(row[r].seq, es)
      BY <3>1 DEF Numbered
    <3> QED
      BY <2>19, <2>20, <2>22, <2>23, <3>1, <3>2
  <2>34. CheckpointsFit(r)'
    <3>1. /\ CheckpointsFit(r) /\ k.phase = row[r].phase + 1 /\ row'[r].phase = k.phase
          /\ row'[r].turns = row[r].turns /\ k.turns >= row[r].turns
      BY <2>7, <2>8, <2>15, <2>17, <2>23 DEF RunFits
    <3> QED
      BY <1>1, <2>6, <2>23, <2>24, <2>30, <2>33, <3>1, NextCheckpoint
  <2>35. BudgetFits(r)'
    <3>1. row'[r].v11 = row[r].v11 /\ (row'[r].status = "absent" => row[r].status = "absent")
      BY <2>15, <2>17
    <3>2. CASE tool'[r] = tool[r]
      BY <2>6, <2>7, <3>1, <3>2, BudgetKept DEF RunFits
    <3>3. CASE tool'[r] = NoTool
      <4>1. SqlConsumed(r)' = {}
        BY <3>3 DEF SqlConsumed, NoTool
      <4> QED
        BY <4>1, FS_EmptySet, SqlAssumption DEF BudgetFits
    <3> QED
      BY <2>6, <2>26, <3>2, <3>3
  <2>36. StatusFits(r)'
    <3>1. row'[r].status = row[r].status /\ row'[r].owner = row[r].owner
              /\ row'[r].contract = row[r].contract /\ att'[r] = att[r]
      BY <2>12, <2>15, <2>17
    <3>2. row[r].status \notin SqlEnded \cup {"absent", "created"}
      BY <2>6 DEF Held, SqlHeld, SqlEnded
    <3> QED
      BY <2>7, <3>1, <3>2 DEF RunFits, StatusFits, Held, OpenAttempts
  <2>37. RunFits(r)'
    BY <2>30, <2>34, <2>35, <2>36 DEF RunFits
  <2>38. Shows(inv, r)'
    BY <2>15, <2>17, <2>27 DEF Shows, V11
  <2>39. \A t \in Threads : (txn'[t] = txn[t] /\ Leaves(r, t)) \/ CallFits(txn[t], t)'
    BY <1>1, <2>6, <2>12, ReturnFits
  <2>40. /\ \A q \in SqlRuns \ {r} :
                 /\ row'[q] = row[q] /\ att'[q] = att[q] /\ log'[q] = log[q] /\ ckpt'[q] = ckpt[q]
                 /\ tool'[q] = tool[q] \/ (Open(r) /\ tool'[q] = NoTool)
         /\ \A v \in SqlWorkers : claim'[v] \in {claim[v], NoClaim}
    BY <2>6, <2>12, <2>17, <2>22, <2>24, <2>26
  <2> QED
    BY <2>6, <2>29, <2>31, <2>37, <2>38, <2>39, <2>40, StepFits
<1> QED
  BY <1>2, <1>3

LEMMA ViewShows ==
    ASSUME NEW record \in Investigations, NEW r \in SqlRuns, Shows(record, r), row[r].phase > 0
    PROVE  ViewOf(r, record) = row[r].phase
BY DEF Shows, ViewOf

LEMMA CommitTerminalFits ==
    ASSUME SqlInv, NEW w \in SqlWorkers, SqlCommitTerminal(w)
    PROVE  SqlInv'
<1>1. w \in Threads /\ SqlTyped /\ TablesTyped
  BY DEF Threads, SqlInv, SqlTyped
<1>2. CASE Fails(w)
  BY <1>1, <1>2, FailsFits
<1>3. CASE ~Fails(w)
  <2>1. PICK c : c = txn[w]
    OBVIOUS
  <2>2. c \in TerminalCalls /\ CallFits(c, w)
    BY <1>1, <2>1, CallOf, KindsOf DEF SqlCommitTerminal, InCall
  <2>3. PICK r : r = c.by.run
    OBVIOUS
  <2>4. /\ c.by \in Claims /\ ClaimStands(c.by, w) /\ TerminalCallFits(c)
        /\ c.target \in SqlEnded /\ c.read \in Investigations
    BY <2>2 DEF CallFits, TerminalCalls
  <2>5. LeaseHeld(c.by, c.at)
    BY <1>3, <2>1 DEF SqlCommitTerminal, StillAsChecked, Fenced
  <2>6. /\ r \in SqlRuns /\ Open(r) /\ Held(r) /\ row[r].owner = w /\ Live(c.by)
        /\ c.by.attempt = Len(att[r]) /\ row[r].status # "absent"
        /\ OpenAttempts(r) = {Len(att[r])}
    BY <2>3, <2>4, <2>5, LeaseIs DEF Held, SqlHeld
  <2>7. RunFits(r) /\ row[r] \in RowRecords /\ row[r].version \in Nat
            /\ row[r].seq \in Nat /\ row[r].turns \in 0..SqlTurns /\ Len(att[r]) \in Nat
            /\ row[r].phase \in 0..SqlPhases
    BY <1>1, <2>6, RowOf DEF SqlInv, RunsFit
  <2>8. PICK es : es = TerminalRows(c)
    OBVIOUS
  <2>9. /\ Insert(r, row[r].seq, es) /\ UNCHANGED <<ckpt, clock, claim>> /\ Return(w)
        /\ inv' = OutcomeSaved(c) /\ tool' = CallsInterrupted(r)
        /\ att' = [att EXCEPT ![r][c.by.attempt] = c.target]
    BY <1>3, <2>1, <2>3, <2>8, Zenon DEF SqlCommitTerminal, Appended
  <2>10. row' = [row EXCEPT ![r] = [Released(r, c.target) EXCEPT
                    !.seq = row[r].seq + Len(es), !.frozen = ViewOf(r, c.read)]]
    BY <1>3, <2>1, <2>3, <2>8 DEF SqlCommitTerminal, Released
  <2>11. PICK n : n = row[r].seq + Len(es)
    OBVIOUS
  <2>12. PICK v : v = ViewOf(r, c.read)
    OBVIOUS
  <2>13. v \in Unfrozen..SqlPhases /\ v # Unfrozen
    BY <2>4, <2>12, ViewTyped
  <2>14. PICK nr : nr = [[row[r] EXCEPT !.status = c.target, !.owner = 0, !.expires = 0]
                             EXCEPT !.seq = n, !.frozen = v]
    OBVIOUS
  <2>15. row' = [row EXCEPT ![r] = nr]
    BY <2>10, <2>11, <2>12, <2>14, Zenon DEF Released
  <2>16. /\ es \in Seq(NewRows) /\ Len(es) \in {1, 2}
         /\ \A i \in 1..Len(es) : es[i].attempt = Len(att[r]) /\ es[i].kind # "rejected"
         /\ \A i, j \in 1..Len(es) : es[i].kind \in EndEvent /\ es[j].kind \in EndEvent => i = j
    <3>1. PICK a \in Nat : a = c.by.attempt /\ a = Len(att[r])
      BY <2>6, <2>7
    <3>2. {"attempt.completed", "run.completed", "run.failed", "run.cancelled"} \subseteq EventKinds
      BY DEF EventKinds, EndEvent
    <3>3. CASE c.target = "completed"
      <4>1. es = <<Row("attempt.completed", a), Row("run.completed", a)>>
        BY <2>8, <3>1, <3>3 DEF TerminalRows
      <4>2. /\ es \in Seq(NewRows) /\ Len(es) = 2
            /\ es[1].kind = "attempt.completed" /\ es[1].attempt = a
            /\ es[2].kind = "run.completed" /\ es[2].attempt = a
        BY <3>2, <4>1, TwoRows
      <4>3. "attempt.completed" \notin EndEvent
        BY DEF EndEvent
      <4>4. \A i \in 1..Len(es) : i = 1 \/ i = 2
        BY <4>2
      <4> QED
        BY <3>1, <4>2, <4>3, <4>4
    <3>4. CASE c.target # "completed"
      <4>1. PICK k : k = IF c.target = "failed" THEN "run.failed" ELSE "run.cancelled"
        OBVIOUS
      <4>2. k \in EventKinds /\ k # "rejected"
        BY <3>2, <4>1
      <4>3. es = <<Row(k, a)>>
        BY <2>8, <3>1, <3>4, <4>1 DEF TerminalRows
      <4>4. es \in Seq(NewRows) /\ Len(es) = 1 /\ es[1].kind = k /\ es[1].attempt = a
        BY <4>2, <4>3, OneRow
      <4> QED
        BY <3>1, <4>2, <4>4
    <3> QED
      BY <3>3, <3>4
  <2>17. n \in Nat /\ n > row[r].seq
    <3>1. n = row[r].seq + 1 \/ n = row[r].seq + 2
      BY <2>11, <2>16
    <3> QED
      BY <2>7, <3>1
  <2>18. nr \in RowRecords /\ nr.status = c.target /\ nr.owner = 0
            /\ nr.version = row[r].version /\ nr.seq = n /\ nr.phase = row[r].phase
            /\ nr.turns = row[r].turns /\ nr.contract = row[r].contract /\ nr.v11 = row[r].v11
            /\ nr.frozen = v
    BY <2>4, <2>7, <2>13, <2>14, <2>17 DEF RowRecords, RunStatuses
  <2>19. row' \in [SqlRuns -> RowRecords] /\ row'[r] = nr /\ \A q \in SqlRuns \ {r} : row'[q] = row[q]
    BY <1>1, <2>6, <2>15, <2>18 DEF TablesTyped
  <2>20. PICK nl : nl = log[r] \cup Numbered(row[r].seq, es)
    OBVIOUS
  <2>21. nl \in SUBSET LogRows /\ log' = [log EXCEPT ![r] = nl]
    BY <1>1, <2>6, <2>9, <2>16, <2>20, InsertTyped DEF Insert
  <2>22. log' \in [SqlRuns -> SUBSET LogRows] /\ log'[r] = nl /\ \A q \in SqlRuns \ {r} : log'[q] = log[q]
    BY <1>1, <2>6, <2>21 DEF TablesTyped
  <2>23. PICK na : na = [att[r] EXCEPT ![Len(att[r])] = c.target]
    OBVIOUS
  <2>24. c.target \in AttemptStatuses /\ c.target # "running"
    BY <2>4 DEF AttemptStatuses, SqlEnded
  <2>25. /\ na \in Seq(AttemptStatuses) /\ Len(na) = Len(att[r])
         /\ att'[r] = na => OpenAttempts(r)' = {}
    BY <1>1, <2>6, <2>23, <2>24, AttemptEnds
  <2>26. att' = [att EXCEPT ![r] = na]
    BY <2>6, <2>9, <2>23, Zenon
  <2>27. att' \in [SqlRuns -> Seq(AttemptStatuses)] /\ att'[r] = na
             /\ \A q \in SqlRuns \ {r} : att'[q] = att[q]
    BY <1>1, <2>6, <2>25, <2>26 DEF TablesTyped
  <2>28. /\ tool' \in [SqlRuns -> [SqlCalls -> ToolStates]]
         /\ \A q \in SqlRuns \ {r} : tool'[q] = tool[q]
         /\ SqlConsumed(r)' = SqlConsumed(r)
    BY <1>1, <2>6, <2>9, CallsInterruptedAre
  <2>29. inv' \in Investigations
    <3>1. inv \in Investigations
      BY <1>1 DEF TablesTyped
    <3> QED
      BY <2>4, <2>9, <3>1 DEF OutcomeSaved, Investigations
  <2>30. TablesTyped'
    BY <1>1, <2>9, <2>19, <2>22, <2>27, <2>28, <2>29 DEF TablesTyped
  <2>31. SqlTyped'
    BY <1>1, <2>9, <2>30, ReturnTyped
  <2>32. row[r].status \notin SqlEnded /\ nr.status \notin SqlOpen \cup {"absent"}
    BY <2>4, <2>6, <2>18 DEF Held, SqlHeld, SqlEnded, SqlOpen
  <2>33. LogFits(r)' /\ log[r] \subseteq log'[r]
    <3>1. /\ row'[r].seq = row[r].seq + Len(es) /\ Len(att'[r]) = Len(att[r])
          /\ log'[r] = log[r] \cup Numbered(row[r].seq, es) /\ LogFits(r)
          /\ row'[r].status \in SqlEnded
      BY <2>4, <2>7, <2>11, <2>18, <2>19, <2>20, <2>22, <2>25, <2>27 DEF RunFits
    <3> QED
      BY <1>1, <2>6, <2>16, <2>32, <3>1, LogGrows
  <2>34. Moves(r)
    <3>1. row'[r].status \notin SqlHeld \cup {"absent", "created"}
      BY <2>4, <2>18, <2>19 DEF SqlHeld, SqlEnded
    <3>2. row'[r].owner = 0 /\ row'[r].version = row[r].version /\ row'[r].seq > row[r].seq
              /\ row'[r].turns = row[r].turns /\ row'[r].v11 = row[r].v11
              /\ row'[r].contract = row[r].contract /\ Len(att'[r]) = Len(att[r])
              /\ row'[r].seq \in Nat
      BY <2>17, <2>18, <2>19, <2>25, <2>27
    <3> QED
      BY <2>7, <3>1, <3>2, SqlAssumption DEF Moves
  <2>35. NoDamageYet' => NoDamageYet
    BY <2>18, <2>19 DEF NoDamageYet
  <2>36. CheckpointsFit(r)'
    BY <1>1, <2>6, <2>7, <2>9, <2>18, <2>19, <2>33, <2>34, CheckpointsKept DEF RunFits, Moves
  <2>37. BudgetFits(r)'
    BY <2>7, <2>18, <2>19, <2>28, <2>32 DEF RunFits, BudgetFits, V11
  <2>38. StatusFits(r)'
    <3>1. OpenAttempts(r)' = {} /\ row'[r].owner = 0 /\ row'[r].status \in SqlEnded
              /\ row'[r].contract = row[r].contract /\ row'[r].phase = row[r].phase
              /\ row'[r].frozen = v
      BY <2>4, <2>18, <2>19, <2>25, <2>27
    <3>2. row[r].contract # "repaired"
      BY <2>6, <2>7 DEF RunFits, StatusFits, Held, SqlHeld
    <3>3. row'[r].status \notin SqlHeld \cup {"absent", "created"}
      BY <3>1 DEF SqlEnded, SqlHeld
    <3>4. NoDamageYet' => row'[r].frozen # Unfrozen
                             /\ (row'[r].phase > 0 => row'[r].frozen = row'[r].phase)
      <4> SUFFICES ASSUME NoDamageYet' PROVE v # Unfrozen /\ (row[r].phase > 0 => v = row[r].phase)
        BY <3>1
      <4>1. Shows(c.read, r)
        BY <2>3, <2>4, <2>6, <2>35 DEF TerminalCallFits
      <4> QED
        BY <2>4, <2>6, <2>12, <2>13, <4>1, ViewShows
    <3> QED
      BY <3>1, <3>2, <3>3, <3>4 DEF StatusFits, Held
  <2>39. RunFits(r)'
    BY <2>33, <2>36, <2>37, <2>38 DEF RunFits
  <2>40. ~Open(r)'
    BY <2>19, <2>32 DEF Open
  <2>41. \A t \in Threads : (txn'[t] = txn[t] /\ Leaves(r, t)) \/ CallFits(txn[t], t)'
    BY <1>1, <2>6, <2>9, ReturnFits
  <2>42. /\ \A q \in SqlRuns \ {r} : /\ row'[q] = row[q] /\ att'[q] = att[q] /\ log'[q] = log[q]
                                      /\ ckpt'[q] = ckpt[q] /\ tool'[q] = tool[q]
         /\ \A u \in SqlWorkers : claim'[u] \in {claim[u], NoClaim}
    BY <2>9, <2>19, <2>22, <2>27, <2>28
  <2> QED
    BY <2>6, <2>31, <2>34, <2>39, <2>40, <2>41, <2>42, StepFits
<1> QED
  BY <1>2, <1>3

-----------------------------------------------------------------------------
(* The lease *)

LEMMA NextAttempt ==
    ASSUME TablesTyped, NEW r \in SqlRuns, OpenAttempts(r) = {}, NEW na, na = Append(att[r], "running")
    PROVE  /\ na \in Seq(AttemptStatuses) /\ Len(na) = Len(att[r]) + 1
           /\ att'[r] = na => OpenAttempts(r)' = {Len(na)}
<1>1. att[r] \in Seq(AttemptStatuses) /\ Len(att[r]) \in Nat /\ "running" \in AttemptStatuses
  BY RowOf DEF AttemptStatuses
<1>2. /\ na \in Seq(AttemptStatuses) /\ Len(na) = Len(att[r]) + 1
      /\ \A i \in 1..Len(att[r]) : na[i] = att[r][i]
      /\ na[Len(att[r]) + 1] = "running"
  BY <1>1
<1>3. \A i \in 1..Len(att[r]) : att[r][i] # "running"
  <2>1. DOMAIN att[r] = 1..Len(att[r])
    BY <1>1
  <2> QED
    BY <2>1 DEF OpenAttempts
<1>4. DOMAIN na = 1..(Len(att[r]) + 1)
  BY <1>2
<1>5. {i \in DOMAIN na : na[i] = "running"} = {Len(na)}
  BY <1>1, <1>2, <1>3, <1>4
<1> QED
  BY <1>2, <1>5 DEF OpenAttempts

LEMMA AcquireFits ==
    ASSUME SqlInv, NEW w \in SqlWorkers, SqlAcquire(w)
    PROVE  SqlInv'
<1>1. w \in Threads /\ SqlTyped /\ TablesTyped
  BY DEF Threads, SqlInv, SqlTyped
<1>2. CASE Fails(w)
  BY <1>1, <1>2, FailsFits
<1>3. CASE ~Fails(w)
  <2>1. PICK c : c = txn[w]
    OBVIOUS
  <2>2. c \in AcquireCalls
    BY <1>1, <2>1, CallOf, KindsOf DEF SqlAcquire, InCall
  <2>3. PICK r : r = c.run
    OBVIOUS
  <2>4. r \in SqlRuns /\ c.at \in Nat /\ c.status \in {"created", "interrupted"} /\ c.number \in Nat
    BY <2>2, <2>3 DEF AcquireCalls
  <2>5. /\ row[r].status = c.status /\ row[r].contract = "sound" /\ c.number = Len(att[r]) + 1
        /\ OpenAttempts(r) = {}
    BY <1>3, <2>1, <2>3, Zenon DEF SqlAcquire, MayAcquire
  <2>6. /\ UNCHANGED <<log, ckpt, tool, inv, clock>> /\ Return(w)
        /\ att' = [att EXCEPT ![r] = Append(att[r], "running")]
    BY <1>3, <2>1, <2>3 DEF SqlAcquire
  <2>7. /\ row' = [row EXCEPT ![r] = [row[r] EXCEPT
                !.status = "running", !.owner = w, !.version = row[r].version + 1,
                !.expires = c.at + SqlLease]]
        /\ claim' = [claim EXCEPT ![w] = [run |-> r, owner |-> w,
                version |-> row[r].version + 1, attempt |-> c.number]]
    BY <1>3, <2>1, <2>3 DEF SqlAcquire
  <2>8. RunFits(r) /\ row[r] \in RowRecords /\ row[r].version \in Nat
            /\ row[r].seq \in Nat /\ row[r].turns \in 0..SqlTurns /\ Len(att[r]) \in Nat
    BY <1>1, <2>4, RowOf DEF SqlInv, RunsFit
  <2>9. PICK v \in Nat : v = row[r].version + 1
    BY <2>8
  <2>10. PICK e \in Nat : e = c.at + SqlLease
    BY <2>4, SqlAssumption
  <2>11. PICK nr : nr = [row[r] EXCEPT !.status = "running", !.owner = w, !.version = v, !.expires = e]
    OBVIOUS
  <2>12. nr \in RowRecords /\ nr.status = "running" /\ nr.owner = w
            /\ nr.version = v /\ nr.seq = row[r].seq /\ nr.phase = row[r].phase
            /\ nr.turns = row[r].turns /\ nr.contract = row[r].contract /\ nr.v11 = row[r].v11
    BY <2>8, <2>11 DEF RowRecords, RunStatuses, SqlOpen, SqlHeld
  <2>13. row' = [row EXCEPT ![r] = nr]
    BY <2>7, <2>9, <2>10, <2>11, Zenon
  <2>14. row' \in [SqlRuns -> RowRecords] /\ row'[r] = nr /\ \A q \in SqlRuns \ {r} : row'[q] = row[q]
    BY <1>1, <2>4, <2>12, <2>13 DEF TablesTyped
  <2>15. PICK na : na = Append(att[r], "running")
    OBVIOUS
  <2>16. /\ na \in Seq(AttemptStatuses) /\ Len(na) = Len(att[r]) + 1
         /\ att'[r] = na => OpenAttempts(r)' = {Len(na)}
    BY <1>1, <2>4, <2>5, <2>15, NextAttempt
  <2>17. att' \in [SqlRuns -> Seq(AttemptStatuses)] /\ att'[r] = na
             /\ \A q \in SqlRuns \ {r} : att'[q] = att[q]
    BY <1>1, <2>4, <2>6, <2>15, <2>16 DEF TablesTyped
  <2>18. PICK by : by = [run |-> r, owner |-> w, version |-> v, attempt |-> c.number]
    OBVIOUS
  <2>19. by \in Claims /\ by.run = r /\ by.owner = w /\ by.version = v /\ by.attempt = c.number
    BY <2>4, <2>9, <2>18 DEF Claims
  <2>20. claim' = [claim EXCEPT ![w] = by]
    BY <2>7, <2>9, <2>18, Zenon
  <2>21. claim' \in [SqlWorkers -> Claims \cup {NoClaim}] /\ claim'[w] = by
             /\ \A u \in SqlWorkers \ {w} : claim'[u] = claim[u]
    BY <1>1, <2>19, <2>20 DEF SqlTyped
  <2>22. TablesTyped'
    BY <1>1, <2>6, <2>14, <2>17 DEF TablesTyped
  <2>23. \A u \in Threads : Leaves(r, u)
    BY <2>8, <2>9, <2>12, <2>14 DEF Leaves
  <2>24. /\ \A u \in Threads : (txn'[u] = txn[u] /\ Leaves(r, u)) \/ CallFits(txn[u], u)'
         /\ txn' \in [Threads -> StoreCalls]
    BY <1>1, <2>6, <2>23, AnswerFits
  <2>25. SqlTyped'
    BY <1>1, <2>6, <2>21, <2>22, <2>24 DEF SqlTyped
  <2>26. Open(r) /\ ~Held(r) /\ row[r].status \notin SqlEnded \cup {"absent"}
    BY <2>4, <2>5 DEF Open, Held, SqlOpen, SqlHeld, SqlEnded
  <2>27. LogFits(r)'
    <3>1. Len(att'[r]) \in Nat /\ Len(att'[r]) >= Len(att[r]) /\ log'[r] = log[r]
              /\ row'[r].seq = row[r].seq /\ LogFits(r)
      BY <2>6, <2>8, <2>12, <2>14, <2>16, <2>17 DEF RunFits
    <3> QED
      BY <1>1, <2>4, <2>26, <3>1, LogStays
  <2>28. Moves(r)
    <3>1. row'[r].version > row[r].version /\ row'[r].seq = row[r].seq /\ row'[r].turns = row[r].turns
              /\ row'[r].status = "running" /\ row'[r].v11 = row[r].v11
              /\ row'[r].version \in Nat
      BY <2>8, <2>9, <2>12, <2>14
    <3> QED
      BY <2>5, <2>8, <3>1, SqlAssumption DEF Moves, SqlHeld
  <2>29. NoDamageYet' => NoDamageYet
    BY <2>12, <2>14 DEF NoDamageYet
  <2>30. CheckpointsFit(r)'
    BY <1>1, <2>4, <2>6, <2>8, <2>12, <2>14, <2>28, CheckpointsKept DEF RunFits, Moves
  <2>31. BudgetFits(r)'
    <3>1. tool'[r] = tool[r] /\ row'[r].v11 = row[r].v11 /\ row'[r].status # "absent"
      BY <2>6, <2>12, <2>14
    <3> QED
      BY <2>4, <2>8, <3>1, BudgetKept DEF RunFits
  <2>32. StatusFits(r)'
    <3>1. row'[r].status = "running" /\ row'[r].owner = w /\ row'[r].contract = "sound"
              /\ OpenAttempts(r)' = {Len(att'[r])} /\ w # 0
      BY <2>5, <2>12, <2>14, <2>16, <2>17, SqlAssumption
    <3> QED
      BY <3>1 DEF StatusFits, Held, SqlHeld, SqlEnded
  <2>33. RunFits(r)'
    BY <2>27, <2>30, <2>31, <2>32 DEF RunFits
  <2>34. NoDamageYet' /\ Open(r)' => Shows(inv, r)'
    BY <2>4, <2>6, <2>12, <2>14, <2>26, <2>29 DEF SqlInv, ProjectionFits, Shows, V11
  <2>35. ClaimStands(by, w)'
    <3>1. row'[r].version = v /\ row'[r].status = "running" /\ row'[r].owner = w
              /\ c.number = Len(att'[r])
      BY <2>5, <2>12, <2>14, <2>16, <2>17
    <3> QED
      BY <2>9, <2>19, <3>1 DEF ClaimStands
  <2>36. \A u \in SqlWorkers : claim'[u] \in {claim[u], NoClaim} \/ ClaimStands(claim[u], u)'
    <3>1. ASSUME NEW u \in SqlWorkers
          PROVE  claim'[u] \in {claim[u], NoClaim} \/ ClaimStands(claim[u], u)'
      <4>1. CASE u = w
        <5>1. claim'[u] = by
          BY <2>21, <4>1
        <5>2. ClaimStands(claim[u], u)'
          BY <2>35, <4>1, <5>1
        <5> QED
          BY <5>2
      <4>2. CASE u # w
        BY <2>21, <4>2
      <4> QED
        BY <4>1, <4>2
    <3> QED
      BY <3>1
  <2>37. \A q \in SqlRuns \ {r} : /\ row'[q] = row[q] /\ att'[q] = att[q] /\ log'[q] = log[q]
                                  /\ ckpt'[q] = ckpt[q] /\ tool'[q] = tool[q]
    BY <2>6, <2>14, <2>17
  <2> QED
    BY <2>4, <2>24, <2>25, <2>26, <2>28, <2>33, <2>34, <2>36, <2>37, StepFits
<1> QED
  BY <1>2, <1>3

-----------------------------------------------------------------------------
(* The writes of requests *)

\* A request writes a run that nobody holds then, or leaves what its holder relies on.
LEMMA NotOwned ==
    ASSUME NEW r, row'[r].owner = 0
    PROVE  \A u \in Threads : Leaves(r, u)
BY SqlAssumption DEF Leaves, Threads

LEMMA CancelFits ==
    ASSUME SqlInv, NEW t \in SqlRequests, SqlCancel(t)
    PROVE  SqlInv'
<1>1. t \in Threads /\ SqlTyped /\ TablesTyped
  BY DEF Threads, SqlInv, SqlTyped
<1>2. CASE Fails(t)
  BY <1>1, <1>2, FailsFits
<1>3. CASE ~Fails(t)
  <2>1. PICK c : c = txn[t]
    OBVIOUS
  <2>2. c \in CancelCalls /\ CallFits(c, t) /\ c.step = "write"
    BY <1>1, <2>1, CallOf, KindsOf DEF SqlCancel, InCall
  <2>3. PICK r : r = c.run
    OBVIOUS
  <2>4. /\ r \in SqlRuns /\ c.view \in Unfrozen..SqlPhases /\ CancelCallFits(c)
        /\ c.status \in {"absent", "created", "running"}
    BY <2>2, <2>3 DEF CallFits, CancelCalls
  <2>5. row[r].status = c.status /\ c.status \in {"created", "running"}
            /\ (c.status = "created" => c.view # Unfrozen)
    BY <1>3, <2>1, <2>2, <2>3, <2>4 DEF SqlCancel, CancelStillDue, CancelCallFits
  <2>6. UNCHANGED <<att, log, ckpt, tool, clock, claim>> /\ Return(t)
    BY <1>3, <2>1 DEF SqlCancel
  <2>7. IF c.status = "created"
        THEN /\ row' = [row EXCEPT ![r] = [Released(r, "cancelled") EXCEPT !.frozen = c.view]]
             /\ inv' = IF c.owns THEN [inv EXCEPT !.status = "cancelled"] ELSE inv
        ELSE row' = [row EXCEPT ![r].status = "cancelling"] /\ UNCHANGED inv
    BY <1>3, <2>1, <2>3, Zenon DEF SqlCancel
  <2>8. RunFits(r) /\ row[r] \in RowRecords /\ row[r].version \in Nat
            /\ row[r].seq \in Nat /\ row[r].turns \in 0..SqlTurns /\ Len(att[r]) \in Nat
            /\ inv \in Investigations
    BY <1>1, <2>4, RowOf DEF SqlInv, RunsFit, TablesTyped
  <2>9. PICK nr : nr = IF c.status = "created"
                       THEN [[row[r] EXCEPT !.status = "cancelled", !.owner = 0, !.expires = 0]
                                EXCEPT !.frozen = c.view]
                       ELSE [row[r] EXCEPT !.status = "cancelling"]
    OBVIOUS
  <2>10. row' = [row EXCEPT ![r] = nr]
    <3>1. CASE c.status = "created"
      BY <2>7, <2>9, <3>1, Zenon DEF Released
    <3>2. CASE c.status # "created"
      <4>1. nr = [row[r] EXCEPT !.status = "cancelling"]
        BY <2>9, <3>2
      <4>2. row' = [row EXCEPT ![r].status = "cancelling"]
        BY <2>7, <3>2
      <4> QED
        BY <1>1, <2>4, <4>1, <4>2 DEF TablesTyped
    <3> QED
      BY <3>1, <3>2
  <2>11. /\ nr \in RowRecords /\ nr.version = row[r].version /\ nr.seq = row[r].seq
         /\ nr.phase = row[r].phase /\ nr.turns = row[r].turns /\ nr.contract = row[r].contract
         /\ nr.v11 = row[r].v11
         /\ c.status = "created" => nr.status = "cancelled" /\ nr.owner = 0 /\ nr.frozen = c.view
         /\ c.status # "created" => nr.status = "cancelling" /\ nr.owner = row[r].owner
    BY <2>4, <2>8, <2>9 DEF RowRecords, RunStatuses, SqlOpen, SqlHeld, SqlEnded
  <2>12. row' \in [SqlRuns -> RowRecords] /\ row'[r] = nr /\ \A q \in SqlRuns \ {r} : row'[q] = row[q]
    BY <1>1, <2>4, <2>10, <2>11 DEF TablesTyped
  <2>13. inv' \in Investigations /\ inv'.owner = inv.owner /\ inv'.done = inv.done
    BY <2>7, <2>8 DEF Investigations, SqlEnded
  <2>14. TablesTyped'
    BY <1>1, <2>6, <2>12, <2>13 DEF TablesTyped
  <2>15. SqlTyped'
    BY <1>1, <2>6, <2>14, ReturnTyped
  <2>16. row[r].status \notin SqlEnded \cup {"absent"} /\ Open(r)
    BY <2>5 DEF SqlEnded, Open, SqlOpen, SqlHeld
  <2>17. LogFits(r)'
    <3>1. Len(att'[r]) \in Nat /\ Len(att'[r]) >= Len(att[r]) /\ log'[r] = log[r]
              /\ row'[r].seq = row[r].seq /\ LogFits(r)
      BY <2>6, <2>8, <2>11, <2>12 DEF RunFits
    <3> QED
      BY <1>1, <2>4, <2>16, <3>1, LogStays
  <2>18. Moves(r)
    <3>1. /\ row'[r].version = row[r].version /\ row'[r].seq = row[r].seq
          /\ row'[r].turns = row[r].turns /\ row'[r].contract = row[r].contract
          /\ row'[r].v11 = row[r].v11 /\ att'[r] = att[r]
          /\ row'[r].owner \in {0, row[r].owner}
          /\ row'[r].status \in {"cancelled", "cancelling"}
          /\ row'[r].status = "cancelled" => row[r].status = "created"
          /\ row'[r].status = "cancelling" => row[r].status = "running"
      BY <2>5, <2>6, <2>11, <2>12
    <3> QED
      BY <2>8, <3>1, SqlAssumption DEF Moves, SqlHeld
  <2>19. NoDamageYet' => NoDamageYet
    BY <2>11, <2>12 DEF NoDamageYet
  <2>20. CheckpointsFit(r)'
    BY <1>1, <2>4, <2>6, <2>8, <2>11, <2>12, <2>18, CheckpointsKept DEF RunFits, Moves
  <2>21. BudgetFits(r)'
    <3>1. tool'[r] = tool[r] /\ row'[r].v11 = row[r].v11 /\ row'[r].status # "absent"
      BY <2>5, <2>6, <2>11, <2>12
    <3> QED
      BY <2>4, <2>8, <3>1, BudgetKept DEF RunFits
  <2>22. StatusFits(r)'
    <3>1. OpenAttempts(r)' = OpenAttempts(r) /\ Len(att'[r]) = Len(att[r])
      BY <2>6 DEF OpenAttempts
    <3>2. CASE c.status = "created"
      <4>1. row'[r].status = "cancelled" /\ row'[r].owner = 0 /\ row'[r].contract = row[r].contract
                /\ row'[r].phase = row[r].phase /\ row'[r].frozen # Unfrozen
        BY <2>5, <2>11, <2>12, <3>2
      <4>2. row[r].phase = 0 /\ row[r].contract # "repaired" /\ OpenAttempts(r) = {}
        BY <2>5, <2>8, <3>2 DEF RunFits, StatusFits, Held, SqlHeld
      <4>3. ~(row'[r].phase > 0)
        BY <4>1, <4>2
      <4> QED
        BY <3>1, <4>1, <4>2, <4>3 DEF StatusFits, Held, SqlHeld
    <3>3. CASE c.status = "running"
      <4>1. row'[r].status = "cancelling" /\ row'[r].owner = row[r].owner
                /\ row'[r].contract = row[r].contract
        BY <2>11, <2>12, <3>3
      <4>2. row[r].owner # 0 /\ row[r].contract # "repaired" /\ OpenAttempts(r) = {Len(att[r])}
        BY <2>5, <2>8, <3>3 DEF RunFits, StatusFits, Held, SqlHeld
      <4> QED
        BY <3>1, <4>1, <4>2 DEF StatusFits, Held, SqlHeld, SqlEnded
    <3> QED
      BY <2>5, <3>2, <3>3
  <2>23. RunFits(r)'
    BY <2>17, <2>20, <2>21, <2>22 DEF RunFits
  <2>24. NoDamageYet' /\ Open(r)' => Shows(inv, r)'
    BY <2>4, <2>11, <2>12, <2>13, <2>16, <2>19 DEF SqlInv, ProjectionFits, Shows, V11
  <2>25. \A u \in Threads : Leaves(r, u)
    BY <2>6, <2>11, <2>12, <2>13 DEF Leaves
  <2>26. \A u \in Threads : (txn'[u] = txn[u] /\ Leaves(r, u)) \/ CallFits(txn[u], u)'
    BY <1>1, <2>6, <2>25, AnswerFits
  <2>27. /\ \A q \in SqlRuns \ {r} : /\ row'[q] = row[q] /\ att'[q] = att[q] /\ log'[q] = log[q]
                                      /\ ckpt'[q] = ckpt[q] /\ tool'[q] = tool[q]
         /\ \A u \in SqlWorkers : claim'[u] \in {claim[u], NoClaim}
    BY <2>6, <2>12
  <2> QED
    BY <2>4, <2>15, <2>16, <2>18, <2>23, <2>24, <2>26, <2>27, StepFits
<1> QED
  BY <1>2, <1>3

LEMMA AuditFits ==
    ASSUME SqlInv, NEW t \in SqlRequests, SqlAudit(t)
    PROVE  SqlInv'
<1>1. t \in Threads /\ SqlTyped /\ TablesTyped
  BY DEF Threads, SqlInv, SqlTyped
<1>2. CASE Fails(t)
  BY <1>1, <1>2, FailsFits
<1>3. CASE ~Fails(t)
  <2>1. PICK c : c = txn[t]
    OBVIOUS
  <2>2. c \in AuditCalls /\ CallFits(c, t)
    BY <1>1, <2>1, CallOf, KindsOf DEF SqlAudit, InCall
  <2>3. PICK r : r = c.run
    OBVIOUS
  <2>4. r \in SqlRuns /\ c.seen \in RowRecords /\ AuditCallFits(c) /\ c.seen.seq \in Nat
    BY <2>2, <2>3 DEF CallFits, AuditCalls, RowRecords
  <2>5. AuditStillDue(c) /\ NumbersFree(r, c.seen.seq, 2)
    BY <1>3, <2>1, <2>3 DEF SqlAudit
  <2>6. RunFits(r) /\ row[r] \in RowRecords /\ row[r].version \in Nat
            /\ row[r].seq \in Nat /\ row[r].turns \in 0..SqlTurns /\ Len(att[r]) \in Nat
            /\ inv \in Investigations
    BY <1>1, <2>4, RowOf DEF SqlInv, RunsFit, TablesTyped
  <2>7. /\ Held(r) /\ Open(r) /\ OpenAttempts(r) = {Len(att[r])} /\ c.attempt = Len(att[r])
        /\ row[r].contract # "repaired" /\ row[r].status \notin SqlEnded \cup {"absent"}
    <3>1. Held(r) /\ c.attempt = Len(att[r])
      BY <2>3, <2>4, <2>5 DEF AuditStillDue, AuditCallFits, Held
    <3> QED
      BY <2>6, <3>1 DEF RunFits, StatusFits, Held, Open, SqlOpen, SqlHeld, SqlEnded
  <2>8. c.seen.seq = row[r].seq
    <3>1. LogFits(r) /\ c.seen.seq <= row[r].seq /\ 2 \in Nat \ {0}
      BY <2>3, <2>4, <2>6 DEF AuditCallFits, RunFits
    <3> QED
      BY <1>1, <2>4, <2>5, <3>1, FreeIsNext
  <2>9. PICK es : es = <<Row("run.interrupted", c.attempt), Row("attempt.interrupted", c.attempt)>>
    OBVIOUS
  <2>10. /\ Insert(r, row[r].seq, es) /\ UNCHANGED <<ckpt, inv, clock, claim>> /\ Return(t)
         /\ att' = [att EXCEPT ![r][c.attempt] = "interrupted"]
         /\ tool' = CallsInterrupted(r)
    BY <1>3, <2>1, <2>3, <2>8, <2>9, Zenon DEF SqlAudit
  <2>11. row' = [row EXCEPT ![r] = [Released(r, "interrupted") EXCEPT
                    !.seq = c.seen.seq + 2,
                    !.frozen = IF V11(r) THEN SqlView(r) ELSE row[r].frozen]]
    BY <1>3, <2>1, <2>3, Zenon DEF SqlAudit
  <2>12. PICK n \in Nat : n = c.seen.seq + 2
    BY <2>4
  <2>13. PICK v : v = IF V11(r) THEN SqlView(r) ELSE row[r].frozen
    OBVIOUS
  <2>14. v \in Unfrozen..SqlPhases
    <3>1. SqlView(r) \in Unfrozen..SqlPhases /\ row[r].frozen \in Unfrozen..SqlPhases
      BY <2>6, ViewTyped DEF SqlView, RowRecords
    <3> QED
      BY <2>13, <3>1
  <2>15. PICK nr : nr = [[row[r] EXCEPT !.status = "interrupted", !.owner = 0, !.expires = 0]
                             EXCEPT !.seq = n, !.frozen = v]
    OBVIOUS
  <2>16. row' = [row EXCEPT ![r] = nr]
    BY <2>11, <2>12, <2>13, <2>15, Zenon DEF Released
  <2>17. nr \in RowRecords /\ nr.status = "interrupted" /\ nr.owner = 0
            /\ nr.version = row[r].version /\ nr.seq = n /\ nr.phase = row[r].phase
            /\ nr.turns = row[r].turns /\ nr.contract = row[r].contract /\ nr.v11 = row[r].v11
    BY <2>6, <2>14, <2>15 DEF RowRecords, RunStatuses, SqlOpen
  <2>18. row' \in [SqlRuns -> RowRecords] /\ row'[r] = nr /\ \A q \in SqlRuns \ {r} : row'[q] = row[q]
    BY <1>1, <2>4, <2>16, <2>17 DEF TablesTyped
  <2>19. /\ es \in Seq(NewRows) /\ Len(es) = 2
         /\ \A i \in 1..Len(es) : es[i].attempt = Len(att[r]) /\ es[i].kind \notin EndEvent
    <3>1. {"run.interrupted", "attempt.interrupted"} \subseteq EventKinds
              /\ "run.interrupted" \notin EndEvent /\ "attempt.interrupted" \notin EndEvent
      BY DEF EventKinds, EndEvent
    <3>2. PICK a \in Nat : a = c.attempt /\ a = Len(att[r])
      BY <2>6, <2>7
    <3>3. es = <<Row("run.interrupted", a), Row("attempt.interrupted", a)>>
      BY <2>9, <3>2
    <3>4. /\ es \in Seq(NewRows) /\ Len(es) = 2
          /\ es[1].kind = "run.interrupted" /\ es[1].attempt = a
          /\ es[2].kind = "attempt.interrupted" /\ es[2].attempt = a
      BY <3>1, <3>3, TwoRows
    <3>5. \A i \in 1..Len(es) : i = 1 \/ i = 2
      BY <3>4
    <3> QED
      BY <3>1, <3>2, <3>4, <3>5
  <2>20. PICK nl : nl = log[r] \cup Numbered(row[r].seq, es)
    OBVIOUS
  <2>21. nl \in SUBSET LogRows /\ log' = [log EXCEPT ![r] = nl]
    BY <1>1, <2>4, <2>10, <2>19, <2>20, InsertTyped DEF Insert
  <2>22. log' \in [SqlRuns -> SUBSET LogRows] /\ log'[r] = nl /\ \A q \in SqlRuns \ {r} : log'[q] = log[q]
    BY <1>1, <2>4, <2>21 DEF TablesTyped
  <2>23. PICK na : na = [att[r] EXCEPT ![Len(att[r])] = "interrupted"]
    OBVIOUS
  <2>24. "interrupted" \in AttemptStatuses
    BY DEF AttemptStatuses
  <2>25. /\ na \in Seq(AttemptStatuses) /\ Len(na) = Len(att[r])
         /\ att'[r] = na => OpenAttempts(r)' = {}
    BY <1>1, <2>4, <2>7, <2>23, <2>24, AttemptEnds
  <2>26. att' = [att EXCEPT ![r] = na]
    BY <2>7, <2>10, <2>23, Zenon
  <2>27. att' \in [SqlRuns -> Seq(AttemptStatuses)] /\ att'[r] = na
             /\ \A q \in SqlRuns \ {r} : att'[q] = att[q]
    BY <1>1, <2>4, <2>25, <2>26 DEF TablesTyped
  <2>28. /\ tool' \in [SqlRuns -> [SqlCalls -> ToolStates]]
         /\ \A q \in SqlRuns \ {r} : tool'[q] = tool[q]
         /\ SqlConsumed(r)' = SqlConsumed(r)
    BY <1>1, <2>4, <2>10, CallsInterruptedAre
  <2>30. TablesTyped'
    BY <1>1, <2>6, <2>10, <2>18, <2>22, <2>27, <2>28 DEF TablesTyped
  <2>31. SqlTyped'
    BY <1>1, <2>10, <2>30, ReturnTyped
  <2>33. LogFits(r)' /\ log[r] \subseteq log'[r]
    <3>1. /\ row'[r].seq = row[r].seq + Len(es) /\ Len(att'[r]) = Len(att[r])
          /\ log'[r] = log[r] \cup Numbered(row[r].seq, es) /\ LogFits(r)
      BY <2>6, <2>8, <2>12, <2>17, <2>18, <2>19, <2>20, <2>22, <2>25, <2>27 DEF RunFits
    <3>2. /\ \A i \in 1..Len(es) : es[i].kind # "rejected" => es[i].attempt = Len(att[r])
          /\ \A i \in 1..Len(es) : es[i].kind \in EndEvent =>
                row[r].status \notin SqlEnded /\ row'[r].status \in SqlEnded
          /\ \A i, j \in 1..Len(es) : es[i].kind \in EndEvent /\ es[j].kind \in EndEvent => i = j
          /\ row[r].status \in SqlEnded => row'[r].status \in SqlEnded
      BY <2>7, <2>19
    <3> QED
      BY <1>1, <2>4, <2>19, <3>1, <3>2, LogGrows
  <2>34. Moves(r)
    <3>1. row'[r].status \notin SqlHeld \cup {"absent", "created"}
      BY <2>17, <2>18 DEF SqlHeld
    <3>2. row'[r].owner = 0 /\ row'[r].version = row[r].version /\ row'[r].seq > row[r].seq
              /\ row'[r].turns = row[r].turns /\ row'[r].v11 = row[r].v11
              /\ row'[r].contract = row[r].contract /\ Len(att'[r]) = Len(att[r])
              /\ row'[r].seq \in Nat
      BY <2>6, <2>8, <2>12, <2>17, <2>18, <2>25, <2>27
    <3> QED
      BY <2>6, <3>1, <3>2, SqlAssumption DEF Moves
  <2>35. NoDamageYet' => NoDamageYet
    BY <2>17, <2>18 DEF NoDamageYet
  <2>36. CheckpointsFit(r)'
    BY <1>1, <2>4, <2>6, <2>10, <2>17, <2>18, <2>33, <2>34, CheckpointsKept DEF RunFits, Moves
  <2>37. BudgetFits(r)'
    BY <2>6, <2>7, <2>17, <2>18, <2>28 DEF RunFits, BudgetFits, V11
  <2>38. StatusFits(r)'
    <3>1. OpenAttempts(r)' = {} /\ row'[r].owner = 0 /\ row'[r].status = "interrupted"
              /\ row'[r].contract # "repaired"
      BY <2>7, <2>17, <2>18, <2>25, <2>27
    <3> QED
      BY <3>1 DEF StatusFits, Held, SqlHeld, SqlEnded
  <2>39. RunFits(r)'
    BY <2>33, <2>36, <2>37, <2>38 DEF RunFits
  <2>40. NoDamageYet' /\ Open(r)' => Shows(inv, r)'
    BY <2>4, <2>7, <2>10, <2>17, <2>18, <2>35 DEF SqlInv, ProjectionFits, Shows, V11
  <2>41. \A u \in Threads : (txn'[u] = txn[u] /\ Leaves(r, u)) \/ CallFits(txn[u], u)'
    <3>1. \A u \in Threads : Leaves(r, u)
      BY <2>17, <2>18, NotOwned
    <3> QED
      BY <1>1, <2>10, <3>1, AnswerFits
  <2>42. /\ \A q \in SqlRuns \ {r} : /\ row'[q] = row[q] /\ att'[q] = att[q] /\ log'[q] = log[q]
                                      /\ ckpt'[q] = ckpt[q] /\ tool'[q] = tool[q]
         /\ \A u \in SqlWorkers : claim'[u] \in {claim[u], NoClaim}
    BY <2>10, <2>18, <2>22, <2>27, <2>28
  <2> QED
    BY <2>4, <2>7, <2>31, <2>34, <2>39, <2>40, <2>41, <2>42, StepFits
<1> QED
  BY <1>2, <1>3

LEMMA RejectFits ==
    ASSUME SqlInv, NEW t \in SqlRequests, SqlReject(t)
    PROVE  SqlInv'
<1>1. t \in Threads /\ SqlTyped /\ TablesTyped
  BY DEF Threads, SqlInv, SqlTyped
<1>2. CASE Fails(t)
  BY <1>1, <1>2, FailsFits
<1>3. CASE ~Fails(t)
  <2>1. PICK c : c = txn[t]
    OBVIOUS
  <2>2. c \in RejectCalls
    BY <1>1, <2>1, CallOf, KindsOf DEF SqlReject, InCall
  <2>3. PICK r : r = c.run
    OBVIOUS
  <2>4. r \in SqlRuns /\ c.attempt \in Nat
    BY <2>2, <2>3 DEF RejectCalls
  <2>5. row[r].status = "interrupted"
    BY <1>3, <2>1, <2>3 DEF SqlReject
  <2>6. RunFits(r) /\ row[r] \in RowRecords /\ row[r].version \in Nat
            /\ row[r].seq \in Nat /\ row[r].turns \in 0..SqlTurns /\ Len(att[r]) \in Nat
            /\ inv \in Investigations
    BY <1>1, <2>4, RowOf DEF SqlInv, RunsFit, TablesTyped
  <2>7. Open(r) /\ row[r].owner = 0 /\ row[r].status \notin SqlEnded \cup {"absent"}
    BY <2>5, <2>6 DEF RunFits, StatusFits, Held, Open, SqlOpen, SqlHeld, SqlEnded
  <2>8. PICK es : es = <<Row("rejected", c.attempt)>>
    OBVIOUS
  <2>9. /\ Insert(r, row[r].seq, es) /\ UNCHANGED <<att, ckpt, tool, inv, clock, claim>> /\ Return(t)
    BY <1>3, <2>1, <2>3, <2>8, Zenon DEF SqlReject, Appended
  <2>10. row' = [row EXCEPT ![r] = [row[r] EXCEPT !.seq = row[r].seq + 1,
                    !.frozen = IF V11(r) THEN SqlView(r) ELSE row[r].frozen]]
    BY <1>3, <2>1, <2>3 DEF SqlReject
  <2>11. PICK n \in Nat : n = row[r].seq + 1
    BY <2>6
  <2>12. PICK v : v = IF V11(r) THEN SqlView(r) ELSE row[r].frozen
    OBVIOUS
  <2>13. v \in Unfrozen..SqlPhases
    <3>1. SqlView(r) \in Unfrozen..SqlPhases /\ row[r].frozen \in Unfrozen..SqlPhases
      BY <2>6, ViewTyped DEF SqlView, RowRecords
    <3> QED
      BY <2>12, <3>1
  <2>14. PICK nr : nr = [row[r] EXCEPT !.seq = n, !.frozen = v]
    OBVIOUS
  <2>15. row' = [row EXCEPT ![r] = nr]
    BY <2>10, <2>11, <2>12, <2>14, Zenon
  <2>16. nr \in RowRecords /\ nr.status = row[r].status /\ nr.owner = row[r].owner
            /\ nr.version = row[r].version /\ nr.seq = n /\ nr.phase = row[r].phase
            /\ nr.turns = row[r].turns /\ nr.contract = row[r].contract /\ nr.v11 = row[r].v11
    BY <2>6, <2>13, <2>14 DEF RowRecords
  <2>17. row' \in [SqlRuns -> RowRecords] /\ row'[r] = nr /\ \A q \in SqlRuns \ {r} : row'[q] = row[q]
    BY <1>1, <2>4, <2>15, <2>16 DEF TablesTyped
  <2>18. es \in Seq(NewRows) /\ Len(es) = 1 /\ es[1].kind = "rejected" /\ "rejected" \notin EndEvent
    <3>1. "rejected" \in EventKinds /\ "rejected" \notin EndEvent
      BY DEF EventKinds, EndEvent
    <3> QED
      BY <2>4, <2>8, <3>1, OneRow
  <2>19. PICK nl : nl = log[r] \cup Numbered(row[r].seq, es)
    OBVIOUS
  <2>20. nl \in SUBSET LogRows /\ log' = [log EXCEPT ![r] = nl]
    BY <1>1, <2>4, <2>9, <2>18, <2>19, InsertTyped DEF Insert
  <2>21. log' \in [SqlRuns -> SUBSET LogRows] /\ log'[r] = nl /\ \A q \in SqlRuns \ {r} : log'[q] = log[q]
    BY <1>1, <2>4, <2>20 DEF TablesTyped
  <2>22. TablesTyped'
    BY <1>1, <2>9, <2>17, <2>21 DEF TablesTyped
  <2>23. SqlTyped'
    BY <1>1, <2>9, <2>22, ReturnTyped
  <2>24. LogFits(r)' /\ log[r] \subseteq log'[r]
    <3>1. /\ row'[r].seq = row[r].seq + Len(es) /\ Len(att'[r]) = Len(att[r])
          /\ log'[r] = log[r] \cup Numbered(row[r].seq, es) /\ LogFits(r)
      BY <2>6, <2>9, <2>11, <2>16, <2>17, <2>18, <2>19, <2>21 DEF RunFits
    <3>2. /\ \A i \in 1..Len(es) : es[i].kind # "rejected" => es[i].attempt = Len(att[r])
          /\ \A i \in 1..Len(es) : es[i].kind \in EndEvent =>
                row[r].status \notin SqlEnded /\ row'[r].status \in SqlEnded
          /\ \A i, j \in 1..Len(es) : es[i].kind \in EndEvent /\ es[j].kind \in EndEvent => i = j
          /\ row[r].status \in SqlEnded => row'[r].status \in SqlEnded
      BY <2>7, <2>18
    <3> QED
      BY <1>1, <2>4, <2>18, <3>1, <3>2, LogGrows
  <2>25. Moves(r)
    BY <2>6, <2>9, <2>11, <2>16, <2>17, SqlAssumption DEF Moves
  <2>26. NoDamageYet' => NoDamageYet
    BY <2>16, <2>17 DEF NoDamageYet
  <2>27. CheckpointsFit(r)'
    BY <1>1, <2>4, <2>6, <2>9, <2>16, <2>17, <2>24, <2>25, CheckpointsKept DEF RunFits, Moves
  <2>28. BudgetFits(r)' /\ StatusFits(r)'
    BY <2>4, <2>6, <2>7, <2>9, <2>16, <2>17, <2>26, BudgetKept, StatusKept DEF RunFits
  <2>29. RunFits(r)'
    BY <2>24, <2>27, <2>28 DEF RunFits
  <2>30. NoDamageYet' /\ Open(r)' => Shows(inv, r)'
    BY <2>4, <2>7, <2>9, <2>16, <2>17, <2>26 DEF SqlInv, ProjectionFits, Shows, V11
  <2>31. \A u \in Threads : (txn'[u] = txn[u] /\ Leaves(r, u)) \/ CallFits(txn[u], u)'
    <3>1. \A u \in Threads : Leaves(r, u)
      BY <2>7, <2>16, <2>17, NotOwned
    <3> QED
      BY <1>1, <2>9, <3>1, AnswerFits
  <2>32. /\ \A q \in SqlRuns \ {r} : /\ row'[q] = row[q] /\ att'[q] = att[q] /\ log'[q] = log[q]
                                      /\ ckpt'[q] = ckpt[q] /\ tool'[q] = tool[q]
         /\ \A u \in SqlWorkers : claim'[u] \in {claim[u], NoClaim}
    BY <2>9, <2>17, <2>21
  <2> QED
    BY <2>4, <2>7, <2>23, <2>25, <2>29, <2>30, <2>31, <2>32, StepFits
<1> QED
  BY <1>2, <1>3

LEMMA RepairFits ==
    ASSUME SqlInv, NEW t \in SqlRequests, SqlRepair(t)
    PROVE  SqlInv'
<1>1. t \in Threads /\ SqlTyped /\ TablesTyped
  BY DEF Threads, SqlInv, SqlTyped
<1>2. CASE Fails(t)
  BY <1>1, <1>2, FailsFits
<1>3. CASE ~Fails(t)
  <2>1. PICK c : c = txn[t]
    OBVIOUS
  <2>2. c \in RepairCalls /\ CallFits(c, t)
    BY <1>1, <2>1, CallOf, KindsOf DEF SqlRepair, InCall
  <2>3. PICK r : r = c.run
    OBVIOUS
  <2>4. /\ r \in SqlRuns /\ c.seen \in RowRecords /\ RepairCallFits(c) /\ c.seen.seq \in Nat
        /\ c.read \in Investigations
    BY <2>2, <2>3 DEF CallFits, RepairCalls, RowRecords
  <2>5. RunFits(r) /\ row[r] \in RowRecords /\ row[r].version \in Nat
            /\ row[r].seq \in Nat /\ row[r].turns \in 0..SqlTurns /\ Len(att[r]) \in Nat
            /\ inv \in Investigations /\ att[r] \in Seq(AttemptStatuses)
    BY <1>1, <2>4, RowOf DEF SqlInv, RunsFit, TablesTyped
  <2>6. PICK o \in BOOLEAN : o <=> c.open # {}
    OBVIOUS
  <2>7. o => NumbersFree(r, c.seen.seq, 1)
    BY <1>3, <2>1, <2>3, <2>6 DEF SqlRepair, FailureNumber
  <2>8. o => /\ c.seen.seq = row[r].seq /\ Held(r) /\ c.open = {Len(att[r])}
    <3> SUFFICES ASSUME o PROVE c.seen.seq = row[r].seq /\ Held(r) /\ c.open = {Len(att[r])}
      OBVIOUS
    <3>1. LogFits(r) /\ c.seen.seq <= row[r].seq /\ 1 \in Nat \ {0}
      BY <2>3, <2>4, <2>5 DEF RepairCallFits, RunFits
    <3>2. c.seen.seq = row[r].seq
      BY <1>1, <2>4, <2>7, <3>1, FreeIsNext
    <3> QED
      BY <2>3, <2>4, <2>6, <3>2 DEF RepairCallFits
  <2>9. ~o => ~Held(r)
    BY <2>3, <2>4, <2>6 DEF RepairCallFits
  <2>10. row[r].contract # "sound"
    BY <2>3, <2>4 DEF RepairCallFits
  <2>11. PICK es : es = <<Row("run.failed", Len(att[r]))>>
    OBVIOUS
  <2>12. UNCHANGED <<ckpt, tool, clock, claim>> /\ Return(t)
    BY <1>3, <2>1, Zenon DEF SqlRepair
  <2>13. att' = [att EXCEPT ![r] =
                  [i \in DOMAIN att[r] |->
                      IF i \in c.open /\ att[r][i] = "running" THEN "failed" ELSE att[r][i]]]
    BY <1>3, <2>1, <2>3, Zenon DEF SqlRepair
  <2>14. IF c.open = {} THEN UNCHANGED log
         ELSE Insert(r, c.seen.seq, <<Row("run.failed", CHOOSE i \in c.open : TRUE)>>)
    BY <1>3, <2>1, <2>3, Zenon DEF SqlRepair, FailureNumber
  <2>15. (o => Insert(r, row[r].seq, es)) /\ (~o => log' = log)
    <3>1. ASSUME o PROVE Insert(r, row[r].seq, es)
      <4>1. (CHOOSE i \in c.open : TRUE) = Len(att[r])
        BY <2>8, <3>1
      <4> QED
        BY <2>6, <2>8, <2>11, <2>14, <3>1, <4>1
    <3>2. ~o => log' = log
      BY <2>6, <2>14
    <3> QED
      BY <3>1, <3>2
  <2>16. row' = [row EXCEPT ![r] = [Released(r, "failed") EXCEPT
                  !.seq = IF c.open # {} THEN c.seen.seq + 1 ELSE row[r].seq,
                  !.frozen = IF V11(r) THEN SqlView(r) ELSE row[r].frozen,
                  !.contract = "repaired"]]
    BY <1>3, <2>1, <2>3, Zenon DEF SqlRepair, FailureNumber
  <2>17. PICK n : n = IF c.open # {} THEN c.seen.seq + 1 ELSE row[r].seq
    OBVIOUS
  <2>18. n \in Nat /\ (o => n = row[r].seq + 1) /\ (~o => n = row[r].seq)
    BY <2>4, <2>5, <2>6, <2>8, <2>17
  <2>19. PICK v : v = IF V11(r) THEN SqlView(r) ELSE row[r].frozen
    OBVIOUS
  <2>20. v \in Unfrozen..SqlPhases
    <3>1. SqlView(r) \in Unfrozen..SqlPhases /\ row[r].frozen \in Unfrozen..SqlPhases
      BY <2>5, ViewTyped DEF SqlView, RowRecords
    <3> QED
      BY <2>19, <3>1
  <2>21. PICK nr : nr = [[row[r] EXCEPT !.status = "failed", !.owner = 0, !.expires = 0]
                             EXCEPT !.seq = n, !.frozen = v, !.contract = "repaired"]
    OBVIOUS
  <2>22. row' = [row EXCEPT ![r] = nr]
    BY <2>16, <2>17, <2>19, <2>21, Zenon DEF Released
  <2>23. nr \in RowRecords /\ nr.status = "failed" /\ nr.owner = 0
            /\ nr.version = row[r].version /\ nr.seq = n /\ nr.phase = row[r].phase
            /\ nr.turns = row[r].turns /\ nr.contract = "repaired" /\ nr.v11 = row[r].v11
    BY <2>5, <2>18, <2>20, <2>21 DEF RowRecords, RunStatuses, SqlEnded
  <2>24. row' \in [SqlRuns -> RowRecords] /\ row'[r] = nr /\ \A q \in SqlRuns \ {r} : row'[q] = row[q]
    BY <1>1, <2>4, <2>22, <2>23 DEF TablesTyped
  <2>25. PICK na : na = [i \in DOMAIN att[r] |->
                      IF i \in c.open /\ att[r][i] = "running" THEN "failed" ELSE att[r][i]]
    OBVIOUS
  <2>26. /\ na \in Seq(AttemptStatuses) /\ Len(na) = Len(att[r])
         /\ \A i \in 1..Len(att[r]) : na[i] # "running"
    <3>1. DOMAIN att[r] = 1..Len(att[r]) /\ \A i \in 1..Len(att[r]) : att[r][i] \in AttemptStatuses
      BY <2>5
    <3>2. \A i \in 1..Len(att[r]) : att[r][i] = "running" => i \in c.open
      <4>1. OpenAttempts(r) \subseteq c.open
        BY <2>5, <2>6, <2>8, <2>9 DEF RunFits, StatusFits
      <4> QED
        BY <3>1, <4>1 DEF OpenAttempts
    <3>3. "failed" \in AttemptStatuses
      BY DEF AttemptStatuses, SqlEnded
    <3>4. \A i \in 1..Len(att[r]) : na[i] \in AttemptStatuses /\ na[i] # "running"
      BY <2>25, <3>1, <3>2, <3>3
    <3>5. na = [i \in 1..Len(att[r]) |-> na[i]]
      BY <2>25, <3>1
    <3>6. na \in Seq(AttemptStatuses) /\ Len(na) = Len(att[r])
      <4>1. PICK m \in Nat : m = Len(att[r])
        BY <2>5
      <4>2. na \in [1..m -> AttemptStatuses] /\ DOMAIN na = 1..m
        BY <3>4, <3>5, <4>1
      <4>3. na \in Seq(AttemptStatuses)
        BY <4>2, SeqDef
      <4>4. Len(na) = m
        BY <4>2, <4>3, LenProperties
      <4> QED
        BY <4>1, <4>3, <4>4
    <3> QED
      BY <3>4, <3>6
  <2>27. att' = [att EXCEPT ![r] = na]
    BY <2>13, <2>25, Zenon
  <2>28. att' \in [SqlRuns -> Seq(AttemptStatuses)] /\ att'[r] = na
             /\ \A q \in SqlRuns \ {r} : att'[q] = att[q]
    BY <1>1, <2>4, <2>26, <2>27 DEF TablesTyped
  <2>29. OpenAttempts(r)' = {}
    <3>1. DOMAIN na = 1..Len(att[r])
      BY <2>5, <2>26
    <3> QED
      BY <2>26, <2>28, <3>1 DEF OpenAttempts
  <2>30. es \in Seq(NewRows) /\ Len(es) = 1 /\ es[1].kind = "run.failed" /\ es[1].attempt = Len(att[r])
    <3>1. "run.failed" \in EventKinds
      BY DEF EventKinds, EndEvent
    <3> QED
      BY <2>5, <2>11, <3>1, OneRow
  <2>31. PICK nl : nl = IF o THEN log[r] \cup Numbered(row[r].seq, es) ELSE log[r]
    OBVIOUS
  <2>32. nl \in SUBSET LogRows
    <3>1. log[r] \cup Numbered(row[r].seq, es) \in SUBSET LogRows /\ log[r] \in SUBSET LogRows
      BY <1>1, <2>4, <2>30, InsertTyped, RowOf
    <3> QED
      BY <2>31, <3>1
  <2>33. log' \in [SqlRuns -> SUBSET LogRows] /\ log'[r] = nl /\ \A q \in SqlRuns \ {r} : log'[q] = log[q]
    <3>1. CASE o
      <4>1. log' = [log EXCEPT ![r] = nl]
        BY <2>15, <2>31, <3>1 DEF Insert
      <4> QED
        BY <1>1, <2>4, <2>32, <4>1 DEF TablesTyped
    <3>2. CASE ~o
      BY <1>1, <2>4, <2>15, <2>31, <3>2 DEF TablesTyped
    <3> QED
      BY <3>1, <3>2
  <2>34. inv' \in Investigations
    <3>1. PICK record \in Investigations : record = IF c.open # {} THEN inv ELSE c.read
      BY <2>4, <2>5
    <3>2. inv' = IF ~V11(r) \/ record.owner \in {0, r}
                 THEN [record EXCEPT !.status = "failed"] ELSE inv
      BY <1>3, <2>1, <2>3, <3>1, Zenon DEF SqlRepair
    <3>3. [record EXCEPT !.status = "failed"] \in Investigations
      BY <3>1 DEF Investigations, SqlEnded
    <3> QED
      BY <2>5, <3>2, <3>3
  <2>35. TablesTyped'
    BY <1>1, <2>12, <2>24, <2>28, <2>33, <2>34 DEF TablesTyped
  <2>36. SqlTyped'
    BY <1>1, <2>12, <2>35, ReturnTyped
  <2>37. LogFits(r)' /\ log[r] \subseteq log'[r]
    <3>1. /\ Len(att'[r]) = Len(att[r]) /\ LogFits(r) /\ row'[r].status \in SqlEnded
          /\ row'[r].seq = n
      BY <2>5, <2>23, <2>24, <2>26, <2>28 DEF RunFits, SqlEnded
    <3>2. CASE o
      <4>1. row[r].status \notin SqlEnded
        BY <2>8, <3>2 DEF Held, SqlHeld, SqlEnded
      <4>2. /\ \A i \in 1..Len(es) : es[i].kind # "rejected" => es[i].attempt = Len(att[r])
            /\ \A i, j \in 1..Len(es) : es[i].kind \in EndEvent /\ es[j].kind \in EndEvent => i = j
        BY <2>30
      <4>3. log'[r] = log[r] \cup Numbered(row[r].seq, es) /\ row'[r].seq = row[r].seq + Len(es)
        BY <2>18, <2>30, <2>31, <2>33, <3>1, <3>2
      <4> QED
        BY <1>1, <2>4, <2>30, <3>1, <4>1, <4>2, <4>3, LogGrows
    <3>3. CASE ~o
      <4>1. log'[r] = log[r] /\ row'[r].seq = row[r].seq
        BY <2>18, <2>31, <2>33, <3>1, <3>3
      <4>2. Len(att'[r]) \in Nat /\ Len(att'[r]) >= Len(att[r])
        BY <2>5, <3>1
      <4> QED
        BY <1>1, <2>4, <3>1, <4>1, <4>2, LogStays
    <3> QED
      BY <3>2, <3>3
  <2>38. Moves(r)
    <3>1. row'[r].owner = 0 /\ row'[r].version = row[r].version /\ row'[r].seq = n
              /\ row'[r].turns = row[r].turns /\ row'[r].v11 = row[r].v11
              /\ row'[r].contract = "repaired" /\ Len(att'[r]) = Len(att[r])
              /\ row'[r].status = "failed"
      BY <2>23, <2>24, <2>26, <2>28
    <3>2. row'[r].seq >= row[r].seq /\ (row[r].status \in SqlHeld => row'[r].seq # row[r].seq)
      BY <2>5, <2>9, <2>18, <3>1 DEF Held
    <3> QED
      BY <2>5, <3>1, <3>2, SqlAssumption DEF Moves, SqlHeld
  <2>39. ~NoDamageYet'
    BY <2>4, <2>23, <2>24 DEF NoDamageYet
  <2>40. CheckpointsFit(r)'
    BY <1>1, <2>4, <2>5, <2>12, <2>23, <2>24, <2>37, <2>38, CheckpointsKept DEF RunFits, Moves
  <2>41. BudgetFits(r)'
    <3>1. tool'[r] = tool[r] /\ row'[r].v11 = row[r].v11 /\ row'[r].status # "absent"
      BY <2>12, <2>23, <2>24
    <3> QED
      BY <2>4, <2>5, <3>1, BudgetKept DEF RunFits
  <2>42. StatusFits(r)'
    BY <2>23, <2>24, <2>29, <2>39 DEF StatusFits, Held, SqlHeld
  <2>43. RunFits(r)'
    BY <2>37, <2>40, <2>41, <2>42 DEF RunFits
  <2>44. ~Open(r)' /\ SameProjection
    BY <2>23, <2>24, <2>39 DEF Open, SqlOpen, SqlHeld, SameProjection
  <2>45. \A u \in Threads : (txn'[u] = txn[u] /\ Leaves(r, u)) \/ CallFits(txn[u], u)'
    <3>1. \A u \in Threads : Leaves(r, u)
      BY <2>23, <2>24, NotOwned
    <3> QED
      BY <1>1, <2>12, <3>1, AnswerFits
  <2>46. /\ \A q \in SqlRuns \ {r} : /\ row'[q] = row[q] /\ att'[q] = att[q] /\ log'[q] = log[q]
                                      /\ ckpt'[q] = ckpt[q] /\ tool'[q] = tool[q]
         /\ \A u \in SqlWorkers : claim'[u] \in {claim[u], NoClaim}
    BY <2>12, <2>24, <2>28, <2>33
  <2> QED
    BY <2>4, <2>36, <2>38, <2>43, <2>44, <2>45, <2>46, StepFits
<1> QED
  BY <1>2, <1>3

-----------------------------------------------------------------------------
(* The rows of a run fit together *)

LEMMA SqlInvKept == SqlInv /\ [SqlNext]_sqlVars => SqlInv'
<1> SUFFICES ASSUME SqlInv, [SqlNext]_sqlVars PROVE SqlInv'
  OBVIOUS
<1>1. CASE UNCHANGED sqlVars
  <2>1. UNCHANGED <<sqlTables, clock, txn, claim>>
    BY <1>1 DEF sqlVars, sqlTables
  <2>2. SqlTyped'
    BY <2>1, Still DEF SqlInv, SqlTyped
  <2> QED
    BY <2>1, <2>2, ReadFits
<1>2. ASSUME NEW r \in SqlRuns, ContractDamaged(r) \/ \E v11 \in BOOLEAN : SqlCreate(r, v11)
      PROVE  SqlInv'
  BY <1>2, DamagedFits, CreateFits
<1>3. ASSUME NEW w \in SqlWorkers, WorkerCalls(w) PROVE SqlInv'
  <2>1. CASE \E r \in SqlRuns : SqlStart(w, r)
    BY <2>1, StartFits
  <2>2. CASE SqlAcquire(w)
    BY <2>2, AcquireFits
  <2>3. CASE SqlRenew(w) \/ SqlReserveTurn(w)
    BY <2>3, RenewFits, ReserveTurnFits
  <2>4. CASE SqlAppendCalled(w) \/ SqlAppendChecked(w) \/ SqlAppend(w)
    BY <2>4, AppendCalledFits, AppendCheckedFits, AppendFits
  <2>5. CASE \E k \in SqlCalls, o \in {"running", "success"} : SqlToolCalled(w, k, o)
    BY <2>5, ToolCalledFits
  <2>6. CASE SqlToolChecked(w) \/ SqlCommitTool(w)
    BY <2>6, ToolCheckedFits, CommitToolFits
  <2>7. CASE SqlPhaseCalled(w) \/ SqlPhaseChecked(w) \/ SqlCommitPhase(w) \/ SqlPhaseBusy(w)
    BY <2>7, PhaseCalledFits, PhaseCheckedFits, CommitPhaseFits, PhaseBusyFits
  <2>8. CASE \E s \in SqlEnded : SqlTerminalCalled(w, s)
    BY <2>8, TerminalCalledFits
  <2>9. CASE SqlTerminalChecked(w) \/ SqlCommitTerminal(w)
    BY <2>9, TerminalCheckedFits, CommitTerminalFits
  <2>10. CASE SqlCrash(w)
    BY <2>10, CrashFits
  <2> QED
    BY <1>3, <2>1, <2>2, <2>3, <2>4, <2>5, <2>6, <2>7, <2>8, <2>9, <2>10, Zenon DEF WorkerCalls
<1>4. ASSUME NEW t \in SqlRequests, RequestCalls(t) PROVE SqlInv'
  <2>1. CASE \E r \in SqlRuns : SqlCancelCalled(t, r) \/ SqlReadDamaged(t, r)
    BY <2>1, CancelCalledFits, ReadDamagedFits
  <2>2. CASE \E r \in SqlRuns : \E n \in DOMAIN att[r] : SqlRejectCalled(t, r, n)
    BY <2>2, RejectCalledFits
  <2>3. CASE SqlCancelChecked(t) \/ SqlCancel(t)
    BY <2>3, CancelCheckedFits, CancelFits
  <2>4. CASE SqlAuditRead(t) \/ SqlAudit(t)
    BY <2>4, AuditReadFits, AuditFits
  <2>5. CASE SqlReject(t) \/ SqlRepair(t)
    BY <2>5, RejectFits, RepairFits
  <2> QED
    BY <1>4, <2>1, <2>2, <2>3, <2>4, <2>5, Zenon DEF RequestCalls
<1>5. ASSUME NEW d \in {"approved", "rejected", "done", "skipped"}, HumanDecides(d) PROVE SqlInv'
  BY <1>5, DecisionFits
<1>6. CASE SqlTick
  BY <1>6, TickFits
<1> QED
  BY <1>1, <1>2, <1>3, <1>4, <1>5, <1>6, Zenon DEF SqlNext

LEMMA SqlInvHolds == SqlSpec => []SqlInv
<1> QED
  BY SqlInitFits, SqlInvKept, PTL DEF SqlSpec

\* Whatever the order in which workers, requests and crashes meet, the rows of a run
\* fit together, although every call decides from reads that precede its transaction.
THEOREM RowsFit == SqlSpec => []SqlRowsConsistent
<1> QED
  BY SqlInvHolds, InvFitsRows, PTL

-----------------------------------------------------------------------------
(* How a run ended stays *)

Stays == SqlEndIsFinal /\ SqlDecisionStays

LEMMA QuietStays == ASSUME UNCHANGED <<row, inv>> PROVE Stays
BY DEF Stays, SqlEndIsFinal, SqlDecisionStays

\* A step writes the row of x: an ended run keeps its status or is repaired, and the
\* record keeps its decision or the run is open or damaged.
LEMMA WriteStays ==
    ASSUME TablesTyped, NEW x \in SqlRuns, NEW nr, row' = [row EXCEPT ![x] = nr],
           row[x].status \in SqlEnded =>
               nr.status = row[x].status \/ (row[x].contract = "damaged" /\ nr.status = "failed"),
           inv'.actions = inv.actions \/ nr.status \in SqlOpen \/ nr.contract # "sound"
    PROVE  Stays
<1>1. row'[x] = nr /\ \A q \in SqlRuns \ {x} : row'[q] = row[q]
  BY DEF TablesTyped
<1>2. SqlEndIsFinal
  BY <1>1 DEF SqlEndIsFinal
<1>3. SqlDecisionStays
  BY <1>1 DEF SqlDecisionStays
<1> QED
  BY <1>2, <1>3 DEF Stays

LEMMA FailsStays == ASSUME NEW t, Fails(t) PROVE Stays
BY QuietStays DEF Fails, sqlTables

LEMMA CreateStays ==
    ASSUME SqlInv, NEW r \in SqlRuns, NEW v11 \in BOOLEAN, SqlCreate(r, v11)
    PROVE  Stays
<1>1. TablesTyped /\ row[r] \in RowRecords
  BY RowOf DEF SqlInv, SqlTyped
<1>2. PICK nr : nr = [row[r] EXCEPT !.status = "created", !.v11 = v11]
  OBVIOUS
<1>3. row' = [row EXCEPT ![r] = nr]
  BY <1>1, <1>2 DEF SqlCreate, TablesTyped
<1>4. row[r].status \notin SqlEnded /\ inv' = inv
  BY DEF SqlCreate, SqlEnded
<1> QED
  BY <1>1, <1>3, <1>4, WriteStays

LEMMA DamagedStays ==
    ASSUME SqlInv, NEW r \in SqlRuns, ContractDamaged(r)
    PROVE  Stays
<1>1. TablesTyped /\ row[r] \in RowRecords
  BY RowOf DEF SqlInv, SqlTyped
<1>2. PICK nr : nr = [row[r] EXCEPT !.contract = "damaged"]
  OBVIOUS
<1>3. row' = [row EXCEPT ![r] = nr] /\ nr.status = row[r].status
  BY <1>1, <1>2 DEF ContractDamaged, TablesTyped, RowRecords
<1>4. inv' = inv
  BY DEF ContractDamaged
<1> QED
  BY <1>1, <1>3, <1>4, WriteStays

LEMMA LeaseStays ==
    ASSUME SqlInv, NEW w \in SqlWorkers, SqlRenew(w) \/ SqlReserveTurn(w)
    PROVE  Stays
<1> DEFINE r == claim[w].run
<1>1. r \in SqlRuns
  BY ClaimOf DEF SqlRenew, SqlReserveTurn, SqlWorks
<1>2. TablesTyped /\ row[r] \in RowRecords
  BY <1>1, RowOf DEF SqlInv, SqlTyped
<1>3. PICK nr : nr = [row[r] EXCEPT !.expires = clock + SqlLease]
  OBVIOUS
<1>4. PICK mr : mr = [row[r] EXCEPT !.turns = row[r].turns - 1]
  OBVIOUS
<1>5. SqlRenew(w) => row' = [row EXCEPT ![r] = nr]
  BY <1>1, <1>2, <1>3 DEF SqlRenew, TablesTyped
<1>6. SqlReserveTurn(w) => row' = [row EXCEPT ![r] = mr]
  BY <1>1, <1>2, <1>4 DEF SqlReserveTurn, TablesTyped
<1>7. nr.status = row[r].status /\ mr.status = row[r].status
  BY <1>2, <1>3, <1>4 DEF RowRecords
<1>8. inv' = inv
  BY DEF SqlRenew, SqlReserveTurn
<1>9. CASE SqlRenew(w)
  BY <1>1, <1>2, <1>5, <1>7, <1>8, <1>9, WriteStays
<1>10. CASE SqlReserveTurn(w)
  BY <1>1, <1>2, <1>6, <1>7, <1>8, <1>10, WriteStays
<1> QED
  BY <1>9, <1>10

LEMMA AcquireStays ==
    ASSUME SqlInv, NEW w \in SqlWorkers, SqlAcquire(w)
    PROVE  Stays
<1>1. w \in Threads /\ TablesTyped
  BY DEF Threads, SqlInv, SqlTyped
<1>2. CASE Fails(w)
  BY <1>2, FailsStays
<1>3. CASE ~Fails(w)
  <2>1. PICK c : c = txn[w]
    OBVIOUS
  <2>2. c \in AcquireCalls
    BY <1>1, <2>1, CallOf, KindsOf DEF SqlAcquire, InCall
  <2>3. PICK r : r = c.run
    OBVIOUS
  <2>4. r \in SqlRuns /\ c.status \in {"created", "interrupted"}
    BY <2>2, <2>3 DEF AcquireCalls
  <2>5. row[r].status = c.status
    BY <1>3, <2>1, <2>3, Zenon DEF SqlAcquire, MayAcquire
  <2>6. PICK nr : nr = [row[r] EXCEPT !.status = "running", !.owner = w,
                            !.version = row[r].version + 1, !.expires = c.at + SqlLease]
    OBVIOUS
  <2>7. row' = [row EXCEPT ![r] = nr] /\ inv' = inv
    BY <1>3, <2>1, <2>3, <2>6 DEF SqlAcquire
  <2>8. row[r].status \notin SqlEnded
    BY <2>4, <2>5 DEF SqlEnded
  <2> QED
    BY <1>1, <2>4, <2>7, <2>8, WriteStays
<1> QED
  BY <1>2, <1>3

LEMMA AppendStays ==
    ASSUME SqlInv, NEW w \in SqlWorkers, SqlAppend(w) \/ SqlCommitTool(w) \/ SqlCommitPhase(w)
    PROVE  Stays
<1>1. w \in Threads /\ TablesTyped
  BY DEF Threads, SqlInv, SqlTyped
<1>2. CASE Fails(w)
  BY <1>2, FailsStays
<1>3. CASE ~Fails(w)
  <2>1. PICK c : c = txn[w]
    OBVIOUS
  <2>2. c \in ClaimedCalls /\ CallFits(c, w) /\ c.op \in {"event", "tool", "phase"}
    BY <1>1, <2>1, CallOf, KindsOf DEF SqlAppend, SqlCommitTool, SqlCommitPhase, InCall, ClaimedCalls
  <2>3. PICK r : r = c.by.run
    OBVIOUS
  <2>4. c.by \in Claims /\ ClaimStands(c.by, w)
    BY <2>2 DEF CallFits, ClaimedCalls, EventCalls, ToolCalls, PhaseCalls, TerminalCalls
  <2>5. LeaseHeld(c.by, c.at)
    BY <1>3, <2>1 DEF SqlAppend, SqlCommitTool, SqlCommitPhase, Fenced
  <2>6. r \in SqlRuns /\ Open(r)
    BY <2>3, <2>4, <2>5, LeaseIs
  <2>7. row[r] \in RowRecords
    BY <1>1, <2>6, RowOf
  <2>8. PICK nr : nr = [row[r] EXCEPT !.seq = row[r].seq + 1]
    OBVIOUS
  <2>9. PICK mr : mr = [row[r] EXCEPT !.seq = row[r].seq + 2, !.phase = c.phase]
    OBVIOUS
  <2>10. SqlAppend(w) => row' = [row EXCEPT ![r] = nr]
    BY <1>1, <1>3, <2>1, <2>3, <2>6, <2>7, <2>8 DEF SqlAppend, TablesTyped
  <2>11. SqlCommitTool(w) => row' = [row EXCEPT ![r] = nr]
    BY <1>1, <1>3, <2>1, <2>3, <2>6, <2>7, <2>8 DEF SqlCommitTool, TablesTyped
  <2>12. SqlCommitPhase(w) => row' = [row EXCEPT ![r] = mr]
    <3>1. SqlCommitPhase(w) => row' = [row EXCEPT ![r].seq = row[r].seq + 2, ![r].phase = c.phase]
      BY <1>3, <2>1, <2>3, Zenon DEF SqlCommitPhase
    <3> QED
      BY <1>1, <2>6, <2>7, <2>9, <3>1 DEF TablesTyped
  <2>13. nr.status = row[r].status /\ mr.status = row[r].status
    BY <2>7, <2>8, <2>9 DEF RowRecords
  <2>14. row[r].status \in SqlOpen
    BY <2>6 DEF Open
  <2>15. CASE SqlAppend(w) \/ SqlCommitTool(w)
    BY <1>1, <2>6, <2>10, <2>11, <2>13, <2>14, <2>15, WriteStays
  <2>16. CASE SqlCommitPhase(w)
    BY <1>1, <2>6, <2>12, <2>13, <2>14, <2>16, WriteStays
  <2> QED
    BY <2>15, <2>16
<1> QED
  BY <1>2, <1>3

LEMMA TerminalStays ==
    ASSUME SqlInv, NEW w \in SqlWorkers, SqlCommitTerminal(w)
    PROVE  Stays
<1>1. w \in Threads /\ TablesTyped /\ inv \in Investigations
  BY DEF Threads, SqlInv, SqlTyped, TablesTyped
<1>2. CASE Fails(w)
  BY <1>2, FailsStays
<1>3. CASE ~Fails(w)
  <2>1. PICK c : c = txn[w]
    OBVIOUS
  <2>2. c \in TerminalCalls /\ CallFits(c, w)
    BY <1>1, <2>1, CallOf, KindsOf DEF SqlCommitTerminal, InCall
  <2>3. PICK r : r = c.by.run
    OBVIOUS
  <2>4. c.by \in Claims /\ ClaimStands(c.by, w)
    BY <2>2 DEF CallFits, TerminalCalls
  <2>5. LeaseHeld(c.by, c.at)
    BY <1>3, <2>1 DEF SqlCommitTerminal, StillAsChecked, Fenced
  <2>6. r \in SqlRuns /\ Open(r) /\ Held(r)
    BY <2>3, <2>4, <2>5, LeaseIs
  <2>7. PICK nr : nr = [Released(r, c.target) EXCEPT
                            !.seq = row[r].seq + Len(TerminalRows(c)), !.frozen = ViewOf(r, c.read)]
    OBVIOUS
  <2>8. row' = [row EXCEPT ![r] = nr]
    BY <1>3, <2>1, <2>3, <2>7 DEF SqlCommitTerminal, Released
  <2>9. inv' = OutcomeSaved(c)
    BY <1>3, <2>1, Zenon DEF SqlCommitTerminal
  <2>10. inv'.actions = inv.actions
    BY <1>1, <2>9 DEF OutcomeSaved, Investigations
  <2>11. row[r].status \notin SqlEnded
    BY <2>6 DEF Held, SqlHeld, SqlEnded
  <2> QED
    BY <1>1, <2>6, <2>8, <2>10, <2>11, WriteStays
<1> QED
  BY <1>2, <1>3

LEMMA CancelStays ==
    ASSUME SqlInv, NEW t \in SqlRequests, SqlCancel(t)
    PROVE  Stays
<1>1. t \in Threads /\ TablesTyped /\ inv \in Investigations
  BY DEF Threads, SqlInv, SqlTyped, TablesTyped
<1>2. CASE Fails(t)
  BY <1>2, FailsStays
<1>3. CASE ~Fails(t)
  <2>1. PICK c : c = txn[t]
    OBVIOUS
  <2>2. c \in CancelCalls /\ CallFits(c, t) /\ c.step = "write"
    BY <1>1, <2>1, CallOf, KindsOf DEF SqlCancel, InCall
  <2>3. PICK r : r = c.run
    OBVIOUS
  <2>4. r \in SqlRuns /\ c.status \in {"created", "running"} /\ row[r].status = c.status
    BY <1>3, <2>1, <2>2, <2>3 DEF CallFits, CancelCalls, CancelCallFits, SqlCancel, CancelStillDue
  <2>5. IF c.status = "created"
        THEN /\ row' = [row EXCEPT ![r] = [Released(r, "cancelled") EXCEPT !.frozen = c.view]]
             /\ inv' = IF c.owns THEN [inv EXCEPT !.status = "cancelled"] ELSE inv
        ELSE row' = [row EXCEPT ![r].status = "cancelling"] /\ UNCHANGED inv
    BY <1>3, <2>1, <2>3, Zenon DEF SqlCancel
  <2>6. PICK nr : nr = IF c.status = "created"
                       THEN [Released(r, "cancelled") EXCEPT !.frozen = c.view]
                       ELSE [row[r] EXCEPT !.status = "cancelling"]
    OBVIOUS
  <2>7. row' = [row EXCEPT ![r] = nr]
    <3>1. CASE c.status = "created"
      BY <2>5, <2>6, <3>1, Zenon
    <3>2. CASE c.status # "created"
      <4>1. nr = [row[r] EXCEPT !.status = "cancelling"]
        BY <2>6, <3>2
      <4>2. row' = [row EXCEPT ![r].status = "cancelling"]
        BY <2>5, <3>2
      <4> QED
        BY <1>1, <2>4, <4>1, <4>2 DEF TablesTyped
    <3> QED
      BY <3>1, <3>2
  <2>8. inv'.actions = inv.actions
    BY <1>1, <2>5 DEF Investigations
  <2>9. row[r].status \notin SqlEnded
    BY <2>4 DEF SqlEnded
  <2> QED
    BY <1>1, <2>4, <2>7, <2>8, <2>9, WriteStays
<1> QED
  BY <1>2, <1>3

LEMMA AuditStays ==
    ASSUME SqlInv, NEW t \in SqlRequests, SqlAudit(t)
    PROVE  Stays
<1>1. t \in Threads /\ TablesTyped
  BY DEF Threads, SqlInv, SqlTyped
<1>2. CASE Fails(t)
  BY <1>2, FailsStays
<1>3. CASE ~Fails(t)
  <2>1. PICK c : c = txn[t]
    OBVIOUS
  <2>2. c \in AuditCalls /\ CallFits(c, t)
    BY <1>1, <2>1, CallOf, KindsOf DEF SqlAudit, InCall
  <2>3. PICK r : r = c.run
    OBVIOUS
  <2>4. r \in SqlRuns /\ c.seen.status \in SqlHeld
    BY <2>2, <2>3 DEF CallFits, AuditCalls, AuditCallFits
  <2>5. AuditStillDue(c) /\ inv' = inv
    BY <1>3, <2>1 DEF SqlAudit
  <2>6. PICK nr : nr = [Released(r, "interrupted") EXCEPT
                    !.seq = c.seen.seq + 2,
                    !.frozen = IF V11(r) THEN SqlView(r) ELSE row[r].frozen]
    OBVIOUS
  <2>7. row' = [row EXCEPT ![r] = nr]
    BY <1>3, <2>1, <2>3, <2>6, Zenon DEF SqlAudit
  <2>8. row[r].status \notin SqlEnded
    BY <2>3, <2>4, <2>5 DEF AuditStillDue, SqlHeld, SqlEnded
  <2> QED
    BY <1>1, <2>4, <2>5, <2>7, <2>8, WriteStays
<1> QED
  BY <1>2, <1>3

LEMMA RejectStays ==
    ASSUME SqlInv, NEW t \in SqlRequests, SqlReject(t)
    PROVE  Stays
<1>1. t \in Threads /\ TablesTyped
  BY DEF Threads, SqlInv, SqlTyped
<1>2. CASE Fails(t)
  BY <1>2, FailsStays
<1>3. CASE ~Fails(t)
  <2>1. PICK c : c = txn[t]
    OBVIOUS
  <2>2. c \in RejectCalls
    BY <1>1, <2>1, CallOf, KindsOf DEF SqlReject, InCall
  <2>3. PICK r : r = c.run
    OBVIOUS
  <2>4. r \in SqlRuns
    BY <2>2, <2>3 DEF RejectCalls
  <2>5. row[r].status = "interrupted" /\ inv' = inv
    BY <1>3, <2>1, <2>3 DEF SqlReject
  <2>6. PICK nr : nr = [row[r] EXCEPT !.seq = row[r].seq + 1,
                            !.frozen = IF V11(r) THEN SqlView(r) ELSE row[r].frozen]
    OBVIOUS
  <2>7. row' = [row EXCEPT ![r] = nr]
    BY <1>3, <2>1, <2>3, <2>6 DEF SqlReject
  <2>8. row[r].status \notin SqlEnded
    BY <2>5 DEF SqlEnded
  <2> QED
    BY <1>1, <2>4, <2>5, <2>7, <2>8, WriteStays
<1> QED
  BY <1>2, <1>3

LEMMA RepairStays ==
    ASSUME SqlInv, NEW t \in SqlRequests, SqlRepair(t)
    PROVE  Stays
<1>1. t \in Threads /\ TablesTyped
  BY DEF Threads, SqlInv, SqlTyped
<1>2. CASE Fails(t)
  BY <1>2, FailsStays
<1>3. CASE ~Fails(t)
  <2>1. PICK c : c = txn[t]
    OBVIOUS
  <2>2. c \in RepairCalls /\ CallFits(c, t)
    BY <1>1, <2>1, CallOf, KindsOf DEF SqlRepair, InCall
  <2>3. PICK r : r = c.run
    OBVIOUS
  <2>4. r \in SqlRuns /\ row[r].contract # "sound"
    BY <2>2, <2>3 DEF CallFits, RepairCalls, RepairCallFits
  <2>5. row[r] \in RowRecords
    BY <1>1, <2>4, RowOf
  <2>6. PICK nr : nr = [Released(r, "failed") EXCEPT
                  !.seq = IF c.open # {} THEN c.seen.seq + 1 ELSE row[r].seq,
                  !.frozen = IF V11(r) THEN SqlView(r) ELSE row[r].frozen,
                  !.contract = "repaired"]
    BY Zenon
  <2>7. row' = [row EXCEPT ![r] = nr]
    BY <1>3, <2>1, <2>3, <2>6, Zenon DEF SqlRepair, FailureNumber
  <2>8. nr.status = "failed" /\ nr.contract = "repaired"
    BY <2>5, <2>6 DEF Released, RowRecords
  <2>9. row[r].contract \in {"damaged", "repaired"}
    BY <2>4, <2>5 DEF RowRecords
  <2>10. row[r].contract = "repaired" => row[r].status = "failed"
    BY <2>4 DEF SqlInv, RunsFit, RunFits, StatusFits
  <2> QED
    BY <1>1, <2>4, <2>7, <2>8, <2>9, <2>10, WriteStays
<1> QED
  BY <1>2, <1>3

LEMMA DecisionStays ==
    ASSUME NEW d, SqlInv, HumanDecides(d)
    PROVE  Stays
<1>1. inv \in Investigations
  BY DEF SqlInv, SqlTyped, TablesTyped
<1>2. row' = row /\ inv'.actions = d /\ d \in NextDecision(inv.actions)
  BY <1>1 DEF HumanDecides, Investigations
<1>3. SqlEndIsFinal
  BY <1>2 DEF SqlEndIsFinal
<1>4. SqlDecisionStays
  BY <1>2 DEF SqlDecisionStays
<1> QED
  BY <1>3, <1>4 DEF Stays

LEMMA StepStays == SqlInv /\ [SqlNext]_sqlVars => Stays
<1> SUFFICES ASSUME SqlInv, [SqlNext]_sqlVars PROVE Stays
  OBVIOUS
<1>1. CASE UNCHANGED <<row, inv>>
  BY <1>1, QuietStays
<1>2. ASSUME NEW r \in SqlRuns, ContractDamaged(r) \/ \E v11 \in BOOLEAN : SqlCreate(r, v11)
      PROVE  Stays
  BY <1>2, DamagedStays, CreateStays
<1>3. ASSUME NEW w \in SqlWorkers, WorkerCalls(w) PROVE Stays
  <2>1. CASE \E r \in SqlRuns : SqlStart(w, r)
    <3>1. UNCHANGED <<row, inv>>
      BY <2>1, Zenon DEF SqlStart, sqlTables
    <3> QED
      BY <3>1, QuietStays
  <2>2. CASE SqlAcquire(w)
    BY <2>2, AcquireStays
  <2>3. CASE SqlRenew(w) \/ SqlReserveTurn(w)
    BY <2>3, LeaseStays
  <2>4. CASE SqlAppendCalled(w) \/ SqlAppendChecked(w)
    <3>1. UNCHANGED <<row, inv>>
      BY <2>4, Zenon DEF SqlAppendCalled, SqlAppendChecked, Fails, sqlTables
    <3> QED
      BY <3>1, QuietStays
  <2>5. CASE \E k \in SqlCalls, o \in {"running", "success"} : SqlToolCalled(w, k, o)
    <3>1. UNCHANGED <<row, inv>>
      BY <2>5, Zenon DEF SqlToolCalled, sqlTables
    <3> QED
      BY <3>1, QuietStays
  <2>6. CASE SqlToolChecked(w) \/ SqlPhaseCalled(w) \/ SqlPhaseChecked(w) \/ SqlPhaseBusy(w)
    <3>1. UNCHANGED <<row, inv>>
      BY <2>6, Zenon DEF SqlToolChecked, SqlPhaseCalled, SqlPhaseChecked, SqlPhaseBusy, Fails, sqlTables
    <3> QED
      BY <3>1, QuietStays
  <2>7. CASE SqlAppend(w) \/ SqlCommitTool(w) \/ SqlCommitPhase(w)
    BY <2>7, AppendStays
  <2>8. CASE \E s \in SqlEnded : SqlTerminalCalled(w, s)
    <3>1. UNCHANGED <<row, inv>>
      BY <2>8, Zenon DEF SqlTerminalCalled, sqlTables
    <3> QED
      BY <3>1, QuietStays
  <2>9. CASE SqlTerminalChecked(w) \/ SqlCrash(w)
    <3>1. UNCHANGED <<row, inv>>
      BY <2>9, Zenon DEF SqlTerminalChecked, SqlCrash, Fails, sqlTables
    <3> QED
      BY <3>1, QuietStays
  <2>10. CASE SqlCommitTerminal(w)
    BY <2>10, TerminalStays
  <2> QED
    BY <1>3, <2>1, <2>2, <2>3, <2>4, <2>5, <2>6, <2>7, <2>8, <2>9, <2>10, Zenon DEF WorkerCalls
<1>4. ASSUME NEW t \in SqlRequests, RequestCalls(t) PROVE Stays
  <2>1. CASE \E r \in SqlRuns : SqlCancelCalled(t, r) \/ SqlReadDamaged(t, r)
    <3>1. UNCHANGED <<row, inv>>
      BY <2>1, Zenon DEF SqlCancelCalled, SqlReadDamaged, sqlTables
    <3> QED
      BY <3>1, QuietStays
  <2>2. CASE \E r \in SqlRuns : \E n \in DOMAIN att[r] : SqlRejectCalled(t, r, n)
    <3>1. UNCHANGED <<row, inv>>
      BY <2>2, Zenon DEF SqlRejectCalled, sqlTables
    <3> QED
      BY <3>1, QuietStays
  <2>3. CASE SqlCancelChecked(t) \/ SqlAuditRead(t)
    <3>1. UNCHANGED <<row, inv>>
      BY <2>3, Zenon DEF SqlCancelChecked, SqlAuditRead, Fails, sqlTables
    <3> QED
      BY <3>1, QuietStays
  <2>4. CASE SqlCancel(t) \/ SqlAudit(t)
    BY <2>4, CancelStays, AuditStays
  <2>5. CASE SqlReject(t) \/ SqlRepair(t)
    BY <2>5, RejectStays, RepairStays
  <2> QED
    BY <1>4, <2>1, <2>2, <2>3, <2>4, <2>5, Zenon DEF RequestCalls
<1>5. ASSUME NEW d \in {"approved", "rejected", "done", "skipped"}, HumanDecides(d) PROVE Stays
  BY <1>5, DecisionStays
<1>6. CASE SqlTick \/ UNCHANGED sqlVars
  <2>1. UNCHANGED <<row, inv>>
    BY <1>6, Zenon DEF SqlTick, sqlTables, sqlVars
  <2> QED
    BY <2>1, QuietStays
<1> QED
  BY <1>2, <1>3, <1>4, <1>5, <1>6, Zenon DEF SqlNext

\* How a run ended, and what a person decided about its actions afterwards, is not
\* undone by a call that read before it.
THEOREM OutcomeStays == SqlSpec => SqlOutcomeStays
<1>1. SqlInv /\ [SqlNext]_sqlVars => [SqlEndIsFinal /\ SqlDecisionStays]_sqlVars
  BY StepStays DEF Stays
<1> QED
  BY SqlInvHolds, <1>1, PTL DEF SqlSpec, SqlOutcomeStays
====

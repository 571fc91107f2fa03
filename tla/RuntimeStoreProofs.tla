------------------------- MODULE RuntimeStoreProofs -------------------------
(***************************************************************************)
(* Proofs about RuntimeStore for every number of runs, workers, tools,     *)
(* phases and attempts: type correctness, the agreement of lease, attempt  *)
(* and status, and that at most one claim ever handed out can write.       *)
(***************************************************************************)
EXTENDS RuntimeStore, FiniteSetTheorems, TLAPS

-----------------------------------------------------------------------------
(* Typing *)

\* StopRun keeps the typing of the variables it writes, for every target a
\* stopped run can have.
LEMMA StopRunType ==
    ASSUME TypeOK, NEW r \in Runs,
           NEW target \in Terminal \cup {"interrupted"},
           StopRun(r, target)
    PROVE  /\ status' \in [Runs -> RunStatus]
           /\ leaseOwner' \in [Runs -> Workers \cup {NoWorker}]
           /\ leaseVersion' \in [Runs -> Nat]
           /\ leaseLeft' \in [Runs -> 0..LeaseTTL]
           /\ attempts' \in [Runs -> Seq(AttemptStatus)]
<1>1. target \in RunStatus /\ target \in AttemptStatus
  BY DEF Terminal, RunStatus, Active, AttemptStatus
<1>2. LeaseTTL \in Nat
  BY StoreAssumption
<1>3. [n \in DOMAIN attempts[r] |->
          IF attempts[r][n] = "running" THEN target ELSE attempts[r][n]] \in Seq(AttemptStatus)
  <2> DEFINE f == [n \in DOMAIN attempts[r] |->
                      IF attempts[r][n] = "running" THEN target ELSE attempts[r][n]]
  <2>1. attempts[r] \in Seq(AttemptStatus)
    BY DEF TypeOK
  <2>2. f \in [1..Len(attempts[r]) -> AttemptStatus] /\ Len(attempts[r]) \in Nat
    BY <1>1, <2>1
  <2> QED
    BY <2>2
<1> QED
  BY <1>1, <1>2, <1>3 DEF TypeOK, StopRun

LEMMA FreezeType ==
    ASSUME TypeOK, NEW r \in Runs
    PROVE  FreezeView(r) \in View
BY DEF TypeOK, FreezeView, View

LEMMA LogType ==
    ASSUME TypeOK, NEW r \in Runs, NEW es \in Seq(Event)
    PROVE  Log(r, es) \in [Runs -> Seq(Event)]
<1>1. events[r] \o es \in Seq(Event)
  BY DEF TypeOK
<1> QED
  BY <1>1 DEF TypeOK, Log

LEMMA EvType ==
    ASSUME NEW t \in EventType, NEW n \in Nat
    PROVE  Ev(t, n) \in Event
BY DEF Ev, Event

LEMMA InterruptToolsType ==
    ASSUME TypeOK, NEW r \in Runs
    PROVE  InterruptTools(r) \in [Runs -> [Tools -> ToolStatus]]
BY DEF TypeOK, InterruptTools, ToolStatus, ToolDone

LEMMA OutcomeType ==
    ASSUME TypeOK, NEW r \in Runs, NEW target \in Terminal
    PROVE  OutcomeShown(r, target) \in {"pending", "running"} \cup Terminal
BY DEF TypeOK, OutcomeShown

\* The model's variables keep their types: no operation of the store writes a
\* value outside the domain of the column it writes.
THEOREM TypeCorrect == Spec => []TypeOK
<1>1. Init => TypeOK
  <2> SUFFICES ASSUME Init PROVE TypeOK
    OBVIOUS
  <2>1. <<>> \in Seq(AttemptStatus) /\ <<>> \in Seq(Event) /\ <<>> \in Seq(Checkpoint)
    OBVIOUS
  <2>2. NoView \in View
    BY DEF NoView, View
  <2>3. "absent" \in RunStatus /\ "none" \in ToolStatus
    BY DEF RunStatus, ToolStatus
  <2>4. 0 \in 0..LeaseTTL /\ TurnBudget \in 0..TurnBudget
    BY StoreAssumption
  <2> QED
    BY <2>1, <2>2, <2>3, <2>4 DEF Init, TypeOK, NoTools
<1>2. TypeOK /\ [Next]_vars => TypeOK'
  <2> SUFFICES ASSUME TypeOK, [Next]_vars PROVE TypeOK'
    OBVIOUS
  <2> USE StoreAssumption
  <2>1. ASSUME NEW r \in Runs, CreateRun(r) PROVE TypeOK'
    BY <2>1 DEF CreateRun, TypeOK, RunStatus, Active, workVars, projVars
  <2>2. ASSUME NEW r \in Runs, NEW w \in Workers, Acquire(r, w) PROVE TypeOK'
    <3>1. Append(attempts[r], "running") \in Seq(AttemptStatus)
      BY DEF TypeOK, AttemptStatus
    <3>2. Len(attempts[r]) + 1 \in Nat /\ leaseVersion[r] + 1 \in Nat
      BY DEF TypeOK
    <3>3. LeaseTTL \in 0..LeaseTTL /\ "running" \in RunStatus
      BY DEF RunStatus, Active
    <3>4. claims' \subseteq Claim
      <4> DEFINE new == [run |-> r, owner |-> w, version |-> leaseVersion[r] + 1,
                         attempt |-> Len(attempts[r]) + 1]
      <4>1. new \in Claim
        BY <3>2 DEF Claim
      <4>2. claims' = claims \cup {new}
        BY <2>2 DEF Acquire
      <4> QED
        BY <4>1, <4>2 DEF TypeOK
    <3> QED
      BY <2>2, <3>1, <3>2, <3>3, <3>4 DEF Acquire, TypeOK, workVars, projVars
  <2>3. ASSUME NEW r \in Runs, LeaseTick(r) PROVE TypeOK'
    <3>1. leaseLeft[r] - 1 \in 0..LeaseTTL
      BY <2>3 DEF LeaseTick, TypeOK
    <3> QED
      BY <2>3, <3>1 DEF LeaseTick, TypeOK, workVars, projVars
  <2>4. ASSUME NEW c \in claims, RenewLease(c) PROVE TypeOK'
    <3>1. LeaseTTL \in 0..LeaseTTL
      OBVIOUS
    <3> QED
      BY <2>4, <3>1 DEF RenewLease, TypeOK, workVars, projVars
  <2>5. ASSUME NEW r \in Runs, CancelCreated(r) PROVE TypeOK'
    <3>1. "cancelled" \in Terminal
      BY DEF Terminal
    <3>2. StopRun(r, "cancelled")
      BY <2>5 DEF CancelCreated
    <3> QED
      BY <2>5, <3>1, <3>2, StopRunType, FreezeType, OutcomeType
         DEF CancelCreated, TypeOK, workVars
  <2>6. ASSUME NEW r \in Runs, CancelRunning(r) PROVE TypeOK'
    BY <2>6 DEF CancelRunning, TypeOK, RunStatus, Active, workVars, projVars
  <2>7. ASSUME NEW c \in claims, AppendEvent(c) PROVE TypeOK'
    <3>1. c.run \in Runs /\ c.attempt \in Nat
      BY DEF TypeOK, Claim
    <3>2. <<Ev("work", c.attempt)>> \in Seq(Event)
      BY <3>1, EvType DEF EventType
    <3> QED
      BY <2>7, <3>1, <3>2, LogType DEF AppendEvent, TypeOK, runVars, workVars, projVars
  <2>8. ASSUME NEW c \in claims, ReserveTurn(c) PROVE TypeOK'
    <3>1. c.run \in Runs
      BY DEF TypeOK, Claim
    <3>2. turns[c.run] - 1 \in 0..TurnBudget
      BY <2>8, <3>1 DEF ReserveTurn, TypeOK
    <3> QED
      BY <2>8, <3>2 DEF ReserveTurn, TypeOK, runVars, projVars
  <2>9. ASSUME NEW c \in claims, NEW t \in Tools,
               NEW o \in {"running", "success", "failed"}, CommitTool(c, t, o)
        PROVE  TypeOK'
    <3>1. c.run \in Runs /\ c.attempt \in Nat
      BY DEF TypeOK, Claim
    <3>2. <<Ev("tool", c.attempt)>> \in Seq(Event)
      BY <3>1, EvType DEF EventType
    <3>3. o \in ToolStatus
      BY DEF ToolStatus, ToolDone
    <3>4. events' \in [Runs -> Seq(Event)]
      BY <2>9, <3>1, <3>2, LogType DEF CommitTool
    <3>5. tools' \in [Runs -> [Tools -> ToolStatus]]
      <4>1. tools' = [tools EXCEPT ![c.run] = [tools[c.run] EXCEPT ![t] = o]]
        BY <2>9 DEF CommitTool
      <4> QED
        BY <3>3, <4>1 DEF TypeOK
    <3>6. evidence' \subseteq Runs \X Tools
      BY <2>9, <3>1 DEF CommitTool, TypeOK
    <3> QED
      BY <2>9, <3>4, <3>5, <3>6 DEF CommitTool, TypeOK, runVars
  <2>10. ASSUME NEW c \in claims, NEW failed \in BOOLEAN, BuildPhaseCommit(c, failed)
         PROVE  TypeOK'
    <3>1. c.run \in Runs /\ c \in Claim
      BY DEF TypeOK, Claim
    <3>2. MergedCommit(c, failed) \in PhaseCommit
      <4>1. Len(checkpoints[c.run]) \in Nat
        BY <3>1 DEF TypeOK
      <4>2. turns[c.run] \in Nat
        BY <3>1 DEF TypeOK
      <4>3. tools[c.run] \in [Tools -> ToolStatus]
        BY <3>1 DEF TypeOK
      <4>4. evidence \in SUBSET (Runs \X Tools)
        BY DEF TypeOK
      <4> QED
        BY <3>1, <4>1, <4>2, <4>3, <4>4 DEF MergedCommit, PhaseCommit
    <3> QED
      BY <2>10, <3>2 DEF BuildPhaseCommit, TypeOK, runVars, workVars, projVars
  <2>11. ASSUME NEW p \in pending, CommitPhase(p) PROVE TypeOK'
    <3> DEFINE r == p.claim.run
               n == p.claim.attempt
               seq == Len(events[r]) + 2
               cp == [attempt |-> n, sequence |-> seq,
                      tools |-> IF p.base = 0 THEN {} ELSE Successes(p.tools)]
    <3>1. /\ r \in Runs /\ n \in Nat /\ p.evidence \subseteq Runs \X Tools
          /\ p.tools \in [Tools -> ToolStatus]
      BY DEF TypeOK, PhaseCommit, Claim
    <3>2. <<Ev("phase", n), Ev("checkpoint", n)>> \in Seq(Event)
      BY <3>1, EvType DEF EventType
    <3>3. seq \in Nat
      BY <3>1 DEF TypeOK
    <3>4. cp \in Checkpoint
      BY <3>1, <3>3 DEF Checkpoint, Successes
    <3>5. checkpoints' \in [Runs -> Seq(Checkpoint)]
      <4>1. checkpoints' = [checkpoints EXCEPT ![r] = Append(@, cp)]
        BY <2>11 DEF CommitPhase
      <4>2. Append(checkpoints[r], cp) \in Seq(Checkpoint)
        BY <3>1, <3>4 DEF TypeOK
      <4> HIDE DEF cp, r
      <4> QED
        BY <4>1, <4>2 DEF TypeOK
    <3>6. tools' \in [Runs -> [Tools -> ToolStatus]]
      <4>1. NoTools \in [Runs -> [Tools -> ToolStatus]]
        BY DEF NoTools, ToolStatus
      <4>2. WriteBack(r, p.tools) \in [Runs -> [Tools -> ToolStatus]]
        BY <3>1 DEF WriteBack, TypeOK
      <4> QED
        BY <2>11, <4>1, <4>2 DEF CommitPhase
    <3>7. events' \in [Runs -> Seq(Event)]
      BY <2>11, <3>1, <3>2, LogType DEF CommitPhase
    <3>8. projOwner' \in Runs \cup {NoRun} /\ evidence' \subseteq Runs \X Tools
      BY <2>11, <3>1 DEF CommitPhase
    <3>9. invStatus' \in {"pending", "running"} \cup Terminal
      BY <2>11 DEF CommitPhase, Terminal
    <3> QED
      BY <2>11, <3>5, <3>6, <3>7, <3>8, <3>9 DEF CommitPhase, TypeOK, runVars
  <2>12. ASSUME NEW c \in claims, NEW target \in Terminal, CommitTerminal(c, target)
         PROVE  TypeOK'
    <3>1. c.run \in Runs /\ c.attempt \in Nat
      BY DEF TypeOK, Claim
    <3>2. PICK es \in TerminalEvents(target, c.attempt) : events' = Log(c.run, es)
      BY <2>12 DEF CommitTerminal
    <3>3. es \in Seq(Event)
      <4> DEFINE e(t) == Ev(t, c.attempt)
      <4>1. /\ e("attempt.completed") \in Event /\ e("run.completed") \in Event
            /\ e("run.failed") \in Event /\ e("phase") \in Event
            /\ e("run.cancelled") \in Event
        BY <3>1, EvType DEF EventType
      <4>2. \/ es = <<e("attempt.completed"), e("run.completed")>>
            \/ es = <<e("run.failed")>>
            \/ es = <<e("phase"), e("run.failed")>>
            \/ es = <<e("run.cancelled")>>
        BY <3>2 DEF TerminalEvents, Terminal
      <4> HIDE DEF e
      <4>3. /\ <<e("attempt.completed"), e("run.completed")>> \in Seq(Event)
            /\ <<e("phase"), e("run.failed")>> \in Seq(Event)
        BY <4>1
      <4>4. <<e("run.failed")>> \in Seq(Event) /\ <<e("run.cancelled")>> \in Seq(Event)
        BY <4>1
      <4> QED
        BY <4>2, <4>3, <4>4
    <3>4. StopRun(c.run, target)
      BY <2>12 DEF CommitTerminal
    <3> QED
      BY <2>12, <3>1, <3>2, <3>3, <3>4, StopRunType, LogType, InterruptToolsType,
         OutcomeType, FreezeType DEF CommitTerminal, TypeOK
  <2>13. ASSUME NEW r \in Runs, AuditExpired(r) PROVE TypeOK'
    <3>1. Len(attempts[r]) \in Nat
      BY DEF TypeOK
    <3>2. <<Ev("run.interrupted", Len(attempts[r])),
            Ev("attempt.interrupted", Len(attempts[r]))>> \in Seq(Event)
      BY <3>1, EvType DEF EventType
    <3>3. StopRun(r, "interrupted")
      BY <2>13 DEF AuditExpired
    <3> QED
      BY <2>13, <3>2, <3>3, StopRunType, LogType, InterruptToolsType, FreezeType
         DEF AuditExpired, TypeOK, projVars
  <2>14. ASSUME NEW r \in Runs, NEW n \in 1..MaxAttempts, RejectRecovery(r, n)
         PROVE  TypeOK'
    <3>1. <<Ev("recovery.rejected", n)>> \in Seq(Event)
      BY EvType DEF EventType
    <3> QED
      BY <2>14, <3>1, LogType, FreezeType
         DEF RejectRecovery, TypeOK, runVars, workVars, projVars
  <2>15. CASE UNCHANGED vars
    BY <2>15 DEF TypeOK, vars, runVars, workVars, projVars
  <2> QED
    BY <2>1, <2>2, <2>3, <2>4, <2>5, <2>6, <2>7, <2>8, <2>9, <2>10, <2>11, <2>12, <2>13,
       <2>14, <2>15 DEF Next, RunStep, ClaimStep
<1> QED
  BY <1>1, <1>2, PTL DEF Spec

-----------------------------------------------------------------------------
(* Ownership *)

\* Claims are numbered like the leases that produced them.
ClaimsNumbered ==
    \A c \in claims : c.version \in 1..leaseVersion[c.run] /\ c.attempt = c.version

\* A lease version of a run was handed out once.
ClaimsUnique ==
    \A c, d \in claims : c.run = d.run /\ c.version = d.version => c = d

\* An investigation has one active live run.
OneActiveRun ==
    \A r, q \in Runs : status[r] \in Active /\ status[q] \in Active => r = q

\* OwnershipConsistent says nothing of the attempts of a leased run.
LeasedHasAttempt == \A r \in Runs : status[r] \in Leased => attempts[r] # <<>>

\* The inductive strengthening of OwnershipConsistent and SingleWriter.
OwnershipInv ==
    /\ OwnershipConsistent
    /\ LeasedHasAttempt
    /\ ClaimsNumbered
    /\ ClaimsUnique
    /\ OneActiveRun

\* OwnershipInv reads five variables; a step that leaves them alone keeps it.
LEMMA OwnershipFrame ==
    ASSUME OwnershipInv,
           UNCHANGED <<status, leaseOwner, leaseVersion, attempts, claims>>
    PROVE  OwnershipInv'
BY DEF OwnershipInv, OwnershipConsistent, LeasedHasAttempt, ClaimsNumbered,
       ClaimsUnique, OneActiveRun

\* A run that stops, from a lease or before its first one, leaves every run
\* consistent.
LEMMA OwnershipStop ==
    ASSUME TypeOK, OwnershipInv, NEW r \in Runs,
           NEW target \in Terminal \cup {"interrupted"},
           status[r] \in Leased \/ (status[r] = "created" /\ target = "cancelled"),
           StopRun(r, target), claims' = claims
    PROVE  OwnershipInv'
<1>1. target \notin Leased /\ target # "running" /\ target # "created"
  BY DEF Terminal, Leased
<1>2. attempts[r] \in Seq(AttemptStatus)
  BY DEF TypeOK
<1>3. /\ status' = [status EXCEPT ![r] = target]
      /\ leaseOwner' = [leaseOwner EXCEPT ![r] = NoWorker]
      /\ leaseVersion' = leaseVersion
      /\ attempts' = [attempts EXCEPT ![r] =
             [n \in DOMAIN @ |-> IF @[n] = "running" THEN target ELSE @[n]]]
  BY DEF StopRun
<1>4. attempts'[r] = [n \in 1..Len(attempts[r]) |->
                         IF attempts[r][n] = "running" THEN target ELSE attempts[r][n]]
  BY <1>2, <1>3 DEF TypeOK
<1>5. /\ Len(attempts'[r]) = Len(attempts[r])
      /\ DOMAIN attempts'[r] = 1..Len(attempts[r])
      /\ Len(attempts[r]) \in Nat
  BY <1>2, <1>4
<1>6. status'[r] = target /\ leaseOwner'[r] = NoWorker
  BY <1>3 DEF TypeOK
<1>7. ASSUME NEW q \in Runs, q # r
      PROVE  /\ status'[q] = status[q] /\ leaseOwner'[q] = leaseOwner[q]
             /\ attempts'[q] = attempts[q]
  BY <1>3, <1>7 DEF TypeOK
<1>8. OwnershipConsistent'
  <2> SUFFICES ASSUME NEW q \in Runs
      PROVE /\ leaseVersion'[q] = Len(attempts'[q])
            /\ status'[q] \in Leased <=> leaseOwner'[q] # NoWorker
            /\ \A n \in DOMAIN attempts'[q] :
                  attempts'[q][n] = "running" <=>
                      n = Len(attempts'[q]) /\ status'[q] \in Leased
            /\ status'[q] \in {"interrupted", "completed", "failed"} =>
                  attempts'[q] # <<>> /\ attempts'[q][Len(attempts'[q])] = status'[q]
    BY DEF OwnershipConsistent
  <2>1. CASE q # r
    BY <1>3, <1>7, <2>1 DEF OwnershipInv, OwnershipConsistent
  <2>2. CASE q = r
    <3>1. leaseVersion'[r] = Len(attempts'[r])
      BY <1>3, <1>5 DEF OwnershipInv, OwnershipConsistent
    <3>2. \A n \in DOMAIN attempts'[r] : attempts'[r][n] # "running"
      BY <1>1, <1>4, <1>5
    <3>3. ASSUME status'[r] \in {"interrupted", "completed", "failed"}
          PROVE  attempts'[r] # <<>> /\ attempts'[r][Len(attempts'[r])] = target
      <4>1. status[r] \in Leased
        BY <1>6, <3>3
      <4>2. attempts[r] # <<>>
        BY <4>1 DEF OwnershipInv, LeasedHasAttempt
      <4>3. Len(attempts[r]) \in 1..Len(attempts[r])
        BY <1>2, <4>2
      <4>4. attempts[r][Len(attempts[r])] = "running"
        BY <1>2, <4>1, <4>3 DEF OwnershipInv, OwnershipConsistent
      <4> QED
        BY <1>4, <1>5, <4>3, <4>4
    <3> QED
      BY <1>1, <1>6, <2>2, <3>1, <3>2, <3>3
  <2> QED
    BY <2>1, <2>2
<1>9. LeasedHasAttempt'
  BY <1>1, <1>6, <1>7 DEF OwnershipInv, LeasedHasAttempt
<1>10. ClaimsNumbered' /\ ClaimsUnique'
  BY <1>3 DEF OwnershipInv, ClaimsNumbered, ClaimsUnique
<1>11. OneActiveRun'
  BY <1>6, <1>7 DEF OwnershipInv, OneActiveRun, Active, Leased
<1> QED
  BY <1>8, <1>9, <1>10, <1>11 DEF OwnershipInv

\* A new lease comes with the next attempt number and a claim of its own.
LEMMA OwnershipAcquire ==
    ASSUME TypeOK, OwnershipInv, NEW r \in Runs, NEW w \in Workers, Acquire(r, w)
    PROVE  OwnershipInv'
<1> DEFINE k == Len(attempts[r]) + 1
           c0 == [run |-> r, owner |-> w, version |-> leaseVersion[r] + 1, attempt |-> k]
<1>1. attempts[r] \in Seq(AttemptStatus) /\ Len(attempts[r]) \in Nat /\ k \in Nat
  BY DEF TypeOK
<1>2. leaseVersion[r] = Len(attempts[r])
  BY DEF OwnershipInv, OwnershipConsistent
<1>3. /\ status'[r] = "running" /\ leaseOwner'[r] = w
      /\ leaseVersion'[r] = k
      /\ attempts'[r] = Append(attempts[r], "running")
  BY <1>2 DEF Acquire, TypeOK
<1>4. ASSUME NEW q \in Runs, q # r
      PROVE  /\ status'[q] = status[q] /\ leaseOwner'[q] = leaseOwner[q]
             /\ leaseVersion'[q] = leaseVersion[q] /\ attempts'[q] = attempts[q]
  BY <1>4 DEF Acquire, TypeOK
<1>5. claims' = claims \cup {c0}
  BY DEF Acquire
<1>6. /\ Len(attempts'[r]) = k
      /\ DOMAIN attempts'[r] = 1..k
      /\ attempts'[r][k] = "running"
      /\ \A n \in 1..Len(attempts[r]) : attempts'[r][n] = attempts[r][n]
  BY <1>1, <1>3
<1>7. \A n \in 1..Len(attempts[r]) : attempts[r][n] # "running"
  BY <1>1 DEF Acquire
<1> HIDE DEF c0
<1>8. OwnershipConsistent'
  <2> SUFFICES ASSUME NEW q \in Runs
      PROVE /\ leaseVersion'[q] = Len(attempts'[q])
            /\ status'[q] \in Leased <=> leaseOwner'[q] # NoWorker
            /\ \A n \in DOMAIN attempts'[q] :
                  attempts'[q][n] = "running" <=>
                      n = Len(attempts'[q]) /\ status'[q] \in Leased
            /\ status'[q] \in {"interrupted", "completed", "failed"} =>
                  attempts'[q] # <<>> /\ attempts'[q][Len(attempts'[q])] = status'[q]
    BY DEF OwnershipConsistent
  <2>1. CASE q # r
    BY <1>4, <2>1 DEF OwnershipInv, OwnershipConsistent
  <2>2. CASE q = r
    <3>1. "running" \in Leased /\ w # NoWorker
      BY StoreAssumption DEF Leased
    <3>2. \A n \in 1..k : attempts'[r][n] = "running" <=> n = k
      BY <1>1, <1>6, <1>7
    <3> QED
      BY <1>3, <1>6, <2>2, <3>1, <3>2
  <2> QED
    BY <2>1, <2>2
<1>9. LeasedHasAttempt'
  <2>1. attempts'[r] # <<>>
    BY <1>1, <1>6
  <2> QED
    BY <1>4, <2>1 DEF OwnershipInv, LeasedHasAttempt
<1>10. ASSUME NEW c \in claims
       PROVE  /\ c.run \in Runs /\ c.version \in 1..leaseVersion[c.run]
              /\ leaseVersion[c.run] \in Nat /\ c.attempt = c.version
  BY DEF OwnershipInv, ClaimsNumbered, TypeOK, Claim
<1>11. c0.run = r /\ c0.version = k /\ c0.attempt = k
  BY <1>2 DEF c0
<1>12. ClaimsNumbered'
  <2> SUFFICES ASSUME NEW c \in claims'
      PROVE c.version \in 1..leaseVersion'[c.run] /\ c.attempt = c.version
    BY DEF ClaimsNumbered
  <2>1. CASE c = c0
    BY <1>1, <1>3, <1>11, <2>1
  <2>2. CASE c \in claims
    BY <1>1, <1>2, <1>3, <1>4, <1>10, <2>2
  <2> QED
    BY <1>5, <2>1, <2>2
<1>13. ClaimsUnique'
  <2>1. \A c \in claims : c.run = r => c.version # k
    BY <1>1, <1>2, <1>10
  <2> QED
    BY <1>5, <1>11, <2>1 DEF OwnershipInv, ClaimsUnique
<1>14. OneActiveRun'
  <2>1. status[r] \in Active
    BY DEF Acquire, Active
  <2> QED
    BY <1>4, <2>1 DEF OwnershipInv, OneActiveRun
<1> QED
  BY <1>8, <1>9, <1>12, <1>13, <1>14 DEF OwnershipInv

LEMMA OwnershipInit == Init => OwnershipInv
BY DEF Init, OwnershipInv, OwnershipConsistent, LeasedHasAttempt, ClaimsNumbered,
       ClaimsUnique, OneActiveRun, Leased, Active

LEMMA OwnershipStep ==
    ASSUME TypeOK, OwnershipInv, [Next]_vars
    PROVE  OwnershipInv'
<1>1. ASSUME NEW r \in Runs, CreateRun(r) PROVE OwnershipInv'
  <2>1. /\ status' = [status EXCEPT ![r] = "created"]
        /\ UNCHANGED <<leaseOwner, leaseVersion, attempts, claims>>
    BY <1>1 DEF CreateRun
  <2>2. status[r] = "absent" /\ \A q \in Runs : status[q] \notin Active
    BY <1>1 DEF CreateRun
  <2>3. OwnershipConsistent' /\ LeasedHasAttempt'
    BY <2>1, <2>2 DEF OwnershipInv, OwnershipConsistent, LeasedHasAttempt, TypeOK, Leased
  <2>4. ClaimsNumbered' /\ ClaimsUnique'
    BY <2>1 DEF OwnershipInv, ClaimsNumbered, ClaimsUnique
  <2>5. OneActiveRun'
    BY <2>1, <2>2 DEF OneActiveRun, TypeOK
  <2> QED
    BY <2>3, <2>4, <2>5 DEF OwnershipInv
<1>2. ASSUME NEW r \in Runs, NEW w \in Workers, Acquire(r, w) PROVE OwnershipInv'
  BY <1>2, OwnershipAcquire
<1>3. ASSUME NEW r \in Runs, LeaseTick(r) PROVE OwnershipInv'
  BY <1>3, OwnershipFrame DEF LeaseTick
<1>4. ASSUME NEW c \in claims, RenewLease(c) PROVE OwnershipInv'
  BY <1>4, OwnershipFrame DEF RenewLease
<1>5. ASSUME NEW r \in Runs, CancelCreated(r) PROVE OwnershipInv'
  BY <1>5, OwnershipStop DEF CancelCreated, Terminal
<1>6. ASSUME NEW r \in Runs, CancelRunning(r) PROVE OwnershipInv'
  <2>1. /\ status' = [status EXCEPT ![r] = "cancelling"] /\ status[r] = "running"
        /\ UNCHANGED <<leaseOwner, leaseVersion, attempts, claims>>
    BY <1>6 DEF CancelRunning
  <2> QED
    BY <2>1 DEF TypeOK, OwnershipInv, OwnershipConsistent, LeasedHasAttempt,
                ClaimsNumbered, ClaimsUnique, OneActiveRun, Leased, Active
<1>7. ASSUME NEW c \in claims, AppendEvent(c) PROVE OwnershipInv'
  BY <1>7, OwnershipFrame DEF AppendEvent, runVars
<1>8. ASSUME NEW c \in claims, ReserveTurn(c) PROVE OwnershipInv'
  BY <1>8, OwnershipFrame DEF ReserveTurn, runVars
<1>9. ASSUME NEW c \in claims, NEW t \in Tools,
             NEW o \in {"running", "success", "failed"}, CommitTool(c, t, o)
      PROVE  OwnershipInv'
  BY <1>9, OwnershipFrame DEF CommitTool, runVars
<1>10. ASSUME NEW c \in claims, NEW failed \in BOOLEAN, BuildPhaseCommit(c, failed)
       PROVE  OwnershipInv'
  BY <1>10, OwnershipFrame DEF BuildPhaseCommit, runVars
<1>11. ASSUME NEW p \in pending, CommitPhase(p) PROVE OwnershipInv'
  BY <1>11, OwnershipFrame DEF CommitPhase, runVars
<1>12. ASSUME NEW c \in claims, NEW target \in Terminal, CommitTerminal(c, target)
       PROVE  OwnershipInv'
  <2>1. c.run \in Runs
    BY DEF TypeOK, Claim
  <2> QED
    BY <1>12, <2>1, OwnershipStop DEF CommitTerminal
<1>13. ASSUME NEW r \in Runs, AuditExpired(r) PROVE OwnershipInv'
  BY <1>13, OwnershipStop DEF AuditExpired
<1>14. ASSUME NEW r \in Runs, NEW n \in 1..MaxAttempts, RejectRecovery(r, n)
       PROVE  OwnershipInv'
  BY <1>14, OwnershipFrame DEF RejectRecovery, runVars
<1>15. CASE UNCHANGED vars
  BY <1>15, OwnershipFrame DEF vars, runVars
<1> QED
  BY <1>1, <1>2, <1>3, <1>4, <1>5, <1>6, <1>7, <1>8, <1>9, <1>10, <1>11, <1>12, <1>13,
     <1>14, <1>15 DEF Next, RunStep, ClaimStep

\* Typing and ownership together are inductive.
LEMMA OwnershipHolds == Spec => [](TypeOK /\ OwnershipInv)
<1>1. Spec => []TypeOK
  BY TypeCorrect
<1>2. TypeOK /\ OwnershipInv /\ [Next]_vars => OwnershipInv'
  BY OwnershipStep
<1> QED
  BY <1>1, <1>2, OwnershipInit, PTL DEF Spec

\* Lease, attempt and status of every run agree in every reachable state: the
\* store never leaves a lease without a running attempt, a running attempt
\* without a lease, or two running attempts.
THEOREM Ownership == Spec => []OwnershipConsistent
<1>1. TypeOK /\ OwnershipInv => OwnershipConsistent
  BY DEF OwnershipInv
<1> QED
  BY <1>1, OwnershipHolds, PTL

\* At most one claim ever handed out, over all runs of the investigation, passes
\* the store's fence: two bearers of admitted claims have active runs, so the
\* same run, so its current lease version, and a version was handed out once.
THEOREM ExclusiveWriter == Spec => []SingleWriter
<1>1. ASSUME TypeOK, OwnershipInv PROVE SingleWriter
  <2> SUFFICES ASSUME NEW c \in claims, NEW d \in claims, Admitted(c), Admitted(d)
               PROVE  c = d
    BY DEF SingleWriter
  <2>1. c.run \in Runs /\ d.run \in Runs
    BY <1>1 DEF TypeOK, Claim
  <2>2. c.run = d.run
    BY <1>1, <2>1 DEF Admitted, OwnershipInv, OneActiveRun, Leased, Active
  <2>3. c.version = d.version
    BY <2>2 DEF Admitted, FenceHolds
  <2> QED
    BY <1>1, <2>2, <2>3 DEF OwnershipInv, ClaimsUnique
<1> QED
  BY <1>1, OwnershipHolds, PTL

\* A terminal run never changes again, whatever claim or phase commit still
\* arrives for it.
THEOREM TerminalStays == Spec => TerminalIsFinal
<1> DEFINE Final(r) == /\ status'[r] = status[r] /\ attempts'[r] = attempts[r]
                       /\ events'[r] = events[r] /\ checkpoints'[r] = checkpoints[r]
                       /\ turns'[r] = turns[r]   /\ frozen'[r] = frozen[r]
<1>1. ASSUME TypeOK, [Next]_vars, NEW q \in Runs, status[q] \in Terminal
      PROVE  Final(q)
  <2> USE <1>1 DEF Terminal
  <2>1. ASSUME NEW c \in claims PROVE c.run \in Runs
    BY DEF TypeOK, Claim
  <2>2. ASSUME NEW p \in pending PROVE p.claim.run \in Runs
    BY DEF TypeOK, PhaseCommit, Claim
  <2>3. CASE \E r \in Runs : CreateRun(r) \/ (\E w \in Workers : Acquire(r, w))
                            \/ LeaseTick(r) \/ CancelRunning(r)
    BY <2>3 DEF CreateRun, Acquire, LeaseTick, CancelRunning, workVars, TypeOK
  <2>4. CASE \E r \in Runs : CancelCreated(r)
    BY <2>4 DEF CancelCreated, StopRun, workVars, TypeOK
  <2>5. CASE \E r \in Runs : AuditExpired(r)
    BY <2>5 DEF AuditExpired, StopRun, Log, Leased, TypeOK
  <2>6. CASE \E r \in Runs, n \in 1..MaxAttempts : RejectRecovery(r, n)
    BY <2>6 DEF RejectRecovery, Log, runVars, workVars, TypeOK
  <2>7. CASE \E c \in claims : RenewLease(c)
    BY <2>7 DEF RenewLease, workVars
  <2>8. CASE \E c \in claims : AppendEvent(c)
    BY <2>1, <2>8 DEF AppendEvent, Log, Leased, runVars, workVars, TypeOK
  <2>9. CASE \E c \in claims : ReserveTurn(c)
    BY <2>1, <2>9 DEF ReserveTurn, Leased, runVars, TypeOK
  <2>10. CASE \E c \in claims, t \in Tools, o \in {"running", "success", "failed"} :
                CommitTool(c, t, o)
    BY <2>1, <2>10 DEF CommitTool, Log, runVars, TypeOK
  <2>11. CASE \E c \in claims, failed \in BOOLEAN : BuildPhaseCommit(c, failed)
    BY <2>11 DEF BuildPhaseCommit, runVars, workVars
  <2>12. CASE \E p \in pending : CommitPhase(p)
    BY <2>2, <2>12 DEF CommitPhase, Log, Leased, runVars, TypeOK
  <2>13. CASE \E c \in claims, target \in Terminal : CommitTerminal(c, target)
    BY <2>1, <2>13 DEF CommitTerminal, StopRun, Log, Leased, TypeOK
  <2>14. CASE UNCHANGED vars
    BY <2>14 DEF vars, runVars, workVars
  <2> QED
    BY <2>3, <2>4, <2>5, <2>6, <2>7, <2>8, <2>9, <2>10, <2>11, <2>12, <2>13, <2>14
       DEF Next, RunStep, ClaimStep
<1>2. TypeOK /\ [Next]_vars =>
          [\A r \in Runs : status[r] \in Terminal => Final(r)]_vars
  BY <1>1
<1> QED
  BY <1>2, TypeCorrect, PTL DEF Spec, TerminalIsFinal
-----------------------------------------------------------------------------
(***************************************************************************)
(* Proofs about the investigation's active projection in RuntimeStore:     *)
(* who owns it, what its tool calls cost, what evidence it holds and that  *)
(* neither a phase commit nor a takeover by a rerun loses any of it.       *)
(*                                                                         *)
(* The heart of the matter is CommitsAreFresh: a phase commit is a         *)
(* snapshot of all tool calls and all evidence, taken at some earlier      *)
(* time; whenever the store would still accept it, it equals what the      *)
(* store holds, so writing it back overwrites nothing.                     *)
(***************************************************************************)

-----------------------------------------------------------------------------
(* The inductive strengthening *)

\* A phase commit carries a claim that was handed out and a position the run has
\* reached.
CommitsArePlaced ==
    \A p \in pending : p.claim \in claims /\ p.base <= Len(checkpoints[p.claim.run])

\* A commit the store would still accept is the present state of the projection.
CommitsAreFresh ==
    \A p \in pending :
        Admitted(p.claim) /\ p.base = Len(checkpoints[p.claim.run])
            => p.tools = tools[p.claim.run] /\ p.evidence = evidence

\* The projection is owned from the first checkpoint (INTAKE) on.
OwnerHasCheckpoint == \A r \in Runs : projOwner = r => checkpoints[r] # <<>>

\* The frozen view of an ended owner is the active projection.
EndedOwnerIsFrozen ==
    \A r \in Runs : projOwner = r /\ status[r] \in Terminal
        => frozen[r] = [state |-> "activated", evidence |-> evidence]

\* The set of charged calls is finite, so that its cardinality counts it.
ConsumedFinite == \A r \in Runs : IsFiniteSet(Consumed(r))

ProjectionInv ==
    /\ ProjectionConsistent
    /\ CommitsArePlaced
    /\ CommitsAreFresh
    /\ OwnerHasCheckpoint
    /\ EndedOwnerIsFrozen
    /\ ConsumedFinite

\* Everything earlier proofs established, with the projection's invariant.
StoreInv == TypeOK /\ OwnershipInv /\ ProjectionInv

-----------------------------------------------------------------------------
(* Facts about claims *)

\* Runs and tools of claims and commits are those of the instance.
LEMMA BearerTypes ==
    ASSUME TypeOK
    PROVE  /\ \A c \in claims : c \in Claim /\ c.run \in Runs /\ c.attempt \in Nat
           /\ \A p \in pending : /\ p \in PhaseCommit /\ p.claim \in Claim
                                 /\ p.claim.run \in Runs
BY DEF TypeOK, PhaseCommit, Claim

\* OwnershipInv implies that one claim at most is admitted.
LEMMA AdmittedUnique ==
    ASSUME TypeOK, OwnershipInv, NEW c \in claims, NEW d \in claims,
           Admitted(c), Admitted(d)
    PROVE  c = d
<1>1. c.run \in Runs /\ d.run \in Runs
  BY DEF TypeOK, Claim
<1>2. c.run = d.run
  BY <1>1 DEF Admitted, OwnershipInv, OneActiveRun, Leased, Active
<1>3. c.version = d.version
  BY <1>2 DEF Admitted, FenceHolds
<1> QED
  BY <1>2, <1>3 DEF OwnershipInv, ClaimsUnique

-----------------------------------------------------------------------------
(* Steps that leave the projection alone *)

\* Steps that touch neither tool calls, evidence nor owner, admit no older claim,
\* end no lease and give no run an outcome keep the invariant; a run may be frozen.
LEMMA ProjectionFrame ==
    ASSUME StoreInv,
           UNCHANGED <<tools, checkpoints, pending, projVars>>,
           claims \subseteq claims',
           \A p \in pending : Admitted(p.claim)' => Admitted(p.claim),
           \A r \in Runs : status[r] \in Leased => status'[r] \in Leased,
           \A r \in Runs : status'[r] \in Terminal => status'[r] = status[r],
           \A r \in Runs : frozen'[r] \in {frozen[r], FreezeView(r)}
    PROVE  ProjectionInv'
<1> USE DEF StoreInv, ProjectionInv, ProjectionConsistent, projVars
<1>1. NoOrphanToolCall'
  BY DEF NoOrphanToolCall
<1>2. ToolBudgetRespected' /\ ConsumedFinite'
  BY DEF ToolBudgetRespected, ConsumedFinite, Consumed
<1>3. EvidenceIsOwned'
  <2>1. ASSUME NEW r \in Runs, NEW e \in frozen'[r].evidence PROVE e[1] = r
    BY <2>1 DEF EvidenceIsOwned, FreezeView
  <2> QED
    BY <2>1 DEF EvidenceIsOwned
<1>4. InvestigationShowsOwner'
  BY DEF InvestigationShowsOwner, TypeOK
<1>5. CommitsArePlaced' /\ CommitsAreFresh' /\ OwnerHasCheckpoint'
  BY DEF CommitsArePlaced, CommitsAreFresh, OwnerHasCheckpoint
<1>6. EndedOwnerIsFrozen'
  BY DEF EndedOwnerIsFrozen, FreezeView
<1> QED
  BY <1>1, <1>2, <1>3, <1>4, <1>5, <1>6

\* A new lease admits a claim of its own and none of the claims of earlier leases.
LEMMA AcquireAdmitsNoOlder ==
    ASSUME TypeOK, OwnershipInv, NEW r \in Runs, NEW w \in Workers, Acquire(r, w),
           NEW c \in claims, Admitted(c)'
    PROVE  Admitted(c)
<1>1. c.run \in Runs /\ c.version \in 1..leaseVersion[c.run]
  BY DEF TypeOK, Claim, OwnershipInv, ClaimsNumbered
<1>2. CASE c.run = r
  <2>1. leaseVersion'[r] = leaseVersion[r] + 1 /\ leaseVersion[r] \in Nat
    BY DEF Acquire, TypeOK
  <2>2. leaseVersion'[r] = c.version
    BY <1>2 DEF Admitted, FenceHolds
  <2> QED
    BY <1>1, <1>2, <2>1, <2>2
<1>3. CASE c.run # r
  BY <1>1, <1>3 DEF Acquire, Admitted, FenceHolds, TypeOK
<1> QED
  BY <1>2, <1>3

-----------------------------------------------------------------------------
(* A run that stops *)

\* Interrupting the calls of a run leaves it without a running call and changes
\* neither what is charged nor what succeeded.
LEMMA InterruptKeeps ==
    ASSUME TypeOK, NEW r \in Runs, tools' = InterruptTools(r)
    PROVE  /\ \A t \in Tools : tools'[r][t] # "running"
           /\ \A q \in Runs, t \in Tools :
                 /\ tools'[q][t] = "none" <=> tools[q][t] = "none"
                 /\ tools'[q][t] = "success" <=> tools[q][t] = "success"
                 /\ tools'[q][t] = "running" => q # r /\ tools[q][t] = "running"
           /\ \A q \in Runs \ {r} : tools'[q] = tools[q]
BY DEF InterruptTools, TypeOK

\* A run that stops, by its owner, by the audit or before its first lease, leaves
\* the projection consistent: its calls end, its view is frozen and, if it owns the
\* projection, its outcome is the investigation's.
LEMMA ProjectionStop ==
    ASSUME StoreInv, NEW r \in Runs, NEW target \in Terminal \cup {"interrupted"},
           StopRun(r, target),
           \/ tools' = InterruptTools(r)
           \/ tools' = tools /\ status[r] \notin Leased,
           frozen' = [frozen EXCEPT ![r] = FreezeView(r)],
           invStatus' = IF target \in Terminal THEN OutcomeShown(r, target) ELSE invStatus,
           UNCHANGED <<claims, checkpoints, pending, projOwner, evidence>>
    PROVE  ProjectionInv'
<1> USE DEF StoreInv, ProjectionInv, ProjectionConsistent
<1>1. /\ \A t \in Tools : tools'[r][t] # "running"
      /\ \A q \in Runs, t \in Tools :
            /\ tools'[q][t] = "none" <=> tools[q][t] = "none"
            /\ tools'[q][t] = "success" <=> tools[q][t] = "success"
            /\ tools'[q][t] = "running" => q # r /\ tools[q][t] = "running"
      /\ \A q \in Runs \ {r} : tools'[q] = tools[q]
  BY InterruptKeeps DEF NoOrphanToolCall
<1>2. status' = [status EXCEPT ![r] = target] /\ status'[r] = target
  BY DEF StopRun, TypeOK
<1>3. \A q \in Runs \ {r} : status'[q] = status[q]
  BY DEF StopRun, TypeOK
<1>4. target \notin Leased
  BY DEF Terminal, Leased
<1>5. frozen'[r] = FreezeView(r) /\ \A q \in Runs \ {r} : frozen'[q] = frozen[q]
  BY DEF TypeOK
<1>6. NoOrphanToolCall'
  BY <1>1, <1>3 DEF NoOrphanToolCall
<1>7. ToolBudgetRespected' /\ ConsumedFinite'
  <2>1. ASSUME NEW q \in Runs PROVE Consumed(q)' = Consumed(q)
    BY <1>1 DEF Consumed
  <2> QED
    BY <2>1 DEF ToolBudgetRespected, ConsumedFinite
<1>8. EvidenceIsOwned'
  <2>1. ASSUME NEW e \in evidence PROVE e[1] = projOwner /\ tools'[e[1]][e[2]] = "success"
    <3>1. e[1] \in Runs /\ e[2] \in Tools
      BY DEF TypeOK
    <3> QED
      BY <1>1, <3>1 DEF EvidenceIsOwned
  <2>2. ASSUME NEW q \in Runs, NEW e \in frozen'[q].evidence PROVE e[1] = q
    BY <1>5, <2>2 DEF EvidenceIsOwned, FreezeView
  <2> QED
    BY <2>1, <2>2 DEF EvidenceIsOwned
<1>9. InvestigationShowsOwner'
  <2>1. CASE projOwner = r
    BY <1>2, <2>1 DEF InvestigationShowsOwner, OutcomeShown, Terminal
  <2>2. CASE projOwner # r
    <3>1. invStatus' = invStatus
      BY <2>2 DEF OutcomeShown
    <3>2. projOwner # NoRun => projOwner \in Runs
      BY DEF TypeOK
    <3> QED
      BY <1>3, <2>2, <3>1, <3>2 DEF InvestigationShowsOwner
  <2> QED
    BY <2>1, <2>2
<1>10. CommitsArePlaced' /\ OwnerHasCheckpoint'
  BY DEF CommitsArePlaced, OwnerHasCheckpoint
<1>11. CommitsAreFresh'
  <2> SUFFICES ASSUME NEW p \in pending, Admitted(p.claim)',
                      p.base = Len(checkpoints[p.claim.run])
               PROVE  p.tools = tools'[p.claim.run] /\ p.evidence = evidence
    BY DEF CommitsAreFresh
  <2>1. p.claim.run \in Runs
    BY BearerTypes
  <2>2. p.claim.run # r
    BY <1>2, <1>4 DEF Admitted
  <2>3. Admitted(p.claim)
    BY <1>3, <2>1, <2>2 DEF Admitted, FenceHolds, StopRun, TypeOK
  <2> QED
    BY <1>1, <2>1, <2>2, <2>3 DEF CommitsAreFresh
<1>12. EndedOwnerIsFrozen'
  BY <1>3, <1>5 DEF EndedOwnerIsFrozen, FreezeView
<1> QED
  BY <1>6, <1>7, <1>8, <1>9, <1>10, <1>11, <1>12

-----------------------------------------------------------------------------
(* A tool commit *)

\* What is charged to the run after a tool commit: at most the call's logical id
\* is added, and only if the budget admits it.
LEMMA ChargeWithinBudget ==
    ASSUME TypeOK, ToolBudgetRespected, ConsumedFinite,
           NEW c \in claims, NEW t \in Tools,
           NEW o \in {"running", "success", "failed"}, CommitTool(c, t, o)
    PROVE  ToolBudgetRespected' /\ ConsumedFinite'
<1> DEFINE r == c.run
           l == LogicalCall[t]
<1>1. r \in Runs /\ l \in Tools
  BY StoreAssumption, BearerTypes
<1>2. /\ tools'[r][t] = o /\ o # "none"
      /\ \A u \in Tools \ {t} : tools'[r][u] = tools[r][u]
      /\ \A q \in Runs \ {r} : tools'[q] = tools[q]
  BY <1>1 DEF CommitTool, TypeOK
<1>3. ASSUME NEW q \in Runs, q # r PROVE Consumed(q)' = Consumed(q)
  BY <1>2, <1>3 DEF Consumed
<1>4. Consumed(r)' = Consumed(r) \cup {l}
  BY <1>2 DEF Consumed
<1>5. IsFiniteSet(Consumed(r)) /\ Cardinality(Consumed(r)) <= ToolBudget
  BY <1>1 DEF ConsumedFinite, ToolBudgetRespected
<1> HIDE DEF r, l
<1>6. /\ IsFiniteSet(Consumed(r) \cup {l})
      /\ Cardinality(Consumed(r) \cup {l}) =
            IF l \in Consumed(r) THEN Cardinality(Consumed(r)) ELSE Cardinality(Consumed(r)) + 1
  BY <1>5, FS_AddElement
<1>7. l \in Consumed(r) \/ Cardinality(Consumed(r)) < ToolBudget
  <2>1. CASE tools[r][t] # "none"
    BY <2>1 DEF Consumed, l
  <2>2. CASE tools[r][t] = "none"
    BY <2>2 DEF CommitTool, BudgetAdmits, r, l
  <2> QED
    BY <2>1, <2>2
<1>8. Cardinality(Consumed(r)) \in Nat /\ ToolBudget \in Nat
  BY <1>5, FS_CardinalityType, StoreAssumption
<1>9. Cardinality(Consumed(r)') <= ToolBudget /\ IsFiniteSet(Consumed(r)')
  BY <1>4, <1>5, <1>6, <1>7, <1>8
<1>10. ToolBudgetRespected'
  BY <1>3, <1>9 DEF ToolBudgetRespected
<1>11. ConsumedFinite'
  BY <1>3, <1>9 DEF ConsumedFinite
<1> QED
  BY <1>10, <1>11

\* A tool commit keeps the invariant: its bearer holds the lease, so no other claim
\* is admitted, and it has no phase commit on its way that could miss the result.
LEMMA ProjectionTool ==
    ASSUME StoreInv, NEW c \in claims, NEW t \in Tools,
           NEW o \in {"running", "success", "failed"},
           ~PhaseQueued(c), CommitTool(c, t, o)
    PROVE  ProjectionInv'
<1> USE DEF StoreInv, ProjectionInv, ProjectionConsistent
<1> DEFINE r == c.run
<1>1. r \in Runs
  BY BearerTypes
<1>2. /\ tools'[r][t] = o
      /\ \A u \in Tools \ {t} : tools'[r][u] = tools[r][u]
      /\ \A q \in Runs \ {r} : tools'[q] = tools[q]
  BY <1>1 DEF CommitTool, TypeOK
<1>3. status[r] = "running" /\ projOwner = r /\ Admitted(c)
  BY DEF CommitTool, Admitted, Leased
<1>4. /\ UNCHANGED <<status, leaseOwner, leaseVersion, leaseLeft, claims, pending,
                     checkpoints, projOwner, invStatus, frozen>>
  BY DEF CommitTool, runVars
<1>5. tools[r][t] \in ToolDone => tools[r][t] = o
  BY DEF CommitTool
<1>6. evidence' = IF o = "success" THEN evidence \cup {<<r, t>>} ELSE evidence
  BY DEF CommitTool
<1> HIDE DEF r
<1>7. NoOrphanToolCall'
  BY <1>2, <1>3, <1>4 DEF NoOrphanToolCall, Leased
<1>8. ToolBudgetRespected' /\ ConsumedFinite'
  BY ChargeWithinBudget
<1>9. EvidenceIsOwned'
  <2>1. ASSUME NEW e \in evidence
        PROVE  e[1] = r /\ tools'[r][e[2]] = "success"
    <3>1. e[1] = r /\ tools[r][e[2]] = "success" /\ e[2] \in Tools
      BY <1>3 DEF EvidenceIsOwned, TypeOK
    <3>2. CASE e[2] = t
      BY <1>2, <1>5, <3>1, <3>2 DEF ToolDone
    <3>3. CASE e[2] # t
      BY <1>2, <3>1, <3>3
    <3> QED
      BY <3>1, <3>2, <3>3
  <2>2. ASSUME NEW e \in evidence' PROVE e[1] = r /\ tools'[r][e[2]] = "success"
    BY <1>2, <1>6, <2>1
  <2>3. \A q \in Runs : \A e \in frozen'[q].evidence : e[1] = q
    BY <1>4 DEF EvidenceIsOwned
  <2> QED
    BY <1>3, <1>4, <2>2, <2>3 DEF EvidenceIsOwned
<1>10. InvestigationShowsOwner'
  BY <1>4 DEF InvestigationShowsOwner
<1>11. CommitsArePlaced' /\ OwnerHasCheckpoint'
  BY <1>4 DEF CommitsArePlaced, OwnerHasCheckpoint
<1>12. CommitsAreFresh'
  <2> SUFFICES ASSUME NEW p \in pending, Admitted(p.claim),
                      p.base = Len(checkpoints[p.claim.run])
               PROVE  FALSE
    BY <1>4 DEF CommitsAreFresh, Admitted, FenceHolds
  <2>1. p.claim = c
    BY <1>3, AdmittedUnique DEF CommitsArePlaced
  <2> QED
    BY <2>1 DEF PhaseQueued
<1>13. EndedOwnerIsFrozen'
  BY <1>3, <1>4 DEF EndedOwnerIsFrozen, Terminal
<1> QED
  BY <1>7, <1>8, <1>9, <1>10, <1>11, <1>12, <1>13

-----------------------------------------------------------------------------
(* Phase commits *)

\* A commit is built from the present state of the projection.
LEMMA ProjectionBuild ==
    ASSUME StoreInv, NEW c \in claims, NEW failed \in BOOLEAN, BuildPhaseCommit(c, failed)
    PROVE  ProjectionInv'
<1> USE DEF StoreInv, ProjectionInv, ProjectionConsistent
<1> DEFINE new == MergedCommit(c, failed)
<1>1. /\ pending' = pending \cup {new}
      /\ UNCHANGED <<status, leaseOwner, leaseVersion, leaseLeft, claims, checkpoints, tools,
                     projOwner, invStatus, evidence, frozen>>
  BY DEF BuildPhaseCommit, runVars, workVars, projVars
<1>2. /\ new.claim = c /\ new.base = Len(checkpoints[c.run])
      /\ new.tools = tools[c.run] /\ new.evidence = evidence
  BY DEF MergedCommit
<1>3. c.run \in Runs /\ Len(checkpoints[c.run]) \in Nat
  <2>1. c.run \in Runs
    BY BearerTypes
  <2>2. checkpoints[c.run] \in Seq(Checkpoint)
    BY <2>1 DEF TypeOK
  <2> QED
    BY <2>1, <2>2
<1> HIDE DEF new
<1>4. CommitsArePlaced'
  BY <1>1, <1>2, <1>3 DEF CommitsArePlaced
<1>5. CommitsAreFresh'
  BY <1>1, <1>2 DEF CommitsAreFresh, Admitted, FenceHolds
<1>6. NoOrphanToolCall' /\ EvidenceIsOwned' /\ InvestigationShowsOwner'
  BY <1>1 DEF NoOrphanToolCall, EvidenceIsOwned, InvestigationShowsOwner
<1>7. ToolBudgetRespected' /\ ConsumedFinite'
  BY <1>1 DEF ToolBudgetRespected, ConsumedFinite, Consumed
<1>8. OwnerHasCheckpoint' /\ EndedOwnerIsFrozen'
  BY <1>1 DEF OwnerHasCheckpoint, EndedOwnerIsFrozen
<1> QED
  BY <1>4, <1>5, <1>6, <1>7, <1>8

\* What a phase commit writes: INTAKE empties the projection, any later phase
\* writes back exactly what is there.
LEMMA CommitWrites ==
    ASSUME StoreInv, NEW p \in pending, CommitPhase(p)
    PROVE  /\ Admitted(p.claim)
           /\ p.base = 0 => tools' = NoTools /\ evidence' = {}
           /\ p.base # 0 => tools' = tools /\ evidence' = evidence /\ projOwner = p.claim.run
<1> DEFINE r == p.claim.run
<1>1. r \in Runs /\ p.base \in Nat
  BY BearerTypes DEF StoreInv, PhaseCommit
<1>2. Admitted(p.claim)
  BY DEF CommitPhase, Admitted
<1>3. p.tools = tools[r] /\ p.evidence = evidence
  BY <1>2 DEF StoreInv, ProjectionInv, CommitsAreFresh, CommitPhase, PhaseInOrder
<1>4. WriteBack(r, p.tools) = tools
  <2>1. tools[r] = [t \in Tools |-> IF p.tools[t] = "none" THEN tools[r][t] ELSE p.tools[t]]
    BY <1>1, <1>3 DEF StoreInv, TypeOK
  <2>2. tools \in [Runs -> [Tools -> ToolStatus]]
    BY DEF StoreInv, TypeOK
  <2> QED
    BY <1>1, <2>1, <2>2 DEF WriteBack
<1>5. p.base = 0 => tools' = NoTools /\ evidence' = {}
  BY DEF CommitPhase
<1>6. p.base # 0 => tools' = tools /\ evidence' = evidence
  BY <1>3, <1>4 DEF CommitPhase
<1>7. p.base # 0 => projOwner = r
  BY <1>1 DEF CommitPhase, OwnershipAllows
<1> QED
  BY <1>2, <1>5, <1>6, <1>7

\* A phase commit keeps the invariant.
LEMMA ProjectionCommit ==
    ASSUME StoreInv, NEW p \in pending, CommitPhase(p)
    PROVE  ProjectionInv'
<1> USE DEF StoreInv, ProjectionInv, ProjectionConsistent
<1> DEFINE r == p.claim.run
<1>1. r \in Runs
  BY BearerTypes
<1>2. /\ UNCHANGED <<status, leaseOwner, leaseVersion, leaseLeft, claims, pending, frozen>>
      /\ projOwner' = r
  BY DEF CommitPhase, runVars
<1>3. status[r] \in Leased
  BY DEF CommitPhase
<1>4. /\ p.base = 0 => tools' = NoTools /\ evidence' = {}
      /\ p.base # 0 => tools' = tools /\ evidence' = evidence /\ projOwner = r
  BY CommitWrites
<1>5. /\ \A q \in Runs \ {r} : checkpoints'[q] = checkpoints[q]
      /\ Len(checkpoints'[r]) = Len(checkpoints[r]) + 1
      /\ checkpoints'[r] # <<>> /\ Len(checkpoints[r]) \in Nat
  <2>1. PICK x : checkpoints' = [checkpoints EXCEPT ![r] = Append(@, x)]
    BY DEF CommitPhase
  <2>2. checkpoints[r] \in Seq(Checkpoint)
    BY <1>1 DEF TypeOK
  <2> HIDE DEF r
  <2>3. /\ checkpoints'[r] = Append(checkpoints[r], x)
        /\ \A q \in Runs \ {r} : checkpoints'[q] = checkpoints[q]
    BY <1>1, <2>1 DEF TypeOK
  <2>4. /\ Len(Append(checkpoints[r], x)) = Len(checkpoints[r]) + 1
        /\ Append(checkpoints[r], x) # <<>> /\ Len(checkpoints[r]) \in Nat
    BY <2>2
  <2> QED
    BY <2>3, <2>4
<1>6. \A q \in Runs, t \in Tools : NoTools[q][t] = "none"
  BY DEF NoTools
<1> HIDE DEF r
<1>7. NoOrphanToolCall'
  BY <1>2, <1>4, <1>6 DEF NoOrphanToolCall
<1>8. ToolBudgetRespected' /\ ConsumedFinite'
  <2>1. CASE p.base = 0
    <3>1. ASSUME NEW q \in Runs PROVE Consumed(q)' = {}
      BY <1>4, <1>6, <2>1 DEF Consumed
    <3> QED
      BY <3>1, FS_EmptySet, StoreAssumption DEF ToolBudgetRespected, ConsumedFinite
  <2>2. CASE p.base # 0
    BY <1>4, <2>2 DEF ToolBudgetRespected, ConsumedFinite, Consumed
  <2> QED
    BY <2>1, <2>2
<1>9. EvidenceIsOwned'
  BY <1>2, <1>4 DEF EvidenceIsOwned
<1>10. InvestigationShowsOwner'
  BY <1>2, <1>3 DEF InvestigationShowsOwner, Leased, Terminal
<1>11. CommitsArePlaced'
  <2> SUFFICES ASSUME NEW d \in pending
               PROVE  d.claim \in claims /\ d.base <= Len(checkpoints'[d.claim.run])
    BY <1>2 DEF CommitsArePlaced
  <2>1. d.claim \in claims /\ d.base <= Len(checkpoints[d.claim.run]) /\ d.base \in Nat
    BY BearerTypes DEF CommitsArePlaced, PhaseCommit
  <2> QED
    BY <1>5, <2>1, BearerTypes
<1>12. CommitsAreFresh'
  <2> SUFFICES ASSUME NEW d \in pending, Admitted(d.claim),
                      d.base = Len(checkpoints'[d.claim.run])
               PROVE  FALSE
    BY <1>2 DEF CommitsAreFresh, Admitted, FenceHolds
  <2>1. d.claim = p.claim
    BY CommitWrites, AdmittedUnique DEF CommitsArePlaced
  <2>2. d.base <= Len(checkpoints[r])
    BY <2>1 DEF CommitsArePlaced, r
  <2> QED
    BY <1>5, <2>1, <2>2 DEF r
<1>13. OwnerHasCheckpoint'
  BY <1>2, <1>5 DEF OwnerHasCheckpoint
<1>14. EndedOwnerIsFrozen'
  BY <1>2, <1>3 DEF EndedOwnerIsFrozen, Leased, Terminal
<1> QED
  BY <1>7, <1>8, <1>9, <1>10, <1>11, <1>12, <1>13, <1>14

-----------------------------------------------------------------------------
(* The invariant holds *)

\* An empty projection without owner satisfies the invariant.
LEMMA ProjectionInit == Init => ProjectionInv
<1> SUFFICES ASSUME Init PROVE ProjectionInv
  OBVIOUS
<1>1. ASSUME NEW r \in Runs PROVE Consumed(r) = {}
  BY DEF Init, NoTools, Consumed
<1>2. ToolBudgetRespected /\ ConsumedFinite
  BY <1>1, FS_EmptySet, StoreAssumption DEF ToolBudgetRespected, ConsumedFinite
<1>3. NoOrphanToolCall /\ EvidenceIsOwned /\ InvestigationShowsOwner
  BY DEF Init, NoTools, NoView, NoOrphanToolCall, EvidenceIsOwned, InvestigationShowsOwner
<1>4. CommitsArePlaced /\ CommitsAreFresh /\ OwnerHasCheckpoint /\ EndedOwnerIsFrozen
  BY StoreAssumption
     DEF Init, CommitsArePlaced, CommitsAreFresh, OwnerHasCheckpoint, EndedOwnerIsFrozen
<1> QED
  BY <1>2, <1>3, <1>4 DEF ProjectionInv, ProjectionConsistent

\* Every operation of the store keeps the invariant.
LEMMA ProjectionStep ==
    ASSUME StoreInv, [Next]_vars
    PROVE  ProjectionInv'
<1> USE DEF StoreInv
<1>0. /\ \A p \in pending : p.claim \in claims
      /\ \A r \in Runs : frozen[r] \in {frozen[r], FreezeView(r)}
  BY DEF ProjectionInv, CommitsArePlaced
<1>1. ASSUME NEW r \in Runs, CreateRun(r) PROVE ProjectionInv'
  <2>1. /\ status[r] = "absent" /\ status' = [status EXCEPT ![r] = "created"]
        /\ UNCHANGED <<leaseOwner, leaseVersion, leaseLeft, claims, tools, checkpoints,
                       pending, projVars, frozen>>
    BY <1>1 DEF CreateRun, workVars
  <2>2. \A p \in pending : Admitted(p.claim)' => Admitted(p.claim)
    BY <2>1, BearerTypes DEF Admitted, FenceHolds, Leased, TypeOK
  <2> QED
    BY <2>1, <2>2, ProjectionFrame DEF Leased, Terminal, TypeOK
<1>2. ASSUME NEW r \in Runs, NEW w \in Workers, Acquire(r, w) PROVE ProjectionInv'
  <2>1. /\ status[r] \in {"created", "interrupted"}
        /\ status' = [status EXCEPT ![r] = "running"]
        /\ UNCHANGED <<tools, checkpoints, pending, projVars, frozen>>
        /\ claims \subseteq claims'
    BY <1>2 DEF Acquire, workVars
  <2>2. \A p \in pending : Admitted(p.claim)' => Admitted(p.claim)
    BY <1>0, <1>2, AcquireAdmitsNoOlder
  <2> QED
    BY <2>1, <2>2, ProjectionFrame DEF Leased, Terminal, TypeOK
<1>3. ASSUME NEW r \in Runs, LeaseTick(r) PROVE ProjectionInv'
  <2>1. /\ leaseLeft[r] > 0 /\ leaseLeft' = [leaseLeft EXCEPT ![r] = @ - 1]
        /\ UNCHANGED <<status, leaseOwner, leaseVersion, claims, tools, checkpoints,
                       pending, projVars, frozen>>
    BY <1>3 DEF LeaseTick, workVars
  <2>2. \A q \in Runs : leaseLeft'[q] > 0 => leaseLeft[q] > 0
    BY <2>1 DEF TypeOK
  <2>3. \A p \in pending : Admitted(p.claim)' => Admitted(p.claim)
    BY <2>1, <2>2, BearerTypes DEF Admitted, FenceHolds
  <2> QED
    BY <2>1, <2>3, ProjectionFrame
<1>4. ASSUME NEW c \in claims, RenewLease(c) PROVE ProjectionInv'
  <2>1. /\ FenceHolds(c) /\ leaseLeft' = [leaseLeft EXCEPT ![c.run] = LeaseTTL]
        /\ UNCHANGED <<status, leaseOwner, leaseVersion, claims, tools, checkpoints,
                       pending, projVars, frozen>>
    BY <1>4 DEF RenewLease, workVars
  <2>2. \A q \in Runs : leaseLeft'[q] > 0 => leaseLeft[q] > 0
    BY <2>1, BearerTypes DEF FenceHolds, TypeOK
  <2>3. \A p \in pending : Admitted(p.claim)' => Admitted(p.claim)
    BY <2>1, <2>2, BearerTypes DEF Admitted, FenceHolds
  <2> QED
    BY <2>1, <2>3, ProjectionFrame
<1>5. ASSUME NEW r \in Runs, CancelCreated(r) PROVE ProjectionInv'
  <2>1. StopRun(r, "cancelled") /\ status[r] \notin Leased /\ tools' = tools
    BY <1>5 DEF CancelCreated, workVars, Leased
  <2> QED
    BY <1>5, <2>1, ProjectionStop DEF CancelCreated, workVars, Terminal
<1>6. ASSUME NEW r \in Runs, CancelRunning(r) PROVE ProjectionInv'
  <2>1. /\ status[r] = "running" /\ status' = [status EXCEPT ![r] = "cancelling"]
        /\ UNCHANGED <<leaseOwner, leaseVersion, leaseLeft, claims, tools, checkpoints,
                       pending, projVars, frozen>>
    BY <1>6 DEF CancelRunning, workVars
  <2>2. \A p \in pending : Admitted(p.claim)' => Admitted(p.claim)
    BY <2>1, BearerTypes DEF Admitted, FenceHolds, Leased, TypeOK
  <2> QED
    BY <2>1, <2>2, ProjectionFrame DEF Leased, Terminal, TypeOK
<1>7. ASSUME NEW c \in claims, AppendEvent(c) \/ ReserveTurn(c) PROVE ProjectionInv'
  <2>1. UNCHANGED <<status, leaseOwner, leaseVersion, leaseLeft, claims, tools, checkpoints,
                    pending, projVars, frozen>>
    BY <1>7 DEF AppendEvent, ReserveTurn, runVars, workVars
  <2> QED
    BY <2>1, ProjectionFrame DEF Admitted, FenceHolds
<1>8. ASSUME NEW c \in claims, NEW t \in Tools, NEW o \in {"running", "success", "failed"},
             ~PhaseQueued(c), CommitTool(c, t, o)
      PROVE  ProjectionInv'
  BY <1>8, ProjectionTool
<1>9. ASSUME NEW c \in claims, NEW failed \in BOOLEAN, BuildPhaseCommit(c, failed)
      PROVE  ProjectionInv'
  BY <1>9, ProjectionBuild
<1>10. ASSUME NEW p \in pending, CommitPhase(p) PROVE ProjectionInv'
  BY <1>10, ProjectionCommit
<1>11. ASSUME NEW c \in claims, NEW target \in Terminal, CommitTerminal(c, target)
       PROVE  ProjectionInv'
  BY <1>11, BearerTypes, ProjectionStop DEF CommitTerminal
<1>12. ASSUME NEW r \in Runs, AuditExpired(r) PROVE ProjectionInv'
  BY <1>12, ProjectionStop DEF AuditExpired, projVars, Terminal
<1>13. ASSUME NEW r \in Runs, NEW n \in 1..MaxAttempts, RejectRecovery(r, n)
       PROVE  ProjectionInv'
  <2>1. /\ frozen' = [frozen EXCEPT ![r] = FreezeView(r)]
        /\ UNCHANGED <<status, leaseOwner, leaseVersion, leaseLeft, claims, tools, checkpoints,
                       pending, projVars>>
    BY <1>13 DEF RejectRecovery, runVars, workVars
  <2>2. \A q \in Runs : frozen'[q] \in {frozen[q], FreezeView(q)}
    BY <2>1 DEF TypeOK
  <2> QED
    BY <2>1, <2>2, ProjectionFrame DEF Admitted, FenceHolds
<1>14. CASE UNCHANGED vars
  <2>1. UNCHANGED <<status, leaseOwner, leaseVersion, leaseLeft, claims, tools, checkpoints,
                    pending, projVars, frozen>>
    BY <1>14 DEF vars, runVars, workVars
  <2> QED
    BY <2>1, ProjectionFrame DEF Admitted, FenceHolds
<1> QED
  BY <1>1, <1>2, <1>3, <1>4, <1>5, <1>6, <1>7, <1>8, <1>9, <1>10, <1>11, <1>12, <1>13,
     <1>14 DEF Next, RunStep, ClaimStep

\* Typing, ownership and projection together are inductive.
LEMMA StoreInvHolds == Spec => []StoreInv
<1>1. TypeOK /\ OwnershipInv /\ ProjectionInv <=> StoreInv
  BY DEF StoreInv
<1>2. StoreInv /\ [Next]_vars => ProjectionInv'
  BY ProjectionStep
<1> QED
  BY <1>1, <1>2, OwnershipHolds, ProjectionInit, PTL DEF Spec

\* No tool call outlives the lease it ran under, the frozen budget is never
\* exceeded, the projection holds evidence of its owner only, each item backed by a
\* successful call, and the investigation shows the outcome of the run that owns it.
THEOREM ProjectionHolds == Spec => []ProjectionConsistent
<1>1. StoreInv => ProjectionConsistent
  BY DEF StoreInv, ProjectionInv
<1> QED
  BY <1>1, StoreInvHolds, PTL

-----------------------------------------------------------------------------
(* Nothing is lost *)

\* A step that keeps evidence and owner loses nothing.
LEMMA KeptFrame ==
    ASSUME UNCHANGED <<projOwner, evidence>>
    PROVE  CommittedEvidenceStays /\ HandoverKeepsHistory
BY DEF CommittedEvidenceStays, HandoverKeepsHistory

\* A phase commit overwrites no evidence of its own run, and one that takes the
\* projection over leaves a frozen copy of what it deletes.
LEMMA KeptCommit ==
    ASSUME StoreInv, NEW p \in pending, CommitPhase(p)
    PROVE  CommittedEvidenceStays /\ HandoverKeepsHistory
<1> USE DEF StoreInv, ProjectionInv
<1> DEFINE r == p.claim.run
<1>1. r \in Runs
  BY BearerTypes
<1>2. projOwner' = r
  BY DEF CommitPhase
<1>3. p.base # 0 => evidence' = evidence /\ projOwner = r
  BY CommitWrites
<1>4. p.base = 0 => projOwner # r
  <2>1. p.base = Len(checkpoints[r])
    BY DEF CommitPhase, PhaseInOrder
  <2>2. checkpoints[r] \in Seq(Checkpoint)
    BY <1>1 DEF TypeOK
  <2>3. \A s \in Seq(Checkpoint) : Len(s) = 0 => s = <<>>
    OBVIOUS
  <2> HIDE DEF r
  <2>4. p.base = 0 => checkpoints[r] = <<>>
    BY <2>1, <2>2, <2>3
  <2> QED
    BY <1>1, <2>4 DEF OwnerHasCheckpoint
<1>5. ASSUME p.base = 0, projOwner # NoRun
      PROVE  /\ status[projOwner] \in Terminal
             /\ frozen[projOwner] = [state |-> "activated", evidence |-> evidence]
  <2>1. projOwner \in Runs \ {r}
    BY <1>4, <1>5 DEF TypeOK
  <2>2. status[projOwner] \in Terminal
    BY <1>5, <2>1 DEF CommitPhase, OwnershipAllows
  <2> QED
    BY <2>1, <2>2 DEF EndedOwnerIsFrozen
<1> HIDE DEF r
<1> QED
  BY <1>2, <1>3, <1>4, <1>5 DEF CommittedEvidenceStays, HandoverKeepsHistory

\* Evidence a client has read stays readable: in the active projection while its run
\* owns it, in the frozen view once a rerun has taken the projection over.
THEOREM NothingLost == Spec => ProjectionKept
<1>1. ASSUME StoreInv, [Next]_vars
      PROVE  [CommittedEvidenceStays /\ HandoverKeepsHistory]_vars
  <2>1. CASE \E r \in Runs : RunStep(r)
    <3>1. UNCHANGED <<projOwner, evidence>>
      BY <2>1 DEF RunStep, CreateRun, Acquire, LeaseTick, CancelCreated, CancelRunning,
                  AuditExpired, RejectRecovery, projVars
    <3> QED
      BY <3>1, KeptFrame
  <2>2. CASE \E c \in claims, t \in Tools, o \in {"running", "success", "failed"} :
                 CommitTool(c, t, o)
    BY <2>2 DEF CommitTool, CommittedEvidenceStays, HandoverKeepsHistory
  <2>3. CASE \E c \in claims : \/ RenewLease(c) \/ AppendEvent(c) \/ ReserveTurn(c)
                               \/ \E failed \in BOOLEAN : BuildPhaseCommit(c, failed)
                               \/ \E target \in Terminal : CommitTerminal(c, target)
    <3>1. UNCHANGED <<projOwner, evidence>>
      BY <2>3 DEF RenewLease, AppendEvent, ReserveTurn, BuildPhaseCommit, CommitTerminal,
                  projVars
    <3> QED
      BY <3>1, KeptFrame
  <2>4. CASE \E p \in pending : CommitPhase(p)
    BY <1>1, <2>4, KeptCommit
  <2>5. CASE UNCHANGED vars
    BY <2>5
  <2> QED
    BY <1>1, <2>1, <2>2, <2>3, <2>4, <2>5 DEF Next, ClaimStep
<1> QED
  BY <1>1, StoreInvHolds, PTL DEF Spec, ProjectionKept
-----------------------------------------------------------------------------
(***************************************************************************)
(* Proofs about the durable event log of RuntimeStore: it is written by    *)
(* one attempt after the other, it closes with the run's own end, and      *)
(* every checkpoint stands at its own event.                               *)
(*                                                                         *)
(* The log of a run only grows at its end, so everything is first said of  *)
(* one log and of the events appended to it.                               *)
(***************************************************************************)

-----------------------------------------------------------------------------
(* One log *)

Rejection == "recovery.rejected"
ClosingTypes == {"run.completed", "run.failed", "run.cancelled"}

\* Events of a log by what they say.
ClosingAt(log) == {i \in DOMAIN log : log[i].type \in ClosingTypes}
CheckpointsAt(log) == {i \in DOMAIN log : log[i].type = "checkpoint"}

InOrder(log) ==
    \A i, j \in DOMAIN log :
        i < j /\ Rejection \notin {log[i].type, log[j].type}
            => log[i].attempt <= log[j].attempt

\* No event speaks of an attempt that does not exist yet.
OfAttempts(log, n) == \A i \in DOMAIN log : log[i].attempt <= n

\* Appended events: where they stand.
LEMMA Appended ==
    ASSUME NEW log \in Seq(Event), NEW es \in Seq(Event)
    PROVE  /\ log \o es \in Seq(Event)
           /\ Len(log \o es) = Len(log) + Len(es)
           /\ Len(log) \in Nat /\ Len(es) \in Nat
           /\ DOMAIN log = 1..Len(log)
           /\ DOMAIN (log \o es) = 1..(Len(log) + Len(es))
           /\ \A i \in 1..Len(log) : (log \o es)[i] = log[i]
           /\ \A i \in (Len(log) + 1)..(Len(log) + Len(es)) : (log \o es)[i] = es[i - Len(log)]
OBVIOUS

\* Events of the latest attempt, and rejections of earlier ones, may follow a log
\* of attempts that are no later.
LEMMA AppendInOrder ==
    ASSUME NEW log \in Seq(Event), NEW es \in Seq(Event), NEW n \in Nat,
           InOrder(log), OfAttempts(log, n),
           \A k \in 1..Len(es) :
               es[k].attempt = n \/ (es[k].type = Rejection /\ es[k].attempt <= n)
    PROVE  InOrder(log \o es) /\ OfAttempts(log \o es, n)
<1> DEFINE new == log \o es
<1>1. /\ Len(log) \in Nat /\ Len(es) \in Nat
      /\ DOMAIN log = 1..Len(log)
      /\ DOMAIN new = 1..(Len(log) + Len(es))
      /\ \A i \in 1..Len(log) : new[i] = log[i]
      /\ \A i \in (Len(log) + 1)..(Len(log) + Len(es)) : new[i] = es[i - Len(log)]
  BY Appended
<1> HIDE DEF new
<1>2. \A i \in DOMAIN new : i \notin DOMAIN log => i \in (Len(log) + 1)..(Len(log) + Len(es))
  BY <1>1
<1>3. \A i \in DOMAIN new : i \notin DOMAIN log =>
          new[i].attempt = n \/ (new[i].type = Rejection /\ new[i].attempt <= n)
  <2> SUFFICES ASSUME NEW i \in DOMAIN new, i \notin DOMAIN log
               PROVE  new[i].attempt = n \/ (new[i].type = Rejection /\ new[i].attempt <= n)
    OBVIOUS
  <2>1. new[i] = es[i - Len(log)] /\ i - Len(log) \in 1..Len(es)
    BY <1>1, <1>2
  <2> QED
    BY <2>1
<1>4. OfAttempts(new, n)
  BY <1>1, <1>3 DEF OfAttempts
<1>5. InOrder(new)
  <2> SUFFICES ASSUME NEW i \in DOMAIN new, NEW j \in DOMAIN new, i < j,
                      Rejection \notin {new[i].type, new[j].type}
               PROVE  new[i].attempt <= new[j].attempt
    BY DEF InOrder
  <2>1. CASE j \in DOMAIN log
    <3>1. i \in DOMAIN log
      BY <1>1, <2>1
    <3> QED
      BY <1>1, <2>1, <3>1 DEF InOrder
  <2>2. CASE j \notin DOMAIN log
    <3>1. new[j].attempt = n
      BY <1>3, <2>2
    <3>2. new[i].attempt <= n
      BY <1>4 DEF OfAttempts
    <3> QED
      BY <3>1, <3>2
  <2> QED
    BY <2>1, <2>2
<1> QED
  BY <1>4, <1>5 DEF new

\* An open log stays open under events that close nothing.
LEMMA AppendOpen ==
    ASSUME NEW log \in Seq(Event), NEW es \in Seq(Event), ClosingAt(log) = {},
           \A k \in 1..Len(es) : es[k].type \notin ClosingTypes
    PROVE  ClosingAt(log \o es) = {}
<1> DEFINE new == log \o es
           m == Len(log)
           k == Len(es)
<1>1. /\ m \in Nat /\ k \in Nat
      /\ DOMAIN log = 1..m
      /\ DOMAIN new = 1..(m + k)
      /\ \A i \in 1..m : new[i] = log[i]
      /\ \A i \in (m + 1)..(m + k) : new[i] = es[i - m]
  BY Appended
<1>2. \A j \in 1..k : es[j].type \notin ClosingTypes
  OBVIOUS
<1> HIDE DEF new, m, k
<1>3. SUFFICES ASSUME NEW i \in DOMAIN new PROVE new[i].type \notin ClosingTypes
  BY DEF ClosingAt, new
<1>4. CASE i \in 1..m
  BY <1>1, <1>4 DEF ClosingAt
<1>5. CASE i \in (m + 1)..(m + k)
  <2>1. i - m \in 1..k /\ new[i] = es[i - m]
    BY <1>1, <1>5
  <2> QED
    BY <1>2, <2>1
<1> QED
  BY <1>1, <1>4, <1>5

\* An open log is closed by the last of the appended events alone.
LEMMA AppendClosing ==
    ASSUME NEW log \in Seq(Event), NEW es \in Seq(Event), ClosingAt(log) = {},
           es # <<>>, es[Len(es)].type \in ClosingTypes,
           \A k \in 1..(Len(es) - 1) : es[k].type \notin ClosingTypes
    PROVE  /\ ClosingAt(log \o es) = {Len(log \o es)}
           /\ (log \o es)[Len(log \o es)] = es[Len(es)]
<1> DEFINE new == log \o es
           m == Len(log)
           k == Len(es)
<1>1. /\ m \in Nat /\ k \in Nat /\ Len(new) = m + k
      /\ DOMAIN log = 1..m
      /\ DOMAIN new = 1..(m + k)
      /\ \A i \in 1..m : new[i] = log[i]
      /\ \A i \in (m + 1)..(m + k) : new[i] = es[i - m]
  BY Appended
<1>2. /\ k > 0 /\ es[k].type \in ClosingTypes
      /\ \A j \in 1..(k - 1) : es[j].type \notin ClosingTypes
  OBVIOUS
<1> HIDE DEF new, m, k
<1>3. m + k \in (m + 1)..(m + k) /\ (m + k) - m = k
  BY <1>1, <1>2
<1>4. new[m + k] = es[k] /\ m + k \in ClosingAt(new)
  BY <1>1, <1>2, <1>3 DEF ClosingAt
<1>5. ASSUME NEW i \in ClosingAt(new) PROVE i = m + k
  <2>1. i \in 1..(m + k) /\ new[i].type \in ClosingTypes
    BY <1>1 DEF ClosingAt
  <2>2. i \notin 1..m
    BY <1>1, <2>1 DEF ClosingAt
  <2>3. i \in (m + 1)..(m + k) /\ es[i - m].type \in ClosingTypes
    BY <1>1, <2>1, <2>2
  <2>4. i - m \notin 1..(k - 1)
    BY <1>2, <2>3
  <2> QED
    BY <1>1, <2>3, <2>4
<1>6. ClosingAt(new) = {Len(new)} /\ new[Len(new)] = es[k]
  BY <1>1, <1>4, <1>5
<1> QED
  BY <1>6 DEF new, k

\* The checkpoint events of a log after events without one, and after a phase.
LEMMA AppendCheckpoints ==
    ASSUME NEW log \in Seq(Event), NEW es \in Seq(Event)
    PROVE  /\ IsFiniteSet(CheckpointsAt(log))
           /\ (\A k \in 1..Len(es) : es[k].type # "checkpoint")
                => CheckpointsAt(log \o es) = CheckpointsAt(log)
           /\ Len(es) = 2 /\ es[1].type # "checkpoint" /\ es[2].type = "checkpoint"
                => Cardinality(CheckpointsAt(log \o es)) = Cardinality(CheckpointsAt(log)) + 1
<1> DEFINE new == log \o es
           m == Len(log)
           k == Len(es)
<1>1. /\ m \in Nat /\ k \in Nat /\ Len(new) = m + k
      /\ DOMAIN log = 1..m
      /\ DOMAIN new = 1..(m + k)
      /\ \A i \in 1..m : new[i] = log[i]
      /\ \A i \in (m + 1)..(m + k) : new[i] = es[i - m]
  BY Appended
<1> HIDE DEF new, m, k
<1>2. IsFiniteSet(CheckpointsAt(log))
  <2>1. IsFiniteSet(1..m)
    BY <1>1, FS_Interval
  <2>2. CheckpointsAt(log) \in SUBSET (1..m)
    BY <1>1 DEF CheckpointsAt
  <2> QED
    BY <2>1, <2>2, FS_Subset
<1>3. \A i \in 1..m : i \in CheckpointsAt(new) <=> i \in CheckpointsAt(log)
  BY <1>1 DEF CheckpointsAt
<1>4. \A i \in CheckpointsAt(new) : i \in 1..m \/ i \in (m + 1)..(m + k)
  BY <1>1 DEF CheckpointsAt
<1>5. CheckpointsAt(log) \subseteq 1..m
  BY <1>1 DEF CheckpointsAt
<1>6. ASSUME \A j \in 1..k : es[j].type # "checkpoint"
      PROVE  CheckpointsAt(new) = CheckpointsAt(log)
  <2>1. ASSUME NEW i \in (m + 1)..(m + k) PROVE i \notin CheckpointsAt(new)
    <3>1. i - m \in 1..k /\ new[i] = es[i - m]
      BY <1>1
    <3> QED
      BY <1>6, <3>1 DEF CheckpointsAt
  <2> QED
    BY <1>3, <1>4, <1>5, <2>1
<1>7. ASSUME k = 2, es[1].type # "checkpoint", es[2].type = "checkpoint"
      PROVE  Cardinality(CheckpointsAt(new)) = Cardinality(CheckpointsAt(log)) + 1
  <2>1. /\ m + 1 \in (m + 1)..(m + k) /\ m + 2 \in (m + 1)..(m + k)
        /\ (m + 1) - m = 1 /\ (m + 2) - m = 2
        /\ \A i \in (m + 1)..(m + k) : i = m + 1 \/ i = m + 2
    BY <1>1, <1>7
  <2>2. new[m + 1] = es[1] /\ new[m + 2] = es[2]
    BY <1>1, <2>1
  <2>3. m + 1 \notin CheckpointsAt(new) /\ m + 2 \in CheckpointsAt(new)
    BY <1>1, <1>7, <2>1, <2>2 DEF CheckpointsAt
  <2>4. m + 2 \notin CheckpointsAt(log)
    BY <1>1, <1>5
  <2>5. CheckpointsAt(new) = CheckpointsAt(log) \cup {m + 2}
    BY <1>3, <1>4, <1>5, <2>1, <2>3
  <2> QED
    BY <1>2, <2>4, <2>5, FS_AddElement
<1>8. (\A j \in 1..Len(es) : es[j].type # "checkpoint")
          => CheckpointsAt(log \o es) = CheckpointsAt(log)
  BY <1>6 DEF new, k
<1> QED
  BY <1>2, <1>7, <1>8 DEF new, k

-----------------------------------------------------------------------------
(* The inductive strengthening *)

Closes(r) ==
    IF status[r] \in Terminal /\ attempts[r] # <<>>
    THEN /\ ClosingAt(events[r]) = {Len(events[r])}
         /\ events[r][Len(events[r])].type = TerminalEvent(status[r])
    ELSE ClosingAt(events[r]) = {}

\* A checkpoint stands at its event.
Stands(r, k) ==
    LET cp == checkpoints[r][k] IN
    /\ cp.sequence \in DOMAIN events[r]
    /\ events[r][cp.sequence] = Ev("checkpoint", cp.attempt)
    /\ k > 1 => checkpoints[r][k - 1].sequence < cp.sequence

Checkpointed(r) ==
    /\ \A k \in DOMAIN checkpoints[r] : Stands(r, k)
    /\ Cardinality(CheckpointsAt(events[r])) = Len(checkpoints[r])
    /\ Len(checkpoints[r]) <= NPhases

RunLog(r) ==
    /\ InOrder(events[r])
    /\ OfAttempts(events[r], Len(attempts[r]))
    /\ Closes(r)
    /\ Checkpointed(r)

\* A run nobody has started has no attempt.
UnstartedHasNoAttempt ==
    \A r \in Runs : status[r] \in {"absent", "created"} => attempts[r] = <<>>

\* A phase commit is for a phase of the profile.
CommitsInProfile == \A p \in pending : p.base < NPhases

LogInv == (\A r \in Runs : RunLog(r)) /\ UnstartedHasNoAttempt /\ CommitsInProfile

\* What the runs check is what LogInv says of every run.
LEMMA LogInvImplies == LogInv => LogConsistent
<1> SUFFICES ASSUME LogInv PROVE LogConsistent
  OBVIOUS
<1>1. LogInAttemptOrder
  BY DEF LogInv, RunLog, InOrder, LogInAttemptOrder, Rejection
<1>2. LogClosesWithRun
  BY DEF LogInv, RunLog, Closes, ClosingAt, ClosingTypes, LogClosesWithRun
<1>3. CheckpointsMatchLog
  BY DEF LogInv, RunLog, Checkpointed, Stands, CheckpointsAt, CheckpointsMatchLog
<1> QED
  BY <1>1, <1>2, <1>3 DEF LogConsistent

\* A step that leaves a run alone leaves its log alone.
LEMMA RunLogFrame ==
    ASSUME NEW r \in Runs, RunLog(r),
           status'[r] = status[r], attempts'[r] = attempts[r],
           events'[r] = events[r], checkpoints'[r] = checkpoints[r]
    PROVE  RunLog(r)'
BY DEF RunLog, Closes, Checkpointed, Stands

\* The attempt of a claim that may write is the latest one of its run.
LEMMA WritesAsLatest ==
    ASSUME TypeOK, OwnershipInv, NEW c, c.run \in Runs, AttemptRuns(c)
    PROVE  c.attempt = Len(attempts[c.run]) /\ Len(attempts[c.run]) \in Nat
<1>1. attempts[c.run] \in Seq(AttemptStatus)
  BY DEF TypeOK
<1>2. c.attempt = Len(attempts[c.run])
  BY DEF AttemptRuns, OwnershipInv, OwnershipConsistent
<1> QED
  BY <1>1, <1>2

-----------------------------------------------------------------------------
(* Steps that write the log *)

\* An event of the work of an attempt, or the rejection of a recovery.
LEMMA LogPlain ==
    ASSUME TypeOK, LogInv, NEW r \in Runs, NEW e \in Event,
           e.type \notin ClosingTypes \cup {"checkpoint"},
           e.attempt = Len(attempts[r]) \/ (e.type = Rejection /\ e.attempt <= Len(attempts[r])),
           status[r] \notin Terminal,
           events' = Log(r, <<e>>),
           UNCHANGED <<status, attempts, checkpoints, pending>>
    PROVE  LogInv'
<1>1. /\ events[r] \in Seq(Event) /\ <<e>> \in Seq(Event)
      /\ Len(<<e>>) = 1 /\ <<e>>[1] = e /\ Len(attempts[r]) \in Nat
  BY DEF TypeOK
<1>2. /\ events'[r] = events[r] \o <<e>>
      /\ \A q \in Runs \ {r} : events'[q] = events[q]
  BY DEF Log, TypeOK
<1>3. \A k \in 1..1 : <<e>>[k] = e
  BY <1>1
<1>4. InOrder(events'[r]) /\ OfAttempts(events'[r], Len(attempts[r]))
  BY <1>1, <1>2, <1>3, AppendInOrder DEF LogInv, RunLog
<1>5. ClosingAt(events'[r]) = {}
  <2>1. ClosingAt(events[r]) = {}
    BY DEF LogInv, RunLog, Closes
  <2> QED
    BY <1>1, <1>2, <1>3, <2>1, AppendOpen
<1>6. CheckpointsAt(events'[r]) = CheckpointsAt(events[r])
  BY <1>1, <1>2, <1>3, AppendCheckpoints
<1>7. \A k \in DOMAIN checkpoints[r] : Stands(r, k)'
  <2> SUFFICES ASSUME NEW k \in DOMAIN checkpoints[r] PROVE Stands(r, k)'
    OBVIOUS
  <2>1. Stands(r, k)
    BY DEF LogInv, RunLog, Checkpointed
  <2>2. ASSUME NEW i \in DOMAIN events[r]
        PROVE  i \in DOMAIN events'[r] /\ events'[r][i] = events[r][i]
    BY <1>1, <1>2, Appended
  <2> QED
    BY <2>1, <2>2 DEF Stands
<1>8. RunLog(r)'
  BY <1>4, <1>5, <1>6, <1>7 DEF LogInv, RunLog, Closes, Checkpointed
<1>9. \A q \in Runs \ {r} : RunLog(q)'
  BY <1>2, RunLogFrame DEF LogInv
<1> QED
  BY <1>8, <1>9 DEF LogInv, UnstartedHasNoAttempt, CommitsInProfile

\* The events an owner or the audit stops a run with: of the latest attempt, and the
\* last one, and no other, is the terminal event of the run's outcome.
EndsAs(es, target, n) ==
    /\ es \in Seq(Event) /\ es # <<>>
    /\ \A k \in 1..Len(es) : es[k].attempt = n /\ es[k].type # "checkpoint"
    /\ \A k \in 1..(Len(es) - 1) : es[k].type \notin ClosingTypes
    /\ IF target \in Terminal THEN es[Len(es)].type = TerminalEvent(target)
                              ELSE es[Len(es)].type \notin ClosingTypes

\* What a coordinator ends a run with, and what the audit interrupts it with.
LEMMA TerminalEventsEnd ==
    ASSUME NEW target \in Terminal, NEW n \in Nat, NEW es \in TerminalEvents(target, n)
    PROVE  EndsAs(es, target, n)
<1>1. CASE target = "completed"
  <2>1. es = <<Ev("attempt.completed", n), Ev("run.completed", n)>>
    BY <1>1 DEF TerminalEvents
  <2>2. es \in Seq(Event)
    BY <2>1, EvType DEF EventType
  <2> QED
    BY <1>1, <2>1, <2>2 DEF EndsAs, Ev, ClosingTypes, Terminal, TerminalEvent
<1>2. CASE target = "cancelled"
  <2>1. es = <<Ev("run.cancelled", n)>>
    BY <1>2 DEF TerminalEvents
  <2>2. es \in Seq(Event)
    BY <2>1, EvType DEF EventType
  <2> QED
    BY <1>2, <2>1, <2>2 DEF EndsAs, Ev, ClosingTypes, Terminal, TerminalEvent
<1>3. CASE target = "failed"
  <2>1. es = <<Ev("run.failed", n)>> \/ es = <<Ev("phase", n), Ev("run.failed", n)>>
    BY <1>3 DEF TerminalEvents
  <2>2. /\ <<Ev("run.failed", n)>> \in Seq(Event)
        /\ <<Ev("phase", n), Ev("run.failed", n)>> \in Seq(Event)
    BY EvType DEF EventType
  <2>3. CASE es = <<Ev("run.failed", n)>>
    BY <1>3, <2>2, <2>3 DEF EndsAs, Ev, ClosingTypes, Terminal, TerminalEvent
  <2>4. CASE es = <<Ev("phase", n), Ev("run.failed", n)>>
    BY <1>3, <2>2, <2>4 DEF EndsAs, Ev, ClosingTypes, Terminal, TerminalEvent
  <2> QED
    BY <2>1, <2>3, <2>4
<1> QED
  BY <1>1, <1>2, <1>3 DEF Terminal

\* An interruption closes the attempt and leaves the log open for the next one.
LEMMA InterruptionEnds ==
    ASSUME NEW n \in Nat
    PROVE  EndsAs(<<Ev("run.interrupted", n), Ev("attempt.interrupted", n)>>, "interrupted", n)
<1> DEFINE es == <<Ev("run.interrupted", n), Ev("attempt.interrupted", n)>>
<1>1. es \in Seq(Event)
  BY EvType DEF EventType
<1> QED
  BY <1>1 DEF EndsAs, Ev, ClosingTypes, Terminal

\* A run that stops closes its log with exactly its outcome.
LEMMA LogStop ==
    ASSUME TypeOK, LogInv, NEW r \in Runs, NEW target \in Terminal \cup {"interrupted"},
           status[r] \in Leased, attempts[r] # <<>>,
           NEW es, EndsAs(es, target, Len(attempts[r])),
           StopRun(r, target),
           events' = Log(r, es),
           UNCHANGED <<checkpoints, pending>>
    PROVE  LogInv'
<1>1. /\ events[r] \in Seq(Event) /\ es \in Seq(Event)
      /\ attempts[r] \in Seq(AttemptStatus) /\ Len(attempts[r]) \in Nat
  BY DEF TypeOK, EndsAs
<1>2. /\ events'[r] = events[r] \o es
      /\ \A q \in Runs \ {r} : events'[q] = events[q]
  BY DEF Log, TypeOK
<1>3. /\ status'[r] = target
      /\ \A q \in Runs \ {r} : status'[q] = status[q] /\ attempts'[q] = attempts[q]
  BY DEF StopRun, TypeOK
<1>4. Len(attempts'[r]) = Len(attempts[r]) /\ attempts'[r] # <<>>
  <2>1. attempts'[r] = [n \in 1..Len(attempts[r]) |->
                           IF attempts[r][n] = "running" THEN target ELSE attempts[r][n]]
    BY <1>1 DEF StopRun, TypeOK
  <2>2. Len(attempts'[r]) = Len(attempts[r])
    BY <1>1, <2>1
  <2>3. Len(attempts[r]) # 0 /\ Len(<<>>) = 0
    BY <1>1
  <2> QED
    BY <2>2, <2>3
<1>5. status[r] \notin Terminal
  BY DEF Leased, Terminal
<1>6. InOrder(events'[r]) /\ OfAttempts(events'[r], Len(attempts[r]))
  BY <1>1, <1>2, AppendInOrder DEF LogInv, RunLog, EndsAs
<1>7. ClosingAt(events[r]) = {}
  BY <1>5 DEF LogInv, RunLog, Closes
<1>8. Closes(r)'
  <2>1. CASE target \in Terminal
    <3>1. es[Len(es)].type \in ClosingTypes /\ es[Len(es)].type = TerminalEvent(target)
      BY <2>1 DEF EndsAs, TerminalEvent, ClosingTypes, Terminal
    <3>2. /\ ClosingAt(events'[r]) = {Len(events'[r])}
          /\ events'[r][Len(events'[r])] = es[Len(es)]
      <4>1. es # <<>> /\ \A k \in 1..(Len(es) - 1) : es[k].type \notin ClosingTypes
        BY DEF EndsAs
      <4>2. /\ ClosingAt(events[r] \o es) = {Len(events[r] \o es)}
            /\ (events[r] \o es)[Len(events[r] \o es)] = es[Len(es)]
        BY <1>1, <1>7, <3>1, <4>1, AppendClosing
      <4> QED
        BY <1>2, <4>2
    <3> QED
      BY <1>3, <1>4, <2>1, <3>1, <3>2 DEF Closes
  <2>2. CASE target \notin Terminal
    <3>1. Len(es) \in Nat /\ \A k \in 1..Len(es) : k = Len(es) \/ k \in 1..(Len(es) - 1)
      BY <1>1
    <3>2. \A k \in 1..Len(es) : es[k].type \notin ClosingTypes
      BY <2>2, <3>1 DEF EndsAs
    <3>3. ClosingAt(events'[r]) = {}
      BY <1>1, <1>2, <1>7, <3>2, AppendOpen
    <3> QED
      BY <1>3, <2>2, <3>3 DEF Closes
  <2> QED
    BY <2>1, <2>2
<1>9. CheckpointsAt(events'[r]) = CheckpointsAt(events[r])
  BY <1>1, <1>2, AppendCheckpoints DEF EndsAs
<1>10. \A k \in DOMAIN checkpoints[r] : Stands(r, k)'
  <2> SUFFICES ASSUME NEW k \in DOMAIN checkpoints[r] PROVE Stands(r, k)'
    OBVIOUS
  <2>1. Stands(r, k)
    BY DEF LogInv, RunLog, Checkpointed
  <2>2. ASSUME NEW i \in DOMAIN events[r]
        PROVE  i \in DOMAIN events'[r] /\ events'[r][i] = events[r][i]
    BY <1>1, <1>2, Appended
  <2> QED
    BY <2>1, <2>2 DEF Stands
<1>11. RunLog(r)'
  BY <1>4, <1>6, <1>8, <1>9, <1>10 DEF LogInv, RunLog, Checkpointed
<1>12. \A q \in Runs \ {r} : RunLog(q)'
  BY <1>2, <1>3, RunLogFrame DEF LogInv
<1>13. UnstartedHasNoAttempt'
  BY <1>3 DEF LogInv, UnstartedHasNoAttempt, Terminal
<1> QED
  BY <1>11, <1>12, <1>13 DEF LogInv, CommitsInProfile

\* A phase commit writes its two events and the checkpoint that points at the second.
LEMMA LogPhase ==
    ASSUME TypeOK, OwnershipInv, LogInv, NEW p \in pending, CommitPhase(p)
    PROVE  LogInv'
<1>1. PICK r \in Runs : r = p.claim.run
  BY DEF TypeOK, PhaseCommit, Claim
<1>2. PICK n \in Nat : n = p.claim.attempt /\ n = Len(attempts[r])
  <2>1. AttemptRuns(p.claim)
    BY DEF CommitPhase
  <2> QED
    BY <1>1, <2>1, WritesAsLatest
<1>3. events[r] \in Seq(Event) /\ checkpoints[r] \in Seq(Checkpoint)
  BY <1>1 DEF TypeOK
<1>4. PICK m \in Nat, k \in Nat : m = Len(events[r]) /\ k = Len(checkpoints[r])
  BY <1>3
<1>5. PICK cp : /\ cp.sequence = m + 2 /\ cp.attempt = n
                /\ checkpoints' = [checkpoints EXCEPT ![r] = Append(@, cp)]
  <2> DEFINE new == [attempt |-> n, sequence |-> m + 2,
                     tools |-> IF p.base = 0 THEN {} ELSE Successes(p.tools)]
  <2>1. checkpoints' = [checkpoints EXCEPT ![r] = Append(@, new)]
    BY <1>1, <1>2, <1>4 DEF CommitPhase
  <2>2. new.sequence = m + 2 /\ new.attempt = n
    OBVIOUS
  <2> HIDE DEF new
  <2> QED
    BY <2>1, <2>2
<1>6. PICK es \in Seq(Event) : es = <<Ev("phase", n), Ev("checkpoint", n)>>
  <2>1. <<Ev("phase", n), Ev("checkpoint", n)>> \in Seq(Event)
    BY EvType DEF EventType
  <2> QED
    BY <2>1
<1>7. /\ k < NPhases /\ status[r] \in Leased
      /\ events' = Log(r, es)
      /\ UNCHANGED <<status, attempts, pending>>
  <2>1. p.base = k /\ p.base < NPhases
    BY <1>1, <1>4 DEF CommitPhase, PhaseInOrder, LogInv, CommitsInProfile
  <2> QED
    BY <1>1, <1>2, <1>6, <2>1 DEF CommitPhase, runVars
<1>8. /\ events'[r] = events[r] \o es
      /\ \A q \in Runs \ {r} : events'[q] = events[q]
  BY <1>7 DEF Log, TypeOK
<1>9. /\ checkpoints'[r] = Append(checkpoints[r], cp)
      /\ \A q \in Runs \ {r} : checkpoints'[q] = checkpoints[q]
  BY <1>5 DEF TypeOK
<1>10. /\ Len(checkpoints'[r]) = k + 1
       /\ DOMAIN checkpoints[r] = 1..k /\ DOMAIN checkpoints'[r] = 1..(k + 1)
       /\ \A j \in 1..k : checkpoints'[r][j] = checkpoints[r][j]
       /\ checkpoints'[r][k + 1] = cp
  BY <1>3, <1>4, <1>9
<1>11. /\ Len(es) = 2 /\ es[1] = Ev("phase", n) /\ es[2] = Ev("checkpoint", n)
       /\ es[1].type # "checkpoint" /\ es[2].type = "checkpoint"
       /\ \A j \in 1..2 : es[j].attempt = n /\ es[j].type \notin ClosingTypes
  BY <1>6 DEF ClosingTypes, Ev
<1>12. RunLog(r)
  BY DEF LogInv
<1>13. InOrder(events'[r]) /\ OfAttempts(events'[r], Len(attempts[r]))
  BY <1>2, <1>3, <1>8, <1>11, <1>12, AppendInOrder DEF RunLog
<1>14. ClosingAt(events'[r]) = {}
  <2>1. ClosingAt(events[r]) = {}
    BY <1>7, <1>12 DEF RunLog, Closes, Leased, Terminal
  <2> QED
    BY <1>3, <1>8, <1>11, <2>1, AppendOpen
<1>15. Cardinality(CheckpointsAt(events'[r])) = k + 1
  <2>1. Cardinality(CheckpointsAt(events[r])) = k
    BY <1>4, <1>12 DEF RunLog, Checkpointed
  <2> QED
    BY <1>3, <1>8, <1>11, <2>1, AppendCheckpoints
<1>16. /\ DOMAIN events[r] = 1..m /\ DOMAIN events'[r] = 1..(m + 2)
       /\ \A i \in 1..m : events'[r][i] = events[r][i]
       /\ events'[r][m + 2] = Ev("checkpoint", n)
  <2>1. /\ DOMAIN events[r] = 1..m /\ DOMAIN (events[r] \o es) = 1..(m + 2)
        /\ \A i \in 1..m : (events[r] \o es)[i] = events[r][i]
        /\ \A i \in (m + 1)..(m + 2) : (events[r] \o es)[i] = es[i - m]
    <3>1. Len(es) = 2
      BY <1>11
    <3>2. /\ DOMAIN events[r] = 1..m /\ DOMAIN (events[r] \o es) = 1..(m + Len(es))
          /\ \A i \in 1..m : (events[r] \o es)[i] = events[r][i]
          /\ \A i \in (m + 1)..(m + Len(es)) : (events[r] \o es)[i] = es[i - m]
      BY <1>3, <1>4, Appended
    <3> QED
      BY <3>1, <3>2
  <2>2. m + 2 \in (m + 1)..(m + 2) /\ (m + 2) - m = 2
    OBVIOUS
  <2> QED
    BY <1>8, <1>11, <2>1, <2>2
<1>17. ASSUME NEW j \in 1..k PROVE Stands(r, j)'
  <2>1. Stands(r, j) /\ (j > 1 => j - 1 \in 1..k)
    BY <1>10, <1>12 DEF RunLog, Checkpointed
  <2>2. /\ checkpoints'[r][j] = checkpoints[r][j]
        /\ j > 1 => checkpoints'[r][j - 1] = checkpoints[r][j - 1]
    BY <1>10, <2>1
  <2>3. /\ checkpoints[r][j].sequence \in 1..m
        /\ events[r][checkpoints[r][j].sequence] = Ev("checkpoint", checkpoints[r][j].attempt)
        /\ j > 1 => checkpoints[r][j - 1].sequence < checkpoints[r][j].sequence
    BY <1>16, <2>1 DEF Stands
  <2>4. \A i \in 1..m : i \in 1..(m + 2) /\ events'[r][i] = events[r][i]
    BY <1>16
  <2> QED
    BY <1>16, <2>2, <2>3, <2>4 DEF Stands
<1>18. Stands(r, k + 1)'
  <2>1. ASSUME k + 1 > 1 PROVE checkpoints[r][k].sequence < m + 2
    <3>1. k \in 1..k
      BY <2>1
    <3>2. checkpoints[r][k].sequence \in 1..m
      BY <1>10, <1>12, <1>16, <3>1 DEF RunLog, Checkpointed, Stands
    <3> QED
      BY <3>2
  <2>2. (k + 1) - 1 = k /\ (k + 1 > 1 => k \in 1..k) /\ m + 2 \in 1..(m + 2)
    OBVIOUS
  <2> QED
    BY <1>5, <1>10, <1>16, <2>1, <2>2 DEF Stands
<1>19. Checkpointed(r)'
  <2>1. \A j \in 1..(k + 1) : Stands(r, j)'
    BY <1>17, <1>18
  <2>2. k + 1 <= NPhases
    BY <1>7, StoreAssumption
  <2> QED
    BY <1>10, <1>15, <2>1, <2>2 DEF Checkpointed
<1>20. RunLog(r)'
  BY <1>7, <1>13, <1>14, <1>19 DEF RunLog, Closes, Leased, Terminal
<1>21. \A q \in Runs \ {r} : RunLog(q)'
  BY <1>7, <1>8, <1>9, RunLogFrame DEF LogInv
<1> QED
  BY <1>7, <1>20, <1>21 DEF LogInv, UnstartedHasNoAttempt, CommitsInProfile

-----------------------------------------------------------------------------
(* The invariant holds *)

\* Empty logs are in order, open and without checkpoints.
LEMMA LogInit == Init => LogInv
<1> SUFFICES ASSUME Init PROVE LogInv
  OBVIOUS
<1>1. UnstartedHasNoAttempt /\ CommitsInProfile
  BY DEF Init, UnstartedHasNoAttempt, CommitsInProfile
<1>2. ASSUME NEW r \in Runs PROVE RunLog(r)
  <2>1. /\ events[r] = <<>> /\ checkpoints[r] = <<>> /\ attempts[r] = <<>>
        /\ status[r] = "absent" /\ Len(<<>>) = 0 /\ DOMAIN <<>> = {}
    BY DEF Init
  <2>2. CheckpointsAt(events[r]) = {} /\ ClosingAt(events[r]) = {}
    BY <2>1 DEF CheckpointsAt, ClosingAt
  <2>3. Checkpointed(r)
    <3>1. DOMAIN checkpoints[r] = {}
      BY <2>1
    <3>2. Len(checkpoints[r]) = 0 /\ 0 <= NPhases
      BY <2>1, StoreAssumption
    <3>3. Cardinality(CheckpointsAt(events[r])) = 0
      BY <2>2, FS_EmptySet
    <3> QED
      BY <3>1, <3>2, <3>3 DEF Checkpointed
  <2>4. DOMAIN events[r] = {}
    BY <2>1
  <2>5. InOrder(events[r]) /\ OfAttempts(events[r], Len(attempts[r]))
    BY <2>4 DEF InOrder, OfAttempts
  <2>6. Closes(r)
    BY <2>1, <2>2 DEF Closes, Terminal
  <2> QED
    BY <2>3, <2>5, <2>6 DEF RunLog
<1> QED
  BY <1>1, <1>2 DEF LogInv

\* Every operation of the store keeps the invariant.
LEMMA LogStep ==
    ASSUME TypeOK, OwnershipInv, LogInv, [Next]_vars
    PROVE  LogInv'
<1>0. /\ \A c \in claims : c.run \in Runs /\ c.attempt \in Nat
      /\ \A p \in pending : p.claim.run \in Runs
  BY DEF TypeOK, PhaseCommit, Claim
<1>1. ASSUME NEW r \in Runs, CreateRun(r) PROVE LogInv'
  <2>1. /\ status[r] = "absent" /\ status' = [status EXCEPT ![r] = "created"]
        /\ UNCHANGED <<attempts, events, checkpoints, pending>>
    BY <1>1 DEF CreateRun, workVars
  <2>2. ASSUME NEW q \in Runs PROVE RunLog(q)'
    <3>1. status'[q] \in Terminal <=> status[q] \in Terminal
      BY <2>1 DEF TypeOK, Terminal
    <3>2. status[q] \in Terminal => status'[q] = status[q]
      BY <2>1 DEF TypeOK, Terminal
    <3> QED
      BY <2>1, <3>1, <3>2 DEF LogInv, RunLog, Closes, Checkpointed, Stands
  <2>3. UnstartedHasNoAttempt'
    BY <2>1 DEF LogInv, UnstartedHasNoAttempt, TypeOK
  <2> QED
    BY <2>1, <2>2, <2>3 DEF LogInv, CommitsInProfile
<1>2. ASSUME NEW r \in Runs, NEW w \in Workers, Acquire(r, w) PROVE LogInv'
  <2>1. /\ status[r] \in {"created", "interrupted"}
        /\ status' = [status EXCEPT ![r] = "running"]
        /\ attempts' = [attempts EXCEPT ![r] = Append(@, "running")]
        /\ UNCHANGED <<events, checkpoints, pending>>
    BY <1>2 DEF Acquire, workVars
  <2>2. RunLog(r)'
    <3>1. Len(attempts'[r]) = Len(attempts[r]) + 1 /\ Len(attempts[r]) \in Nat
      BY <2>1 DEF TypeOK
    <3>2. OfAttempts(events[r], Len(attempts[r]) + 1)
      <4>1. ASSUME NEW i \in DOMAIN events[r]
            PROVE  events[r][i].attempt <= Len(attempts[r]) + 1
        <5>1. events[r] \in Seq(Event)
          BY DEF TypeOK
        <5>2. events[r][i] \in Event
          BY <5>1
        <5>3. events[r][i].attempt <= Len(attempts[r]) /\ events[r][i].attempt \in Nat
          BY <5>2 DEF LogInv, RunLog, OfAttempts, Event
        <5> QED
          BY <3>1, <5>3
      <4> QED
        BY <4>1 DEF OfAttempts
    <3>3. status'[r] \notin Terminal /\ status[r] \notin Terminal
      BY <2>1 DEF TypeOK, Terminal
    <3>4. Checkpointed(r)'
      BY <2>1 DEF LogInv, RunLog, Checkpointed, Stands
    <3> QED
      BY <2>1, <3>1, <3>2, <3>3, <3>4 DEF LogInv, RunLog, Closes
  <2>3. ASSUME NEW q \in Runs \ {r} PROVE RunLog(q)'
    <3>1. status'[q] = status[q] /\ attempts'[q] = attempts[q]
      BY <2>1 DEF TypeOK
    <3> QED
      BY <2>1, <3>1, RunLogFrame DEF LogInv
  <2>4. UnstartedHasNoAttempt'
    BY <2>1 DEF LogInv, UnstartedHasNoAttempt, TypeOK
  <2> QED
    BY <2>1, <2>2, <2>3, <2>4 DEF LogInv, CommitsInProfile
<1>3. ASSUME UNCHANGED <<status, attempts, events, checkpoints>>,
             \A p \in pending' : p.base < NPhases
      PROVE  LogInv'
  BY <1>3, RunLogFrame DEF LogInv, UnstartedHasNoAttempt, CommitsInProfile
<1>4. ASSUME NEW r \in Runs, LeaseTick(r) PROVE LogInv'
  BY <1>3, <1>4 DEF LeaseTick, workVars, LogInv, CommitsInProfile
<1>5. ASSUME NEW c \in claims, RenewLease(c) \/ ReserveTurn(c) PROVE LogInv'
  BY <1>3, <1>5 DEF RenewLease, ReserveTurn, runVars, workVars, LogInv, CommitsInProfile
<1>6. ASSUME NEW c \in claims, NEW failed \in BOOLEAN, BuildPhaseCommit(c, failed)
      PROVE  LogInv'
  <2>1. \A p \in pending' : p.base < NPhases
    BY <1>6 DEF BuildPhaseCommit, MergedCommit, LogInv, CommitsInProfile
  <2> QED
    BY <1>3, <1>6, <2>1 DEF BuildPhaseCommit, runVars, workVars
<1>7. ASSUME NEW r \in Runs, CancelCreated(r) PROVE LogInv'
  <2>1. /\ status[r] = "created" /\ attempts[r] = <<>>
        /\ status' = [status EXCEPT ![r] = "cancelled"]
        /\ UNCHANGED <<events, checkpoints, pending>>
    BY <1>7 DEF CancelCreated, StopRun, workVars, LogInv, UnstartedHasNoAttempt
  <2>2. attempts'[r] = <<>> /\ \A q \in Runs \ {r} : attempts'[q] = attempts[q]
    <3>1. attempts' = [attempts EXCEPT ![r] =
              [n \in DOMAIN @ |-> IF @[n] = "running" THEN "cancelled" ELSE @[n]]]
      BY <1>7 DEF CancelCreated, StopRun
    <3>2. attempts'[r] =
              [n \in DOMAIN <<>> |-> IF <<>>[n] = "running" THEN "cancelled" ELSE <<>>[n]]
      BY <2>1, <3>1 DEF TypeOK
    <3> QED
      BY <3>1, <3>2 DEF TypeOK
  <2>3. RunLog(r)'
    <3>1. status[r] \notin Terminal
      BY <2>1 DEF Terminal
    <3>2. attempts'[r] = attempts[r]
      BY <2>1, <2>2
    <3>3. Closes(r)'
      BY <2>1, <2>2, <3>1 DEF LogInv, RunLog, Closes
    <3> QED
      BY <2>1, <3>2, <3>3 DEF LogInv, RunLog, Checkpointed, Stands
  <2>4. ASSUME NEW q \in Runs \ {r} PROVE RunLog(q)'
    <3>1. status'[q] = status[q]
      BY <2>1 DEF TypeOK
    <3> QED
      BY <2>1, <2>2, <3>1, RunLogFrame DEF LogInv
  <2>5. UnstartedHasNoAttempt'
    BY <2>1, <2>2 DEF LogInv, UnstartedHasNoAttempt, TypeOK
  <2> QED
    BY <2>1, <2>3, <2>4, <2>5 DEF LogInv, CommitsInProfile
<1>8. ASSUME NEW r \in Runs, CancelRunning(r) PROVE LogInv'
  <2>1. /\ status[r] = "running" /\ status' = [status EXCEPT ![r] = "cancelling"]
        /\ UNCHANGED <<attempts, events, checkpoints, pending>>
    BY <1>8 DEF CancelRunning, workVars
  <2>2. ASSUME NEW q \in Runs PROVE RunLog(q)'
    <3>1. status'[q] \in Terminal <=> status[q] \in Terminal
      BY <2>1 DEF TypeOK, Terminal
    <3>2. status[q] \in Terminal => status'[q] = status[q]
      BY <2>1 DEF TypeOK, Terminal
    <3> QED
      BY <2>1, <3>1, <3>2 DEF LogInv, RunLog, Closes, Checkpointed, Stands
  <2>3. UnstartedHasNoAttempt'
    BY <2>1 DEF LogInv, UnstartedHasNoAttempt, TypeOK
  <2> QED
    BY <2>1, <2>2, <2>3 DEF LogInv, CommitsInProfile
<1>9. ASSUME NEW c \in claims, AppendEvent(c) PROVE LogInv'
  <2>1. Ev("work", c.attempt) \in Event
    BY <1>0, EvType DEF EventType
  <2>2. c.attempt = Len(attempts[c.run]) /\ status[c.run] \notin Terminal
    BY <1>0, <1>9, WritesAsLatest DEF AppendEvent, Leased, Terminal
  <2> QED
    BY <1>0, <1>9, <2>1, <2>2, LogPlain
       DEF AppendEvent, Ev, ClosingTypes, runVars, workVars
<1>10. ASSUME NEW c \in claims, NEW t \in Tools, NEW o \in {"running", "success", "failed"},
              CommitTool(c, t, o)
       PROVE  LogInv'
  <2>1. Ev("tool", c.attempt) \in Event
    BY <1>0, EvType DEF EventType
  <2>2. c.attempt = Len(attempts[c.run]) /\ status[c.run] \notin Terminal
    BY <1>0, <1>10, WritesAsLatest DEF CommitTool, Terminal
  <2> QED
    BY <1>0, <1>10, <2>1, <2>2, LogPlain DEF CommitTool, Ev, ClosingTypes, runVars
<1>11. ASSUME NEW p \in pending, CommitPhase(p) PROVE LogInv'
  BY <1>11, LogPhase
<1>12. ASSUME NEW c \in claims, NEW target \in Terminal, CommitTerminal(c, target)
       PROVE  LogInv'
  <2>1. PICK es \in TerminalEvents(target, c.attempt) : events' = Log(c.run, es)
    BY <1>12 DEF CommitTerminal
  <2>2. c.attempt = Len(attempts[c.run]) /\ status[c.run] \in Leased
    BY <1>0, <1>12, WritesAsLatest DEF CommitTerminal
  <2>3. attempts[c.run] # <<>>
    BY <1>0, <2>2 DEF OwnershipInv, LeasedHasAttempt
  <2>4. EndsAs(es, target, c.attempt)
    BY <1>0, <2>1, TerminalEventsEnd
  <2>5. StopRun(c.run, target) /\ UNCHANGED <<checkpoints, pending>>
    BY <1>12 DEF CommitTerminal
  <2> QED
    BY <1>0, <2>1, <2>2, <2>3, <2>4, <2>5, LogStop
<1>13. ASSUME NEW r \in Runs, AuditExpired(r) PROVE LogInv'
  <2> DEFINE n  == Len(attempts[r])
             es == <<Ev("run.interrupted", n), Ev("attempt.interrupted", n)>>
  <2>1. n \in Nat /\ status[r] \in Leased
    BY <1>13 DEF AuditExpired, TypeOK
  <2>2. attempts[r] # <<>>
    BY <2>1 DEF OwnershipInv, LeasedHasAttempt
  <2>3. EndsAs(es, "interrupted", n)
    BY <2>1, InterruptionEnds
  <2>4. /\ StopRun(r, "interrupted") /\ events' = Log(r, es)
        /\ UNCHANGED <<checkpoints, pending>>
    BY <1>13 DEF AuditExpired
  <2> HIDE DEF es
  <2> QED
    BY <2>1, <2>2, <2>3, <2>4, LogStop
<1>14. ASSUME NEW r \in Runs, NEW n \in 1..MaxAttempts, RejectRecovery(r, n) PROVE LogInv'
  <2>1. Ev(Rejection, n) \in Event
    BY EvType, StoreAssumption DEF EventType, Rejection
  <2>2. n <= Len(attempts[r]) /\ status[r] \notin Terminal
    BY <1>14 DEF RejectRecovery, Terminal, TypeOK
  <2> QED
    BY <1>14, <2>1, <2>2, LogPlain
       DEF RejectRecovery, Ev, ClosingTypes, Rejection, runVars, workVars
<1>15. CASE UNCHANGED vars
  BY <1>3, <1>15 DEF vars, runVars, workVars, LogInv, CommitsInProfile
<1> QED
  BY <1>1, <1>2, <1>4, <1>5, <1>6, <1>7, <1>8, <1>9, <1>10, <1>11, <1>12, <1>13,
     <1>14, <1>15 DEF Next, RunStep, ClaimStep

\* The event log of every run tells what happened: attempts follow each other, an
\* end closes it with the run's own outcome and nothing follows, and every
\* checkpoint stands at its own event, each phase committed once.
THEOREM LogHolds == Spec => []LogConsistent
<1>1. TypeOK /\ OwnershipInv /\ LogInv /\ [Next]_vars => LogInv'
  BY LogStep
<1>2. Spec => []LogInv
  BY <1>1, OwnershipHolds, LogInit, PTL DEF Spec
<1> QED
  BY <1>2, LogInvImplies, PTL
=============================================================================

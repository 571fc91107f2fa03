---------------------- MODULE RuntimeCoordinatorProofs ----------------------
(***************************************************************************)
(* Proofs about RuntimeCoordinator: for any number of phases, attempts,    *)
(* crashes and database errors, the owner of a run obeys its cancellation  *)
(* and gives the run up only when it is settled, every step of the system  *)
(* is a step of the lifecycle the API promises, and the log of a run shows *)
(* what it claims: a completed run has every phase, and nothing is closed  *)
(* before what belongs to it.                                              *)
(***************************************************************************)
EXTENDS RuntimeCoordinator, SequenceTheorems, FiniteSetTheorems, TLAPS

-----------------------------------------------------------------------------
(* The inductive invariant *)

\* The lease belongs to the last attempt, for as long as the run is held.
StoreOK ==
    /\ status \in Status /\ category \in Category
    /\ {asked, fresh, invFailed, late, up, locked, heart, cancelFlag} \subseteq BOOLEAN
    /\ attempts \in Seq({"running", "interrupted"} \cup Terminal) /\ Len(attempts) <= MaxAttempts
    /\ done \in 0..NPhases /\ atCancel \in Nat /\ faults \in Nat
    /\ toolRow \in [Phases -> {"none", "running", "success", "interrupted"}]
    /\ lease = IF status \in Leased THEN Len(attempts) ELSE 0
    /\ status \in Leased => Len(attempts) > 0
    /\ status = "created" => attempts = <<>>

\* The task owns a run that is running.
Own(n) == Fenced(n) /\ status = "running"

\* The user has cancelled and the phase that was on its way is committed.
Stopping == status = "cancelling" /\ done > atCancel

\* Where the body of the task is, or where it continues after the write it awaits.
At(w) == IF w.pc = "sent" THEN w.next ELSE w.pc

Early  == {"idle", "starting", "resuming", "checked"}
InBody == {"started", "executing", "executed", "merge"}

\* What the task knows of the run, and why it gave up if it did.
TaskOK(w) ==
    /\ w \in Worker
    /\ w.pc \in Early => w.me = 0 /\ w.why = "none"
    /\ w.pc \notin Early => w.me = Len(attempts) /\ w.me > 0
    /\ w.pc = "sent" => w.next \in {"emit", "reconcile", "started", "executing", "merge",
                                    "committed", "exit", "afterCancel"}
    /\ w.pc \in {"resuming", "checked"} => Len(attempts) < MaxAttempts /\ w.recovery
    /\ w.pc = "starting" => ~w.recovery
    /\ At(w) \in {"except", "afterCancel"} => w.why # "none"
    /\ At(w) \notin {"except", "afterCancel", "exit"} => w.why = "none"

\* The phase it is in is the first one without a checkpoint.
PhaseOK(w) ==
    /\ At(w) \in InBody => w.phase = done + 1
    /\ At(w) \in {"loop", "reconcile"} => w.phase = done
    /\ At(w) = "committed" => w.phase = IF w.pc = "sent" THEN done + 1 ELSE done
    /\ w.pc = "complete" => done = NPhases
    /\ Stopping => At(w) \notin InBody /\ ~(w.pc = "sent" /\ w.next = "committed")

\* It does not give up a run it could still settle.
EndOK(w) ==
    /\ w.why \in {"cancel", "leaseLost"} \/ At(w) = "afterCancel" => ~Own(w.me)
    /\ w.pc = "exit" => ~Own(w.me) \/ faults > 0 \/ w.why = "stopped"

FlagsOK == /\ heart \/ cancelFlag => Registered
           /\ cancelFlag => ~Own(worker.me)

EventTypes == StartTypes \cup ToolEvents \cup
    {"phase.started", "phase.completed", "phase.failed", "checkpoint.created",
     "agent.started", "agent.completed", "agent.failed",
     "model.started", "model.completed", "model.failed",
     "attempt.completed", "run.completed", "run.failed", "run.cancelled", "run.cancel_requested"}

Commands == [op : {"event", "phase", "terminal"}, attempt : 1..MaxAttempts, phase : 0..NPhases,
             types : Seq(EventTypes), target : {"none"} \cup Terminal, base : 0..NPhases,
             category : Category, from : {"worker", "api", "none"}]

\* The write that a task awaits is the one it continues after.
Awaited(c, w) ==
    /\ w.pc = "sent" /\ c.attempt = w.me
    /\ c.op = "phase" <=> w.next = "committed"
    /\ c.op = "terminal" <=> w.next \in {"exit", "afterCancel"}
    /\ w.next = "exit" => c.target = IF w.why = "none" THEN "completed" ELSE "failed"
    /\ w.next = "afterCancel" => c.target = "cancelled"

\* A command in the queue, whoever waits for it.
CommandOK(c, w) ==
    /\ c \in Commands /\ c.attempt <= Len(attempts)
    /\ c.op = "phase" => c.base <= done /\ c.base < NPhases
    /\ c.op = "terminal" => c.target # "none"
    /\ c.target = "completed" => done = NPhases
    /\ Stopping /\ c.op = "phase" /\ c.attempt = lease => c.base < done
    /\ c.from = "worker" => Awaited(c, w)
    /\ c.from = "none" /\ c.op = "phase" /\ c.attempt = w.me => w.why # "none"
    /\ c.from = "api" => c.op = "event"

QueueOK ==
    /\ queue \in Seq(Commands)
    /\ \A i \in DOMAIN queue : CommandOK(queue[i], worker)
    /\ \A i, j \in DOMAIN queue : queue[i].from = "worker" /\ queue[j].from = "worker" => i = j

\* How many writes the task may still put before one of them is applied.
Slack(w) ==
    CASE w.pc \in Early \cup {"exit"} -> 0
      [] w.pc = "sent" -> IF w.why = "none" THEN 1 ELSE 0
      [] OTHER -> IF w.why = "none" THEN 2 ELSE 1

QueueShort == Len(queue) + Slack(worker) <= 2 * Len(attempts) + (IF asked THEN 1 ELSE 0)

CancelOK == CancelStopsTheRun

CoordInv ==
    /\ StoreOK /\ TaskOK(worker) /\ PhaseOK(worker) /\ EndOK(worker) /\ FlagsOK
    /\ QueueOK /\ QueueShort /\ CancelOK

-----------------------------------------------------------------------------
(* What a step that commits no phase keeps *)

\* No phase is committed, nobody is given a lease, and the run is not further on
\* its way to a cancellation than it was.
Calm ==
    /\ done' = done /\ Len(attempts') = Len(attempts)
    /\ \A n \in 0..MaxAttempts : Own(n)' => Own(n)
    /\ Stopping' => Stopping /\ lease' = lease
    /\ faults > 0 => faults' > 0

\* What is true of a task is true after a calm step.
LEMMA CalmTask ==
    ASSUME Calm, NEW w, TaskOK(w), PhaseOK(w), EndOK(w)
    PROVE  TaskOK(w)' /\ PhaseOK(w)' /\ EndOK(w)'
<1>1. w.me \in 0..MaxAttempts
  BY DEF TaskOK, Worker
<1>2. TaskOK(w)'
  BY DEF Calm, TaskOK, At, Worker
<1>3. PhaseOK(w)'
  BY DEF Calm, PhaseOK, At
<1>4. EndOK(w)'
  BY <1>1 DEF Calm, EndOK, At
<1> QED
  BY <1>2, <1>3, <1>4

LEMMA CalmCommand ==
    ASSUME Calm, NEW w, NEW c, CommandOK(c, w)
    PROVE  CommandOK(c, w)'
BY DEF Calm, CommandOK, Awaited, Commands

\* Appending adds one element at the end.
LEMMA Appended ==
    ASSUME NEW S, NEW s \in Seq(S), NEW x \in S, NEW t, t = Append(s, x)
    PROVE  /\ t \in Seq(S) /\ Len(t) = Len(s) + 1
           /\ \A i \in DOMAIN t : (i = Len(s) + 1 /\ t[i] = x) \/ (i \in DOMAIN s /\ t[i] = s[i])
<1>1. t \in Seq(S) /\ Len(t) = Len(s) + 1
  OBVIOUS
<1>2. DOMAIN t = 1..(Len(s) + 1) /\ DOMAIN s = 1..Len(s) /\ Len(s) \in Nat
  BY <1>1
<1>3. ASSUME NEW i \in DOMAIN t
      PROVE  \/ i = Len(s) + 1 /\ t[i] = x
             \/ i \in DOMAIN s /\ t[i] = s[i]
  <2>1. CASE i = Len(s) + 1
    BY <2>1
  <2>2. CASE i # Len(s) + 1
    <3>1. i \in 1..Len(s)
      BY <1>2, <2>2
    <3>2. t[i] = s[i]
      BY <3>1
    <3> QED
      BY <1>2, <3>1, <3>2
  <2> QED
    BY <2>1, <2>2
<1> QED
  BY <1>1, <1>3

LEMMA Taken ==
    ASSUME NEW S, NEW s \in Seq(S), s # <<>>
    PROVE  Head(s) \in S /\ Tail(s) \in Seq(S)
OBVIOUS

LEMMA SlackRange == \A w : Slack(w) \in 0..2
BY DEF Slack

-----------------------------------------------------------------------------
(* Steps of the task.  The store does not move; the task goes on without a *)
(* write, or puts one command into the queue and awaits it.                *)

\* It is still the same task, registered if it was, and has not forgotten an error.
Follows(w) ==
    /\ w.me = worker.me
    /\ worker.why # "none" => w.why # "none"
    /\ Registered => w.pc \notin Early \cup {"owned"}

Good(w) == TaskOK(w) /\ PhaseOK(w) /\ EndOK(w) /\ Follows(w)

Goes(w)     == w.pc # "sent" /\ Slack(w) <= Slack(worker) /\ UNCHANGED queue
Sends(w, c) == /\ w.pc = "sent" /\ Slack(w) + 1 <= Slack(worker) /\ Put(c)
               /\ c.from = "worker" /\ CommandOK(c, w)

\* Nothing but the task, the queue and the count of work done moves.
Apart == UNCHANGED <<storeVars, late, up, atCancel, faults, heart, cancelFlag, locked>>

LEMMA StayCalm == ASSUME StoreOK, Apart PROVE Calm /\ StoreOK'
<1>1. UNCHANGED <<status, category, asked, lease, fresh, attempts, done, invFailed, toolRow, log,
                  late, up, atCancel, faults, heart, cancelFlag, locked>>
  BY DEF Apart, storeVars
<1>2. Calm
  BY <1>1 DEF Calm, Own, Fenced, Stopping
<1>3. StoreOK'
  BY <1>1 DEF StoreOK
<1> QED
  BY <1>2, <1>3

\* Commands that nobody of this task awaits stay what they are when the task moves on.
LEMMA LeftCommand ==
    ASSUME NEW w, NEW c, CommandOK(c, worker), c.from # "worker", Follows(w)
    PROVE  CommandOK(c, w)
BY DEF CommandOK, Follows

\* While the task does not await a write, none in the queue is awaited.
LEMMA NobodyWaits ==
    ASSUME QueueOK, worker.pc # "sent"
    PROVE  \A i \in DOMAIN queue : queue[i].from # "worker"
BY DEF QueueOK, CommandOK, Awaited

LEMMA TaskGoes ==
    ASSUME CoordInv, Apart, worker.pc # "sent", NEW w, worker' = w, Good(w), Goes(w)
    PROVE  CoordInv'
<1>1. Calm /\ StoreOK'
  BY StayCalm DEF CoordInv
<1>2. UNCHANGED <<status, lease, fresh, attempts, done, atCancel, faults, asked, heart, cancelFlag>>
  BY DEF Apart, storeVars
<1>3. (TaskOK(w) /\ PhaseOK(w) /\ EndOK(w))'
  BY <1>1, CalmTask DEF Good
<1>4. FlagsOK'
  BY <1>2 DEF CoordInv, FlagsOK, Good, Follows, Registered, Early, Own, Fenced
<1>5. QueueOK'
  <2>1. PICK q : q = queue /\ q \in Seq(Commands)
    BY DEF CoordInv, QueueOK
  <2>2. ASSUME NEW i \in DOMAIN q PROVE CommandOK(q[i], w) /\ q[i].from # "worker"
    <3>1. CommandOK(q[i], worker) /\ q[i].from # "worker"
      BY <2>1, NobodyWaits DEF CoordInv, QueueOK
    <3> QED
      BY <3>1, LeftCommand DEF Good
  <2>3. \A i \in DOMAIN q : CommandOK(q[i], w)'
    BY <1>1, <2>2, CalmCommand
  <2> QED
    BY <2>1, <2>2, <2>3 DEF QueueOK, Goes
<1>6. QueueShort'
  <2>1. Slack(w) \in 0..2 /\ Slack(worker) \in 0..2 /\ Len(queue) \in Nat /\ Len(attempts) \in Nat
    BY SlackRange DEF CoordInv, QueueOK, StoreOK
  <2> QED
    BY <1>2, <2>1 DEF CoordInv, QueueShort, Goes
<1>7. CancelOK'
  BY <1>2 DEF CoordInv, CancelOK, CancelStopsTheRun
<1> QED
  BY <1>1, <1>3, <1>4, <1>5, <1>6, <1>7 DEF CoordInv

LEMMA TaskSends ==
    ASSUME CoordInv, Apart, worker.pc # "sent", NEW w, worker' = w, Good(w), NEW c, Sends(w, c)
    PROVE  CoordInv'
<1>1. Calm /\ StoreOK'
  BY StayCalm DEF CoordInv
<1>2. UNCHANGED <<status, lease, fresh, attempts, done, atCancel, faults, asked, heart, cancelFlag>>
  BY DEF Apart, storeVars
<1>3. (TaskOK(w) /\ PhaseOK(w) /\ EndOK(w))'
  BY <1>1, CalmTask DEF Good
<1>4. FlagsOK'
  BY <1>2 DEF CoordInv, FlagsOK, Good, Follows, Registered, Early, Own, Fenced
<1>5. PICK q : q = queue /\ q \in Seq(Commands)
  BY DEF CoordInv, QueueOK
<1>6. c \in Commands
  BY DEF Sends, CommandOK
<1> DEFINE q2 == Append(q, c)
<1>7. QueueOK'
  <2>1. /\ queue' = q2 /\ q2 \in Seq(Commands)
        /\ \A i \in DOMAIN q2 : (i = Len(q) + 1 /\ q2[i] = c) \/ (i \in DOMAIN q /\ q2[i] = q[i])
    <3>1. queue' = q2
      BY <1>5 DEF Sends, Put
    <3>2. PICK t : t = q2
      OBVIOUS
    <3>3. /\ t \in Seq(Commands)
          /\ \A i \in DOMAIN t : (i = Len(q) + 1 /\ t[i] = c) \/ (i \in DOMAIN q /\ t[i] = q[i])
      BY <1>5, <1>6, <3>2, Appended
    <3> HIDE DEF q2
    <3> QED
      BY <3>1, <3>2, <3>3
  <2>2. ASSUME NEW i \in DOMAIN q PROVE CommandOK(q[i], w) /\ q[i].from # "worker"
    <3>1. CommandOK(q[i], worker) /\ q[i].from # "worker"
      BY <1>5, <2>2, NobodyWaits DEF CoordInv, QueueOK
    <3> QED
      BY <3>1, LeftCommand DEF Good
  <2>3. CommandOK(c, w)'
    BY <1>1, CalmCommand DEF Sends
  <2> HIDE DEF q2
  <2>4. ASSUME NEW i \in DOMAIN q2 PROVE CommandOK(q2[i], w)' /\ (q2[i].from = "worker" => i = Len(q) + 1)
    <3>1. CASE i = Len(q) + 1 /\ q2[i] = c
      BY <2>3, <3>1
    <3>2. CASE i \in DOMAIN q /\ q2[i] = q[i]
      <4>1. CommandOK(q2[i], w) /\ q2[i].from # "worker"
        BY <2>2, <3>2
      <4> QED
        BY <1>1, <4>1, CalmCommand
    <3> QED
      BY <2>1, <3>1, <3>2
  <2> QED
    BY <2>1, <2>4 DEF QueueOK
<1>8. QueueShort'
  <2>1. Slack(w) \in 0..2 /\ Slack(worker) \in 0..2 /\ Len(attempts) \in Nat
    BY SlackRange DEF CoordInv, StoreOK
  <2>2. Len(queue) + Slack(worker) <= 2 * Len(attempts) + (IF asked THEN 1 ELSE 0)
    BY DEF CoordInv, QueueShort
  <2>3. Slack(w) + 1 <= Slack(worker)
    BY DEF Sends
  <2>4. Len(queue') + Slack(w) <= 2 * Len(attempts) + (IF asked THEN 1 ELSE 0)
    <3>1. Len(queue') = Len(queue) + 1 /\ Len(queue) \in Nat
      BY <1>5, <1>6 DEF Sends, Put
    <3> QED
      BY <2>1, <2>2, <2>3, <3>1
  <2> QED
    BY <1>2, <2>4 DEF QueueShort
<1>9. CancelOK'
  BY <1>2 DEF CoordInv, CancelOK, CancelStopsTheRun
<1> QED
  BY <1>1, <1>3, <1>4, <1>7, <1>8, <1>9 DEF CoordInv

-----------------------------------------------------------------------------
(* The actions of the task *)

LEMMA OnlyTaskApart == OnlyTask => Apart
BY DEF OnlyTask, StoreKept, Apart, counters

LEMMA NoTaskOK == StoreOK => TaskOK(NoTask) /\ PhaseOK(NoTask) /\ EndOK(NoTask)
<1> SUFFICES ASSUME StoreOK PROVE TaskOK(NoTask) /\ PhaseOK(NoTask) /\ EndOK(NoTask)
  OBVIOUS
<1>1. NoTask \in Worker
  <2>1. <<>> \in Seq(StartTypes)
    OBVIOUS
  <2> QED
    BY <2>1, CoordinatorAssumption DEF NoTask, Worker, PC, Reason
<1>2. NoTask.pc = "idle" /\ NoTask.me = 0 /\ NoTask.why = "none"
  BY DEF NoTask
<1> QED
  BY <1>1, <1>2 DEF TaskOK, PhaseOK, EndOK, At, Early, InBody

\* What check_execution finds, if anything.
LEMMA Found ==
    ASSUME FlagsOK
    PROVE  /\ CheckExecution \in {"none", "deadline", "leaseLost", "cancel"}
           /\ CheckExecution \in {"cancel", "leaseLost"} => ~Own(worker.me)
           /\ CheckExecution = "none" => ~CancelSeen
BY DEF CheckExecution, CancelSeen, FlagsOK, Own, Fenced

\* A task that raises an error for a reason that holds.
LEMMA Raised ==
    ASSUME StoreOK, TaskOK(worker), worker.pc \notin Early,
           NEW why \in Reason \ {"none"}, why \in {"cancel", "leaseLost"} => ~Own(worker.me),
           NEW phase \in 0..NPhases, NEW w, w = [Raise(why) EXCEPT !.phase = phase]
    PROVE  TaskOK(w) /\ PhaseOK(w) /\ EndOK(w) /\ w.pc = "except" /\ w.why # "none" /\ w.me = worker.me
<1>1. worker \in Worker
  BY DEF TaskOK
<1>2. w \in Worker /\ w.pc = "except" /\ w.why = why /\ w.me = worker.me
  BY <1>1 DEF Raise, Worker, PC
<1> QED
  BY <1>2 DEF TaskOK, PhaseOK, EndOK, At, Early, InBody

LEMMA RaisesInBody ==
    ASSUME CoordInv, Apart, UNCHANGED queue, worker.pc \notin Early \cup {"owned", "sent", "exit"},
           NEW why \in Reason \ {"none"}, why \in {"cancel", "leaseLost"} => ~Own(worker.me),
           NEW phase \in 0..NPhases, worker' = [Raise(why) EXCEPT !.phase = phase]
    PROVE  CoordInv'
<1>1. PICK w : w = [Raise(why) EXCEPT !.phase = phase]
  OBVIOUS
<1>2. TaskOK(w) /\ PhaseOK(w) /\ EndOK(w) /\ w.pc = "except" /\ w.why # "none" /\ w.me = worker.me
  BY <1>1, Raised DEF CoordInv
<1>3. Good(w) /\ Goes(w)
  BY <1>2 DEF Good, Follows, Goes, Slack, Early
<1> QED
  BY <1>1, <1>3, TaskGoes

\* The phase stays the one it was.
LEMMA RaisesHereFor ==
    ASSUME CoordInv, Apart, UNCHANGED queue, worker.pc \notin Early \cup {"owned", "sent", "exit"},
           NEW why \in Reason \ {"none"}, why \in {"cancel", "leaseLost"} => ~Own(worker.me),
           worker' = Raise(why)
    PROVE  CoordInv'
<1>1. worker \in Worker /\ worker.phase \in 0..NPhases
  BY DEF CoordInv, TaskOK, Worker
<1>2. PICK phase : phase = worker.phase
  OBVIOUS
<1>3. Raise(why) = [Raise(why) EXCEPT !.phase = phase]
  BY <1>1, <1>2 DEF Raise, Worker
<1> QED
  BY <1>1, <1>2, <1>3, RaisesInBody

LEMMA RaisesHere ==
    ASSUME CoordInv, Apart, UNCHANGED queue, worker.pc \notin Early \cup {"owned", "sent", "exit"},
           CheckExecution # "none", worker' = Raise(CheckExecution)
    PROVE  CoordInv'
<1>1. PICK why : why = CheckExecution
  OBVIOUS
<1>2. why \in Reason \ {"none"} /\ (why \in {"cancel", "leaseLost"} => ~Own(worker.me))
  BY <1>1, Found DEF CoordInv, Reason
<1> QED
  BY <1>1, <1>2, RaisesHereFor

\* A task that goes on where no error is known.
LEMMA GoesOn ==
    ASSUME CoordInv, Apart, UNCHANGED queue, worker.pc # "sent", NEW w, worker' = w,
           w \in Worker, w.me = worker.me, w.why = worker.why, w.recovery = worker.recovery,
           worker.pc \notin Early \cup {"owned", "exit", "except", "afterCancel"},
           w.pc \notin Early \cup {"owned", "sent", "exit", "except", "afterCancel"}, PhaseOK(w)
    PROVE  CoordInv'
<1>1. worker.why = "none"
  BY DEF CoordInv, TaskOK, At
<1>2. TaskOK(w)
  BY <1>1 DEF CoordInv, TaskOK, At, Early
<1>3. EndOK(w)
  BY <1>1 DEF EndOK, At
<1>4. Follows(w) /\ Goes(w)
  BY <1>1 DEF Follows, Goes, Slack, Early
<1> QED
  BY <1>2, <1>3, <1>4, TaskGoes DEF Good

\* An event of the task as a command.
LEMMA EventOK ==
    ASSUME StoreOK, TaskOK(worker), worker.pc \notin Early, NEW w, w.me = worker.me, w.pc = "sent",
           w.next \notin {"committed", "exit", "afterCancel"},
           NEW phase \in 0..NPhases, NEW type \in EventTypes, NEW c, c = EventCommand(worker.me, phase, type)
    PROVE  CommandOK(c, w) /\ c.from = "worker"
<1>1. worker.me \in 1..MaxAttempts /\ worker.me <= Len(attempts)
  BY DEF TaskOK, Worker, StoreOK
<1>2. <<type>> \in Seq(EventTypes)
  OBVIOUS
<1>3. /\ c \in Commands /\ c.op = "event" /\ c.attempt = worker.me /\ c.target = "none"
      /\ c.from = "worker"
  BY <1>1, <1>2, CoordinatorAssumption DEF EventCommand, Command, Commands, Category
<1> QED
  BY <1>1, <1>3 DEF CommandOK, Awaited

Writes == \E phase \in 0..NPhases, type \in EventTypes : Put(EventCommand(worker.me, phase, type))

\* A task that writes an event and goes on where no error is known.
LEMMA WritesEvent ==
    ASSUME CoordInv, Apart, NEW w, worker' = w,
           w \in Worker, w.me = worker.me, w.why = worker.why, w.recovery = worker.recovery,
           worker.pc \notin Early \cup {"owned", "sent", "exit", "except", "afterCancel"},
           w.pc = "sent", w.next \in {"emit", "reconcile", "started", "executing", "merge"}, PhaseOK(w),
           Writes
    PROVE  CoordInv'
<1>1. worker.why = "none"
  BY DEF CoordInv, TaskOK, At
<1>2. TaskOK(w)
  BY <1>1 DEF CoordInv, TaskOK, At, Early
<1>3. EndOK(w)
  BY <1>1 DEF EndOK, At
<1>4. Follows(w)
  BY <1>1 DEF Follows, Early
<1>0. PICK phase \in 0..NPhases, type \in EventTypes : Put(EventCommand(worker.me, phase, type))
  BY DEF Writes
<1>5. PICK c : c = EventCommand(worker.me, phase, type)
  OBVIOUS
<1>6. CommandOK(c, w) /\ c.from = "worker"
  BY <1>5, EventOK DEF CoordInv, Early
<1>7. Sends(w, c)
  BY <1>0, <1>1, <1>5, <1>6 DEF Sends, Slack, Early
<1> QED
  BY <1>2, <1>3, <1>4, <1>7, TaskSends DEF Good

\* The manager makes a task, and resume looks at the run.
LEMMA ManagerKeeps ==
    ASSUME CoordInv, ManagerStart \/ ManagerResume \/ ResumeChecks
    PROVE  CoordInv'
<1>1. Apart /\ UNCHANGED queue
  BY OnlyTaskApart DEF ManagerStart, ManagerResume, ResumeChecks, NoSend
<1>2. worker.pc \in Early /\ worker.me = 0 /\ worker.why = "none" /\ worker \in Worker
  BY DEF ManagerStart, ManagerResume, ResumeChecks, Early, CoordInv, TaskOK
<1>3. NoTask \in Worker /\ NoTask.me = 0 /\ NoTask.why = "none" /\ ~NoTask.recovery
  BY NoTaskOK DEF CoordInv, TaskOK, NoTask
<1>4. \E w : /\ worker' = w /\ w \in Worker /\ w.me = 0 /\ w.why = "none"
             /\ w.pc \in {"idle", "starting", "resuming", "checked"}
             /\ w.pc = "starting" => ~w.recovery
             /\ w.pc \in {"resuming", "checked"} => w.recovery /\ Len(attempts) < MaxAttempts
  <2>1. CASE ManagerStart
    <3>1. PICK w : w = [NoTask EXCEPT !.pc = "starting"]
      OBVIOUS
    <3>2. w \in Worker /\ w.me = 0 /\ w.why = "none" /\ w.pc = "starting" /\ ~w.recovery
      BY <1>3, <3>1 DEF Worker, PC
    <3> QED
      BY <2>1, <3>1, <3>2 DEF ManagerStart
  <2>2. CASE ManagerResume
    <3>1. PICK w : w = [NoTask EXCEPT !.pc = "resuming", !.recovery = TRUE]
      OBVIOUS
    <3>2. w \in Worker /\ w.me = 0 /\ w.why = "none" /\ w.pc = "resuming" /\ w.recovery
      BY <1>3, <3>1 DEF Worker, PC
    <3> QED
      BY <2>2, <3>1, <3>2 DEF ManagerResume
  <2>3. CASE ResumeChecks
    <3>1. worker.recovery /\ Len(attempts) < MaxAttempts
      BY <2>3 DEF ResumeChecks, CoordInv, TaskOK
    <3>2. PICK w : w = IF status = "interrupted" THEN Goto("checked") ELSE NoTask
      OBVIOUS
    <3>3. CASE status = "interrupted"
      <4>1. w \in Worker /\ w.me = 0 /\ w.why = "none" /\ w.pc = "checked" /\ w.recovery
        BY <1>2, <3>1, <3>2, <3>3 DEF Goto, Worker, PC
      <4> QED
        BY <2>3, <3>1, <3>2, <4>1 DEF ResumeChecks
    <3>4. CASE status # "interrupted"
      BY <1>3, <2>3, <3>2, <3>4 DEF ResumeChecks, NoTask
    <3> QED
      BY <3>3, <3>4
  <2> QED
    BY <2>1, <2>2, <2>3
<1>5. PICK w : /\ worker' = w /\ w \in Worker /\ w.me = 0 /\ w.why = "none"
               /\ w.pc \in {"idle", "starting", "resuming", "checked"}
               /\ w.pc = "starting" => ~w.recovery
               /\ w.pc \in {"resuming", "checked"} => w.recovery /\ Len(attempts) < MaxAttempts
  BY <1>4
<1>6. TaskOK(w) /\ PhaseOK(w)
  BY <1>5 DEF TaskOK, PhaseOK, At, Early, InBody
<1>7. EndOK(w)
  BY <1>5 DEF EndOK, At
<1>8. Follows(w) /\ Goes(w)
  BY <1>1, <1>2, <1>5 DEF Follows, Registered, Goes, Slack, Early
<1>9. worker.pc # "sent"
  BY <1>2 DEF Early
<1> QED
  BY <1>1, <1>5, <1>6, <1>7, <1>8, <1>9, TaskGoes DEF Good

\* The start and recovery events, then the open model turns of a lost attempt.
LEMMA EmitKeeps == ASSUME CoordInv, Emit PROVE CoordInv'
<1>1. /\ Apart /\ worker.pc = "emit" /\ worker \in Worker /\ worker.todo \in Seq(StartTypes)
      /\ done \in 0..NPhases
  BY OnlyTaskApart DEF Emit, CoordInv, TaskOK, Worker, StoreOK
<1>2. CASE worker.todo = <<>>
  <2>1. PICK w : w = [worker EXCEPT !.pc = IF worker.recovery THEN "reconcile" ELSE "loop",
                                    !.phase = done]
    OBVIOUS
  <2>2. /\ w \in Worker /\ w.pc \in {"reconcile", "loop"} /\ w.phase = done
        /\ w.me = worker.me /\ w.why = worker.why /\ w.recovery = worker.recovery
    BY <1>1, <2>1 DEF Worker, PC
  <2>3. PhaseOK(w)
    BY <2>2 DEF PhaseOK, At, InBody
  <2>4. worker' = w /\ UNCHANGED queue
    BY <1>2, <2>1 DEF Emit, NoSend
  <2> QED
    BY <1>1, <2>2, <2>3, <2>4, GoesOn DEF Early
<1>3. CASE worker.todo # <<>>
  <2>1. PICK w : w = [worker EXCEPT !.pc = "sent", !.next = "emit", !.todo = Tail(@)]
    OBVIOUS
  <2>2. Tail(worker.todo) \in Seq(StartTypes) /\ Head(worker.todo) \in StartTypes
    <3>1. PICK t : t = worker.todo
      OBVIOUS
    <3>2. Tail(t) \in Seq(StartTypes) /\ Head(t) \in StartTypes
      BY <1>1, <1>3, <3>1, Taken
    <3> QED
      BY <3>1, <3>2
  <2>3. /\ w \in Worker /\ w.pc = "sent" /\ w.next = "emit"
        /\ w.me = worker.me /\ w.why = worker.why /\ w.recovery = worker.recovery
    BY <1>1, <2>1, <2>2 DEF Worker, PC
  <2>4. PhaseOK(w)
    BY <2>3 DEF PhaseOK, At, InBody
  <2>5. worker' = w /\ Writes
    <3>1. Head(worker.todo) \in EventTypes /\ 0 \in 0..NPhases
      BY <2>2, CoordinatorAssumption DEF EventTypes
    <3> QED
      BY <1>3, <2>1, <3>1 DEF Emit, Writes
  <2> QED
    BY <1>1, <2>2, <2>3, <2>4, <2>5, WritesEvent DEF Early
<1> QED
  BY <1>2, <1>3

LEMMA ReconcileKeeps == ASSUME CoordInv, Reconcile PROVE CoordInv'
<1>1. /\ Apart /\ worker.pc = "reconcile" /\ worker \in Worker
      /\ worker.phase = done /\ done \in 0..NPhases
  BY OnlyTaskApart DEF Reconcile, CoordInv, TaskOK, PhaseOK, At, StoreOK
<1>2. CASE ~Reserved
  <2>1. PICK w : w = Goto("loop")
    OBVIOUS
  <2>2. /\ w \in Worker /\ w.pc = "loop" /\ w.phase = done
        /\ w.me = worker.me /\ w.why = worker.why /\ w.recovery = worker.recovery
    BY <1>1, <2>1 DEF Goto, Worker, PC
  <2>3. PhaseOK(w)
    BY <2>2 DEF PhaseOK, At, InBody
  <2>4. worker' = w /\ UNCHANGED queue
    BY <1>2, <2>1 DEF Reconcile, NoSend
  <2> QED
    BY <1>1, <2>2, <2>3, <2>4, GoesOn DEF Early
<1>3. CASE Reserved /\ CheckExecution # "none"
  <2>1. worker' = Raise(CheckExecution) /\ UNCHANGED queue
    BY <1>3 DEF Reconcile, NoSend
  <2> QED
    BY <1>1, <1>3, <2>1, RaisesHere DEF Early
<1>4. CASE Reserved /\ CheckExecution = "none"
  <2>1. PICK w : w = [worker EXCEPT !.pc = "sent", !.next = "reconcile"]
    OBVIOUS
  <2>2. /\ w \in Worker /\ w.pc = "sent" /\ w.next = "reconcile" /\ w.phase = done
        /\ w.me = worker.me /\ w.why = worker.why /\ w.recovery = worker.recovery
    BY <1>1, <2>1 DEF Worker, PC
  <2>3. PhaseOK(w)
    BY <2>2 DEF PhaseOK, At, InBody
  <2>4. worker' = w /\ Put(EventCommand(worker.me, done, "model.failed"))
    BY <1>4, <2>1 DEF Reconcile, Send
  <2>5. Writes
    BY <1>1, <2>4 DEF Writes, EventTypes
  <2> QED
    BY <1>1, <2>2, <2>3, <2>4, <2>5, WritesEvent DEF Early
<1> QED
  BY <1>2, <1>3, <1>4

\* The top of the phase loop: end, cancellation or the next phase.
LEMMA BeginPhaseKeeps == ASSUME CoordInv, BeginPhase PROVE CoordInv'
<1>1. /\ Apart /\ worker.pc = "loop" /\ worker \in Worker
      /\ worker.phase = done /\ done \in 0..NPhases /\ NPhases \in Nat
  BY OnlyTaskApart, CoordinatorAssumption DEF BeginPhase, CoordInv, TaskOK, PhaseOK, At, StoreOK
<1>2. CASE worker.phase = NPhases /\ invFailed
  <2>1. worker' = Raise("failed") /\ UNCHANGED queue
    BY <1>2 DEF BeginPhase, NoSend
  <2> QED
    BY <1>1, <2>1, RaisesHereFor DEF Reason, Early
<1>3. CASE worker.phase = NPhases /\ ~invFailed
  <2>1. PICK w : w = Goto("complete")
    OBVIOUS
  <2>2. /\ w \in Worker /\ w.pc = "complete"
        /\ w.me = worker.me /\ w.why = worker.why /\ w.recovery = worker.recovery
    BY <1>1, <2>1 DEF Goto, Worker, PC
  <2>3. PhaseOK(w)
    BY <1>1, <1>3, <2>2 DEF PhaseOK, At, InBody
  <2>4. worker' = w /\ UNCHANGED queue
    BY <1>3, <2>1 DEF BeginPhase, NoSend
  <2> QED
    BY <1>1, <2>2, <2>3, <2>4, GoesOn DEF Early
<1>4. CASE worker.phase # NPhases /\ CancelSeen
  <2>1. worker.phase + 1 \in 0..NPhases
    BY <1>1, <1>4
  <2>2. worker' = [Raise("cancel") EXCEPT !.phase = worker.phase + 1] /\ UNCHANGED queue
    <3>1. Raise("cancel").phase = worker.phase
      BY <1>1 DEF Raise, Worker
    <3> QED
      BY <1>4, <3>1 DEF BeginPhase, NoSend
  <2>3. ~Own(worker.me)
    BY <1>4 DEF CancelSeen, CoordInv, FlagsOK, Own
  <2> QED
    BY <1>1, <2>1, <2>2, <2>3, RaisesInBody DEF Reason, Early
<1>5. CASE worker.phase # NPhases /\ ~CancelSeen
  <2>1. PICK w : w = [worker EXCEPT !.pc = "sent", !.next = "started", !.phase = @ + 1]
    OBVIOUS
  <2>2. worker.phase + 1 \in 0..NPhases /\ status # "cancelling"
    BY <1>1, <1>5 DEF CancelSeen
  <2>3. /\ w \in Worker /\ w.pc = "sent" /\ w.next = "started" /\ w.phase = done + 1
        /\ w.me = worker.me /\ w.why = worker.why /\ w.recovery = worker.recovery
    BY <1>1, <2>1, <2>2 DEF Worker, PC
  <2>4. PhaseOK(w)
    BY <2>2, <2>3 DEF PhaseOK, At, InBody, Stopping
  <2>5. worker' = w /\ Put(EventCommand(worker.me, worker.phase + 1, "phase.started"))
    BY <1>5, <2>1 DEF BeginPhase
  <2>6. Writes
    BY <2>2, <2>5 DEF Writes, EventTypes
  <2> QED
    BY <1>1, <2>2, <2>3, <2>4, <2>5, <2>6, WritesEvent DEF Early
<1> QED
  BY <1>2, <1>3, <1>4, <1>5

LEMMA CheckedKeeps ==
    ASSUME CoordInv, Checked("started", "executing") \/ Checked("executed", "merge")
    PROVE  CoordInv'
<1>1. PICK to \in {"executing", "merge"} :
        worker' = IF CheckExecution = "none" THEN Goto(to) ELSE Raise(CheckExecution)
  BY DEF Checked
<1>2. /\ Apart /\ UNCHANGED queue /\ worker \in Worker
      /\ worker.pc \in {"started", "executed"} /\ worker.phase = done + 1 /\ ~Stopping
  BY OnlyTaskApart DEF Checked, NoSend, CoordInv, TaskOK, PhaseOK, At, InBody
<1>3. CASE CheckExecution # "none"
  BY <1>1, <1>2, <1>3, RaisesHere DEF Early
<1>4. CASE CheckExecution = "none"
  <2>1. PICK w : w = Goto(to)
    OBVIOUS
  <2>2. /\ w \in Worker /\ w.pc = to /\ w.phase = worker.phase
        /\ w.me = worker.me /\ w.why = worker.why /\ w.recovery = worker.recovery
    BY <1>2, <2>1 DEF Goto, Worker, PC
  <2>3. PhaseOK(w)
    BY <1>2, <2>2 DEF PhaseOK, At, InBody
  <2> QED
    BY <1>1, <1>2, <1>4, <2>1, <2>2, <2>3, GoesOn DEF Early
<1> QED
  BY <1>3, <1>4

\* The callbacks of a phase write events, and it goes on where it was.
LEMMA PhaseWrites ==
    ASSUME CoordInv, Apart, Writes, worker.pc \in InBody, NEW next \in {"executing", "merge"},
           NEW agent \in BOOLEAN, NEW model \in BOOLEAN,
           worker' = [worker EXCEPT !.pc = "sent", !.next = next, !.agent = agent, !.model = model]
    PROVE  CoordInv'
<1>1. worker \in Worker /\ worker.phase = done + 1 /\ ~Stopping
  BY DEF CoordInv, TaskOK, PhaseOK, At, InBody
<1>2. PICK w : w = [worker EXCEPT !.pc = "sent", !.next = next, !.agent = agent, !.model = model]
  OBVIOUS
<1>3. /\ w \in Worker /\ w.pc = "sent" /\ w.next = next /\ w.phase = worker.phase
      /\ w.me = worker.me /\ w.why = worker.why /\ w.recovery = worker.recovery
  BY <1>1, <1>2 DEF Worker, PC
<1>4. PhaseOK(w)
  BY <1>1, <1>3 DEF PhaseOK, At, InBody
<1> QED
  BY <1>2, <1>3, <1>4, WritesEvent DEF Early, InBody

LEMMA WorkKeeps == ASSUME CoordInv, PhaseWork PROVE CoordInv'
<1>1. /\ worker.pc = "executing" /\ worker \in Worker /\ worker.phase \in 0..NPhases
      /\ worker.agent \in BOOLEAN /\ worker.model \in BOOLEAN
  BY DEF PhaseWork, AgentStarts, ModelStarts, ModelEnds, ToolStarts, ToolEnds, AgentEnds, Working,
         CoordInv, TaskOK, Worker
<1>2. \E event \in EventTypes : Working(event)
  BY DEF PhaseWork, AgentStarts, ModelStarts, ModelEnds, ToolStarts, ToolEnds, AgentEnds,
         EventTypes, ToolEvents
<1>3. Writes
  BY <1>1, <1>2 DEF Working, Writes
<1>4. UNCHANGED faults
  BY DEF PhaseWork, AgentStarts, ModelStarts, ModelEnds, ToolStarts, ToolEnds, AgentEnds,
         StartWork, counters
<1>5. Apart
  BY <1>2, <1>4 DEF Working, Apart
<1>6. \E agent, model \in BOOLEAN :
         worker' = [worker EXCEPT !.pc = "sent", !.next = "executing", !.agent = agent, !.model = model]
  <2>1. \/ worker' = [worker EXCEPT !.pc = "sent", !.next = "executing", !.agent = TRUE]
        \/ worker' = [worker EXCEPT !.pc = "sent", !.next = "executing", !.model = TRUE]
        \/ worker' = [worker EXCEPT !.pc = "sent", !.next = "executing", !.model = FALSE]
        \/ worker' = [worker EXCEPT !.pc = "sent", !.next = "executing", !.agent = FALSE]
        \/ worker' = [worker EXCEPT !.pc = "sent", !.next = "executing"]
    BY DEF PhaseWork, AgentStarts, ModelStarts, ModelEnds, ToolStarts, ToolEnds, AgentEnds
  <2>2. \A agent, model \in BOOLEAN : worker.agent = agent /\ worker.model = model =>
          /\ [worker EXCEPT !.pc = "sent", !.next = "executing", !.agent = TRUE]
              = [worker EXCEPT !.pc = "sent", !.next = "executing", !.agent = TRUE, !.model = model]
          /\ [worker EXCEPT !.pc = "sent", !.next = "executing", !.agent = FALSE]
              = [worker EXCEPT !.pc = "sent", !.next = "executing", !.agent = FALSE, !.model = model]
          /\ [worker EXCEPT !.pc = "sent", !.next = "executing", !.model = TRUE]
              = [worker EXCEPT !.pc = "sent", !.next = "executing", !.agent = agent, !.model = TRUE]
          /\ [worker EXCEPT !.pc = "sent", !.next = "executing", !.model = FALSE]
              = [worker EXCEPT !.pc = "sent", !.next = "executing", !.agent = agent, !.model = FALSE]
          /\ [worker EXCEPT !.pc = "sent", !.next = "executing"]
              = [worker EXCEPT !.pc = "sent", !.next = "executing", !.agent = agent, !.model = model]
    <3> SUFFICES ASSUME NEW agent \in BOOLEAN, NEW model \in BOOLEAN, worker.agent = agent, worker.model = model
        PROVE  /\ [worker EXCEPT !.pc = "sent", !.next = "executing", !.agent = TRUE]
                    = [worker EXCEPT !.pc = "sent", !.next = "executing", !.agent = TRUE, !.model = model]
               /\ [worker EXCEPT !.pc = "sent", !.next = "executing", !.agent = FALSE]
                    = [worker EXCEPT !.pc = "sent", !.next = "executing", !.agent = FALSE, !.model = model]
               /\ [worker EXCEPT !.pc = "sent", !.next = "executing", !.model = TRUE]
                    = [worker EXCEPT !.pc = "sent", !.next = "executing", !.agent = agent, !.model = TRUE]
               /\ [worker EXCEPT !.pc = "sent", !.next = "executing", !.model = FALSE]
                    = [worker EXCEPT !.pc = "sent", !.next = "executing", !.agent = agent, !.model = FALSE]
               /\ [worker EXCEPT !.pc = "sent", !.next = "executing"]
                    = [worker EXCEPT !.pc = "sent", !.next = "executing", !.agent = agent, !.model = model]
      OBVIOUS
    <3>1. [worker EXCEPT !.pc = "sent", !.next = "executing", !.agent = TRUE]
            = [worker EXCEPT !.pc = "sent", !.next = "executing", !.agent = TRUE, !.model = model]
      BY <1>1 DEF Worker
    <3>2. [worker EXCEPT !.pc = "sent", !.next = "executing", !.agent = FALSE]
            = [worker EXCEPT !.pc = "sent", !.next = "executing", !.agent = FALSE, !.model = model]
      BY <1>1 DEF Worker
    <3>3. [worker EXCEPT !.pc = "sent", !.next = "executing", !.model = TRUE]
            = [worker EXCEPT !.pc = "sent", !.next = "executing", !.agent = agent, !.model = TRUE]
      BY <1>1 DEF Worker
    <3>4. [worker EXCEPT !.pc = "sent", !.next = "executing", !.model = FALSE]
            = [worker EXCEPT !.pc = "sent", !.next = "executing", !.agent = agent, !.model = FALSE]
      BY <1>1 DEF Worker
    <3>5. [worker EXCEPT !.pc = "sent", !.next = "executing"]
            = [worker EXCEPT !.pc = "sent", !.next = "executing", !.agent = agent, !.model = model]
      BY <1>1 DEF Worker
    <3> QED
      BY <3>1, <3>2, <3>3, <3>4, <3>5
  <2> QED
    BY <1>1, <2>1, <2>2
<1> QED
  BY <1>1, <1>3, <1>5, <1>6, PhaseWrites DEF InBody

LEMMA PhaseEndsKeeps == ASSUME CoordInv, PhaseReturns \/ PhaseRaises PROVE CoordInv'
<1>1. /\ Apart /\ UNCHANGED queue /\ worker.pc = "executing" /\ worker \in Worker
      /\ worker.phase = done + 1 /\ ~Stopping
  BY OnlyTaskApart DEF PhaseReturns, PhaseRaises, NoSend, CoordInv, TaskOK, PhaseOK, At, InBody
<1>2. CASE PhaseReturns
  <2>1. PICK failed \in {TRUE, invFailed} : worker' = [worker EXCEPT !.pc = "executed", !.failedPhase = failed]
    BY <1>2 DEF PhaseReturns
  <2>2. failed \in BOOLEAN
    BY DEF CoordInv, StoreOK
  <2>3. PICK w : w = [worker EXCEPT !.pc = "executed", !.failedPhase = failed]
    OBVIOUS
  <2>4. /\ w \in Worker /\ w.pc = "executed" /\ w.phase = worker.phase
        /\ w.me = worker.me /\ w.why = worker.why /\ w.recovery = worker.recovery
    BY <1>1, <2>2, <2>3 DEF Worker, PC
  <2>5. PhaseOK(w)
    BY <1>1, <2>4 DEF PhaseOK, At, InBody
  <2> QED
    BY <1>1, <2>1, <2>3, <2>4, <2>5, GoesOn DEF Early
<1>3. CASE PhaseRaises
  <2>1. CASE CheckExecution # "none"
    BY <1>1, <1>3, <2>1, RaisesHere DEF PhaseRaises, Early
  <2>2. CASE CheckExecution = "none"
    BY <1>1, <1>3, <2>2, RaisesHereFor DEF PhaseRaises, Early, Reason
  <2> QED
    BY <2>1, <2>2
<1> QED
  BY <1>2, <1>3

LEMMA AfterCommitKeeps == ASSUME CoordInv, AfterCommit PROVE CoordInv'
<1>1. /\ Apart /\ UNCHANGED queue /\ worker.pc = "committed" /\ worker \in Worker /\ worker.phase = done
  BY OnlyTaskApart DEF AfterCommit, NoSend, CoordInv, TaskOK, PhaseOK, At
<1>2. CASE invFailed
  BY <1>1, <1>2, RaisesHereFor DEF AfterCommit, Early, Reason
<1>3. CASE ~invFailed
  <2>1. PICK w : w = Goto("loop")
    OBVIOUS
  <2>2. /\ w \in Worker /\ w.pc = "loop" /\ w.phase = worker.phase
        /\ w.me = worker.me /\ w.why = worker.why /\ w.recovery = worker.recovery
    BY <1>1, <2>1 DEF Goto, Worker, PC
  <2>3. PhaseOK(w)
    BY <1>1, <2>2 DEF PhaseOK, At, InBody
  <2>4. worker' = w
    BY <1>3, <2>1 DEF AfterCommit
  <2> QED
    BY <1>1, <2>2, <2>3, <2>4, GoesOn DEF Early
<1> QED
  BY <1>2, <1>3

\* The open agent is closed and then the phase is committed, against the checkpoint
\* that the task has seen.
LEMMA MergeKeeps == ASSUME CoordInv, Merge PROVE CoordInv'
<1>1. /\ Apart /\ worker.pc = "merge" /\ worker \in Worker
      /\ worker.phase = done + 1 /\ worker.phase \in 0..NPhases /\ ~Stopping
      /\ worker.agent \in BOOLEAN /\ worker.model \in BOOLEAN /\ worker.why = "none"
      /\ worker.me = Len(attempts) /\ worker.me \in 1..MaxAttempts /\ done \in 0..NPhases
  BY OnlyTaskApart DEF Merge, CoordInv, TaskOK, PhaseOK, At, InBody, Early, Worker, StoreOK
<1>2. CASE worker.agent /\ toolRow[worker.phase] = "running" /\ CheckExecution # "none"
  BY <1>1, <1>2, RaisesHere DEF Merge, NoSend, Early
<1>3. CASE worker.agent /\ toolRow[worker.phase] = "running" /\ CheckExecution = "none"
  <2>1. /\ Put(EventCommand(worker.me, worker.phase, "tool.failed"))
        /\ worker' = [worker EXCEPT !.pc = "sent", !.next = "merge"]
    BY <1>3 DEF Merge, Send
  <2>2. Writes
    BY <1>1, <2>1 DEF Writes, EventTypes, ToolEvents
  <2>3. [worker EXCEPT !.pc = "sent", !.next = "merge"]
        = [worker EXCEPT !.pc = "sent", !.next = "merge", !.agent = worker.agent, !.model = worker.model]
    BY <1>1 DEF Worker
  <2>4. PICK agent \in BOOLEAN, model \in BOOLEAN : agent = worker.agent /\ model = worker.model
    BY <1>1
  <2> QED
    BY <1>1, <2>1, <2>2, <2>3, <2>4, PhaseWrites DEF InBody
<1>4. CASE worker.agent /\ toolRow[worker.phase] # "running"
  <2>1. /\ Put(EventCommand(worker.me, worker.phase, "agent.failed"))
        /\ worker' = [worker EXCEPT !.pc = "sent", !.next = "merge", !.agent = FALSE]
    BY <1>4 DEF Merge
  <2>2. Writes
    BY <1>1, <2>1 DEF Writes, EventTypes
  <2>3. [worker EXCEPT !.pc = "sent", !.next = "merge", !.agent = FALSE]
        = [worker EXCEPT !.pc = "sent", !.next = "merge", !.agent = FALSE, !.model = worker.model]
    BY <1>1 DEF Worker
  <2>4. PICK model \in BOOLEAN : model = worker.model
    BY <1>1
  <2> QED
    BY <1>1, <2>1, <2>2, <2>3, <2>4, PhaseWrites DEF InBody
<1>5. CASE ~worker.agent
  <2>1. PICK w : w = [worker EXCEPT !.pc = "sent", !.next = "committed"]
    OBVIOUS
  <2>2. /\ w \in Worker /\ w.pc = "sent" /\ w.next = "committed" /\ w.phase = worker.phase
        /\ w.me = worker.me /\ w.why = "none" /\ w.recovery = worker.recovery
    BY <1>1, <2>1 DEF Worker, PC
  <2>3. TaskOK(w) /\ PhaseOK(w) /\ EndOK(w) /\ Follows(w)
    <3>1. TaskOK(w)
      BY <1>1, <2>2 DEF TaskOK, CoordInv, At, Early
    <3>2. PhaseOK(w)
      BY <1>1, <2>2 DEF PhaseOK, At, InBody
    <3>3. EndOK(w)
      BY <2>2 DEF EndOK, At
    <3>4. Follows(w)
      BY <1>1, <2>2 DEF Follows, Early
    <3> QED
      BY <3>1, <3>2, <3>3, <3>4
  <2>4. PICK types : types = <<IF worker.failedPhase THEN "phase.failed" ELSE "phase.completed",
                               "checkpoint.created">>
    OBVIOUS
  <2>5. types \in Seq(EventTypes)
    BY <2>4 DEF EventTypes
  <2>0. PICK target \in {"failed", "none"} : target = IF worker.failedPhase THEN "failed" ELSE "none"
    OBVIOUS
  <2>6. PICK c : c = Command("phase", worker.me, worker.phase, types, target, done)
    OBVIOUS
  <2>7. /\ c \in Commands /\ c.op = "phase" /\ c.attempt = worker.me /\ c.base = done
        /\ c.target # "completed" /\ c.from = "worker"
    <3>1. target \in {"none"} \cup Terminal /\ target # "completed" /\ "none" \in Category
      BY <2>0 DEF Terminal, Category
    <3> QED
      BY <1>1, <2>5, <2>6, <3>1 DEF Command, Commands
  <2>8. CommandOK(c, w)
    BY <1>1, <2>2, <2>7, CoordinatorAssumption DEF CommandOK, Awaited
  <2>9. worker' = w /\ Put(c)
    BY <1>5, <2>0, <2>1, <2>4, <2>6 DEF Merge, Send
  <2>10. Sends(w, c)
    BY <1>1, <2>2, <2>7, <2>8, <2>9 DEF Sends, Slack, Early
  <2> QED
    BY <1>1, <2>3, <2>9, <2>10, TaskSends DEF Good
<1> QED
  BY <1>1, <1>2, <1>3, <1>4, <1>5

\* The last write of a task: the run is completed, failed or cancelled.
LEMMA EndWritten ==
    ASSUME CoordInv, Apart, worker.pc \in {"complete", "except", "afterCancel"},
           NEW target \in Terminal, NEW cat \in Category, NEW types \in Seq(EventTypes),
           NEW pc \in {"exit", "afterCancel"}, Terminate(target, cat, types, pc),
           pc = "exit" => target = IF worker.why = "none" THEN "completed" ELSE "failed",
           pc = "afterCancel" => target = "cancelled" /\ worker.why # "none" /\ ~Own(worker.me)
    PROVE  CoordInv'
<1>1. /\ worker \in Worker /\ worker.me = Len(attempts) /\ worker.me \in 1..MaxAttempts
      /\ worker.phase \in 0..NPhases /\ worker.me > 0
      /\ worker.pc = "complete" => worker.why = "none" /\ done = NPhases
      /\ worker.pc # "complete" => worker.why # "none"
  BY DEF CoordInv, TaskOK, PhaseOK, At, Early, Worker
<1>2. PICK w : w = [worker EXCEPT !.pc = "sent", !.next = pc]
  OBVIOUS
<1>3. /\ w \in Worker /\ w.pc = "sent" /\ w.next = pc
      /\ w.me = worker.me /\ w.why = worker.why /\ w.recovery = worker.recovery
  BY <1>1, <1>2 DEF Worker, PC
<1>4. TaskOK(w)
  BY <1>1, <1>3 DEF TaskOK, At, Early
<1>5. PhaseOK(w)
  BY <1>3 DEF PhaseOK, At, InBody
<1>6. EndOK(w)
  BY <1>1, <1>3 DEF CoordInv, EndOK, At
<1>7. Follows(w)
  BY <1>3 DEF Follows, Early
<1>8. PICK c : c = [Command("terminal", worker.me, IF Len(types) = 2 THEN worker.phase ELSE 0,
                            types, target, 0) EXCEPT !.category = cat]
  OBVIOUS
<1>9. /\ c \in Commands /\ c.op = "terminal" /\ c.attempt = worker.me /\ c.target = target
      /\ c.from = "worker"
  <2>1. (IF Len(types) = 2 THEN worker.phase ELSE 0) \in 0..NPhases /\ 0 \in 0..NPhases
    BY <1>1, CoordinatorAssumption
  <2> QED
    BY <1>1, <1>8, <2>1 DEF Command, Commands
<1>10. CommandOK(c, w)
  BY <1>1, <1>3, <1>9 DEF CommandOK, Awaited, Terminal
<1>11. worker' = w /\ Put(c)
  BY <1>2, <1>8 DEF Terminate, Send
<1>12. Sends(w, c)
  BY <1>1, <1>3, <1>9, <1>10, <1>11 DEF Sends, Slack, Early
<1> QED
  BY <1>4, <1>5, <1>6, <1>7, <1>11, <1>12, TaskSends DEF Good

\* The task leaves a run that it can no longer settle.
LEMMA GoesOut ==
    ASSUME CoordInv, Apart, UNCHANGED queue, worker.pc \in {"except", "afterCancel"},
           worker' = Goto("exit"), ~Own(worker.me) \/ worker.why = "stopped"
    PROVE  CoordInv'
<1>1. worker \in Worker /\ worker.me = Len(attempts) /\ worker.me > 0
  BY DEF CoordInv, TaskOK, Early
<1>2. PICK w : w = Goto("exit")
  OBVIOUS
<1>3. w \in Worker /\ w.pc = "exit" /\ w.me = worker.me /\ w.why = worker.why
  BY <1>1, <1>2 DEF Goto, Worker, PC
<1>4. TaskOK(w)
  BY <1>1, <1>3 DEF TaskOK, At, Early
<1>5. PhaseOK(w)
  BY <1>3 DEF PhaseOK, At, InBody
<1>6. EndOK(w)
  BY <1>3 DEF CoordInv, EndOK, At
<1>7. Follows(w) /\ Goes(w)
  BY <1>3, SlackRange DEF Follows, Goes, Slack, Early
<1> QED
  BY <1>2, <1>4, <1>5, <1>6, <1>7, TaskGoes DEF Good

LEMMA CompleteKeeps == ASSUME CoordInv, Complete PROVE CoordInv'
<1>1. Apart /\ worker.pc = "complete" /\ worker.why = "none"
  BY OnlyTaskApart DEF Complete, CoordInv, TaskOK, At
<1>2. CASE CancelSeen
  <2>1. ~Own(worker.me)
    BY <1>2 DEF CancelSeen, CoordInv, FlagsOK, Own
  <2>2. worker' = Raise("cancel") /\ UNCHANGED queue
    BY <1>2 DEF Complete, NoSend
  <2> QED
    BY <1>1, <2>1, <2>2, RaisesHereFor DEF Reason, Early
<1>3. CASE ~CancelSeen
  <2>1. <<"attempt.completed", "run.completed">> \in Seq(EventTypes)
    BY DEF EventTypes
  <2>2. Terminate("completed", "none", <<"attempt.completed", "run.completed">>, "exit")
    BY <1>3 DEF Complete
  <2>3. "completed" \in Terminal /\ "none" \in Category
    BY DEF Terminal, Category
  <2> QED
    BY <1>1, <2>1, <2>2, <2>3, EndWritten
<1> QED
  BY <1>2, <1>3

\* _fail_if_owned, from a task that gives up.
LEMMA FailKeeps ==
    ASSUME CoordInv, Apart, worker.pc \in {"except", "afterCancel"}, worker.why # "none",
           NEW cat \in Category, Fail(cat)
    PROVE  CoordInv'
<1>1. CASE status = "running"
  <2>1. PICK types : types = (IF InPhase THEN <<"phase.failed">> ELSE <<>>) \o <<"run.failed">>
    OBVIOUS
  <2>2. types \in Seq(EventTypes)
    <3>1. <<"phase.failed">> \in Seq(EventTypes) /\ <<"run.failed">> \in Seq(EventTypes) /\ <<>> \in Seq(EventTypes)
      BY DEF EventTypes
    <3>2. CASE InPhase
      BY <2>1, <3>1, <3>2
    <3>3. CASE ~InPhase
      BY <2>1, <3>1, <3>3
    <3> QED
      BY <3>2, <3>3
  <2>3. Terminate("failed", cat, types, "exit")
    BY <1>1, <2>1 DEF Fail
  <2>4. "failed" \in Terminal
    BY DEF Terminal
  <2> QED
    BY <2>2, <2>3, <2>4, EndWritten
<1>2. CASE status # "running"
  <2>1. ~Own(worker.me)
    BY <1>2 DEF Own
  <2>2. worker' = Goto("exit") /\ UNCHANGED queue
    BY <1>2 DEF Fail, NoSend
  <2> QED
    BY <2>1, <2>2, GoesOut
<1> QED
  BY <1>1, <1>2

LEMMA HandleKeeps == ASSUME CoordInv, Handle \/ AfterCancel PROVE CoordInv'
<1>1. /\ Apart /\ worker.pc \in {"except", "afterCancel"} /\ worker.why \in Reason \ {"none"}
  BY OnlyTaskApart DEF Handle, AfterCancel, CoordInv, TaskOK, At, Worker
<1>2. FailCategory \in Category /\ "timeout" \in Category
  BY DEF FailCategory, Category
<1>3. CASE Handle
  <2>1. CASE worker.why \in {"cancel", "stopped", "deadline"} /\ status = "cancelling"
    <3>1. Terminate("cancelled", "cancelled", <<"run.cancelled">>, "afterCancel")
      BY <1>3, <2>1 DEF Handle
    <3>2. ~Own(worker.me)
      BY <2>1 DEF Own
    <3>3. <<"run.cancelled">> \in Seq(EventTypes) /\ "cancelled" \in Terminal /\ "cancelled" \in Category
      BY DEF EventTypes, Terminal, Category
    <3> QED
      BY <1>1, <3>1, <3>2, <3>3, EndWritten
  <2>2. CASE worker.why \in {"deadline", "persistence", "error", "failed"} /\ status = "running"
    <3>1. Fail(FailCategory)
      BY <1>3, <2>2 DEF Handle
    <3>2. PICK cat \in Category : cat = FailCategory
      BY <1>2
    <3> QED
      BY <1>1, <3>1, <3>2, FailKeeps
  <2>3. CASE /\ ~(worker.why \in {"cancel", "stopped", "deadline"} /\ status = "cancelling")
             /\ ~(worker.why \in {"deadline", "persistence", "error", "failed"} /\ status = "running")
    <3>1. worker' = Goto("exit") /\ UNCHANGED queue
      BY <1>3, <2>3 DEF Handle, NoSend
    <3>2. ~Own(worker.me) \/ worker.why = "stopped"
      BY <1>1, <2>3 DEF CoordInv, EndOK, Own, Reason
    <3> QED
      BY <1>1, <3>1, <3>2, GoesOut
  <2> QED
    BY <2>1, <2>2, <2>3
<1>4. CASE AfterCancel
  <2>1. ~Own(worker.me)
    BY <1>4 DEF AfterCancel, CoordInv, EndOK, At
  <2>2. CASE worker.why = "deadline"
    BY <1>1, <1>2, <1>4, <2>2, FailKeeps DEF AfterCancel
  <2>3. CASE worker.why # "deadline"
    BY <1>1, <1>4, <2>1, <2>3, GoesOut DEF AfterCancel, NoSend
  <2> QED
    BY <2>2, <2>3
<1> QED
  BY <1>3, <1>4

-----------------------------------------------------------------------------
(* The task takes the lease, registers itself and goes *)

LEMMA AcquireKeeps == ASSUME CoordInv, Acquire PROVE CoordInv'
<1>1. /\ worker.pc \in {"starting", "checked"} /\ worker \in Worker
      /\ worker.me = 0 /\ worker.why = "none" /\ UNCHANGED queue
      /\ NPhases \in Nat /\ MaxAttempts \in Nat \ {0}
  BY CoordinatorAssumption DEF Acquire, CoordInv, TaskOK, Early
<1>2. CASE status # (IF worker.recovery THEN "interrupted" ELSE "created")
  <2>1. Apart /\ worker' = NoTask
    BY <1>2 DEF Acquire, Apart, storeVars, counters
  <2>2. PICK w : w = NoTask
    OBVIOUS
  <2>3. TaskOK(w) /\ PhaseOK(w) /\ EndOK(w) /\ w.pc = "idle" /\ w.me = 0
    BY <2>2, NoTaskOK DEF CoordInv, NoTask
  <2>4. Follows(w) /\ Goes(w)
    BY <1>1, <2>3 DEF Follows, Registered, Goes, Slack, Early
  <2> QED
    BY <1>1, <2>1, <2>2, <2>3, <2>4, TaskGoes DEF Good
<1>3. CASE status = (IF worker.recovery THEN "interrupted" ELSE "created")
  <2>1. /\ status' = "running" /\ lease' = Len(attempts) + 1 /\ fresh' = TRUE
        /\ attempts' = Append(attempts, "running")
        /\ worker' = [worker EXCEPT !.pc = "owned", !.me = Len(attempts) + 1]
        /\ UNCHANGED <<category, asked, done, invFailed, toolRow, late, up, queue,
                       heart, cancelFlag, locked, atCancel, faults>>
    BY <1>3 DEF Acquire, counters
  <2>2. attempts \in Seq({"running", "interrupted"} \cup Terminal) /\ Len(attempts) < MaxAttempts
    <3>1. CASE worker.pc = "checked"
      BY <3>1 DEF CoordInv, StoreOK, TaskOK
    <3>2. CASE worker.pc = "starting"
      <4>1. attempts = <<>>
        BY <1>3, <3>2 DEF CoordInv, StoreOK, TaskOK
      <4> QED
        BY <1>1, <4>1 DEF CoordInv, StoreOK
    <3> QED
      BY <1>1, <3>1, <3>2
  <2>3. attempts' \in Seq({"running", "interrupted"} \cup Terminal) /\ Len(attempts') = Len(attempts) + 1
    BY <2>1, <2>2
  <2>4. StoreOK'
    BY <1>1, <2>1, <2>2, <2>3 DEF CoordInv, StoreOK, Status, Leased
  <2>5. PICK w : w = [worker EXCEPT !.pc = "owned", !.me = Len(attempts) + 1]
    OBVIOUS
  <2>6. w \in Worker /\ w.pc = "owned" /\ w.me = Len(attempts) + 1 /\ w.why = "none"
    <3>1. Len(attempts) + 1 \in 0..MaxAttempts
      BY <1>1, <2>2
    <3> QED
      BY <1>1, <2>5, <3>1 DEF Worker, PC
  <2>7. TaskOK(w)'
    BY <2>2, <2>3, <2>6 DEF TaskOK, At, Early
  <2>8. PhaseOK(w)' /\ EndOK(w)'
    BY <2>6 DEF PhaseOK, EndOK, At, InBody
  <2>9. FlagsOK'
    BY <1>1, <2>1 DEF CoordInv, FlagsOK, Registered
  <2>10. PICK q : q = queue /\ q \in Seq(Commands)
    BY DEF CoordInv, QueueOK
  <2>11. ASSUME NEW i \in DOMAIN q PROVE CommandOK(q[i], w)' /\ q[i].from # "worker"
    <3>1. CommandOK(q[i], worker) /\ q[i].from # "worker"
      BY <1>1, <2>10, NobodyWaits DEF CoordInv, QueueOK
    <3>2. q[i].attempt \in Nat /\ q[i].attempt # w.me /\ q[i].attempt <= Len(attempts')
      BY <2>2, <2>3, <2>6, <3>1 DEF CommandOK, Commands
    <3>3. ~Stopping'
      BY <2>1 DEF Stopping
    <3> QED
      BY <2>1, <3>1, <3>2, <3>3 DEF CommandOK
  <2>12. QueueOK'
    BY <1>1, <2>1, <2>5, <2>10, <2>11 DEF QueueOK
  <2>13. QueueShort'
    <3>1. Slack(w) = 2 /\ Slack(worker) = 0
      BY <1>1, <2>6 DEF Slack, Early
    <3>2. Len(queue) \in Nat /\ Len(attempts) \in Nat
      BY <2>2, <2>10
    <3>3. Len(queue) <= 2 * Len(attempts) + (IF asked THEN 1 ELSE 0)
      BY <3>1, <3>2 DEF CoordInv, QueueShort
    <3>4. Len(queue) + Slack(w) <= 2 * (Len(attempts) + 1) + (IF asked THEN 1 ELSE 0)
      BY <3>1, <3>2, <3>3
    <3> QED
      BY <2>1, <2>3, <2>5, <3>4 DEF QueueShort
  <2>14. CancelOK'
    BY <2>1 DEF CancelOK, CancelStopsTheRun
  <2> QED
    BY <2>1, <2>4, <2>5, <2>7, <2>8, <2>9, <2>12, <2>13, <2>14 DEF CoordInv
<1> QED
  BY <1>2, <1>3

\* A task that changes the flags of its registration as it goes.
LEMMA FlagsMove ==
    ASSUME CoordInv, UNCHANGED <<storeVars, late, up, atCancel, faults, locked, queue>>,
           worker.pc # "sent", NEW w, worker' = w, TaskOK(w), PhaseOK(w), EndOK(w),
           w.pc # "sent", Slack(w) <= Slack(worker),
           w.me = 0 \/ (w.me = worker.me /\ (worker.why # "none" => w.why # "none")),
           heart' \in BOOLEAN, cancelFlag' \in BOOLEAN, FlagsOK'
    PROVE  CoordInv'
<1>1. UNCHANGED <<status, category, asked, lease, fresh, attempts, done, invFailed, toolRow,
                  late, up, atCancel, faults, locked, queue>>
  BY DEF storeVars
<1>2. Calm
  BY <1>1 DEF Calm, Own, Fenced, Stopping
<1>3. StoreOK'
  BY <1>1 DEF CoordInv, StoreOK
<1>4. (TaskOK(w) /\ PhaseOK(w) /\ EndOK(w))'
  BY <1>2, CalmTask
<1>5. QueueOK'
  <2>1. PICK q : q = queue /\ q \in Seq(Commands)
    BY DEF CoordInv, QueueOK
  <2>2. ASSUME NEW i \in DOMAIN q PROVE CommandOK(q[i], w) /\ q[i].from # "worker"
    <3>1. CommandOK(q[i], worker) /\ q[i].from # "worker"
      BY <2>1, NobodyWaits DEF CoordInv, QueueOK
    <3>2. q[i].attempt # 0
      BY <3>1 DEF CommandOK, Commands
    <3> QED
      BY <3>1, <3>2 DEF CommandOK
  <2>3. \A i \in DOMAIN q : CommandOK(q[i], w)'
    BY <1>2, <2>2, CalmCommand
  <2> QED
    BY <1>1, <2>1, <2>2, <2>3 DEF QueueOK
<1>6. QueueShort'
  <2>1. Slack(w) \in 0..2 /\ Slack(worker) \in 0..2 /\ Len(queue) \in Nat /\ Len(attempts) \in Nat
    BY SlackRange DEF CoordInv, QueueOK, StoreOK
  <2> QED
    BY <1>1, <2>1 DEF CoordInv, QueueShort
<1>7. CancelOK'
  BY <1>1 DEF CoordInv, CancelOK, CancelStopsTheRun
<1> QED
  BY <1>3, <1>4, <1>5, <1>6, <1>7 DEF CoordInv

LEMMA RegisterKeeps == ASSUME CoordInv, Register PROVE CoordInv'
<1>1. /\ worker.pc = "owned" /\ worker \in Worker /\ worker.why = "none"
      /\ worker.me = Len(attempts) /\ worker.me > 0 /\ worker.phase \in 0..NPhases
      /\ heart' = TRUE /\ cancelFlag' = FALSE
      /\ UNCHANGED <<storeVars, late, up, atCancel, faults, locked, queue>>
  BY DEF Register, NoSend, StoreKept, counters, CoordInv, TaskOK, At, Early, Worker
<1>2. CASE CheckExecution = "none"
  <2>1. PICK todo \in Seq(StartTypes) : todo = StartEvents(worker.recovery)
    <3>1. StartEvents(TRUE) \in Seq(StartTypes) /\ StartEvents(FALSE) \in Seq(StartTypes)
      BY DEF StartEvents, StartTypes
    <3> QED
      BY <1>1, <3>1 DEF Worker
  <2>2. PICK w : w = [worker EXCEPT !.pc = "emit", !.todo = todo]
    OBVIOUS
  <2>3. /\ w \in Worker /\ w.pc = "emit" /\ w.me = worker.me /\ w.why = "none"
    BY <1>1, <2>1, <2>2 DEF Worker, PC
  <2>4. worker' = w
    BY <1>2, <2>1, <2>2 DEF Register
  <2>5. TaskOK(w)
    BY <1>1, <2>3 DEF TaskOK, At, Early
  <2>6. PhaseOK(w) /\ EndOK(w)
    BY <2>3 DEF PhaseOK, EndOK, At, InBody
  <2>7. Slack(w) <= Slack(worker)
    BY <1>1, <2>3 DEF Slack, Early
  <2>8. FlagsOK'
    BY <1>1, <2>3, <2>4 DEF FlagsOK, Registered
  <2> QED
    BY <1>1, <2>3, <2>4, <2>5, <2>6, <2>7, <2>8, FlagsMove
<1>3. CASE CheckExecution # "none"
  <2>1. PICK why : why = CheckExecution
    OBVIOUS
  <2>2. why \in Reason \ {"none"} /\ (why \in {"cancel", "leaseLost"} => ~Own(worker.me))
    BY <1>3, <2>1, Found DEF CoordInv, Reason
  <2>3. PICK w : w = Raise(why)
    OBVIOUS
  <2>4. PICK phase \in 0..NPhases : phase = worker.phase
    BY <1>1
  <2>5. w = [Raise(why) EXCEPT !.phase = phase]
    BY <1>1, <2>3, <2>4 DEF Raise, Worker
  <2>6. TaskOK(w) /\ PhaseOK(w) /\ EndOK(w) /\ w.pc = "except" /\ w.why # "none" /\ w.me = worker.me
    BY <1>1, <2>2, <2>5, Raised DEF CoordInv, Early
  <2>7. worker' = w
    BY <1>3, <2>1, <2>3 DEF Register
  <2>8. Slack(w) <= Slack(worker)
    BY <1>1, <2>6 DEF Slack, Early
  <2>9. FlagsOK'
    BY <1>1, <2>6, <2>7 DEF FlagsOK, Registered
  <2> QED
    BY <1>1, <2>6, <2>7, <2>8, <2>9, FlagsMove
<1> QED
  BY <1>2, <1>3

LEMMA ExitKeeps == ASSUME CoordInv, Exit PROVE CoordInv'
<1>1. /\ worker.pc = "exit" /\ worker' = NoTask /\ heart' = FALSE /\ cancelFlag' = FALSE
      /\ heart' \in BOOLEAN /\ cancelFlag' \in BOOLEAN
      /\ UNCHANGED <<storeVars, late, up, atCancel, faults, locked, queue>>
  BY DEF Exit, NoSend, StoreKept, counters
<1>2. PICK w : w = NoTask
  OBVIOUS
<1>3. TaskOK(w) /\ PhaseOK(w) /\ EndOK(w) /\ w.pc = "idle" /\ w.me = 0
  BY <1>2, NoTaskOK DEF CoordInv, NoTask
<1>4. Slack(w) <= Slack(worker) /\ worker.pc # "sent" /\ w.pc # "sent"
  BY <1>1, <1>3 DEF Slack, Early
<1>5. FlagsOK' /\ worker' = w
  BY <1>1, <1>2 DEF FlagsOK
<1> QED
  BY <1>1, <1>3, <1>4, <1>5, FlagsMove

-----------------------------------------------------------------------------
(* The writer takes the oldest command *)

LEMMA Shifted ==
    ASSUME NEW S, NEW s \in Seq(S), s # <<>>, NEW t, t = Tail(s)
    PROVE  /\ t \in Seq(S) /\ Len(t) = Len(s) - 1 /\ Len(s) \in Nat \ {0}
           /\ 1 \in DOMAIN s /\ s[1] = Head(s)
           /\ \A i \in DOMAIN t : i \in Nat /\ i + 1 \in DOMAIN s /\ i + 1 # 1 /\ t[i] = s[i + 1]
<1>1. Len(s) \in Nat /\ Len(s) # 0 /\ DOMAIN s = 1..Len(s)
  OBVIOUS
<1>2. t \in Seq(S) /\ Len(t) = Len(s) - 1
  OBVIOUS
<1>3. DOMAIN t = 1..(Len(s) - 1)
  BY <1>2
<1>4. ASSUME NEW i \in DOMAIN t PROVE i \in Nat /\ i + 1 \in DOMAIN s /\ i + 1 # 1 /\ t[i] = s[i + 1]
  <2>1. i \in 1..(Len(s) - 1)
    BY <1>3
  <2>2. i \in Nat /\ i + 1 \in DOMAIN s /\ i + 1 # 1
    BY <1>1, <2>1
  <2>3. t[i] = s[i + 1]
    BY <1>1, <2>1
  <2> QED
    BY <2>2, <2>3
<1> QED
  BY <1>1, <1>2, <1>4

\* The task that awaited the oldest command goes on with w, or nobody of this
\* task awaited it.
Resumes(w) ==
    /\ Follows(w)
    /\ w.pc # "sent"
    /\ Slack(w) <= Slack(worker) + 1
    /\ Head(queue).from = "worker"

\* The commands behind the oldest one are awaited by the same task or by nobody.
LEMMA BehindHead ==
    ASSUME QueueOK, queue # <<>>, NEW w, w = worker \/ Resumes(w), NEW q, q = Tail(queue)
    PROVE  /\ q \in Seq(Commands)
           /\ \A i \in DOMAIN q : CommandOK(q[i], w)
           /\ \A i, j \in DOMAIN q : q[i].from = "worker" /\ q[j].from = "worker" => i = j
<1>1. PICK s : s = queue /\ s \in Seq(Commands) /\ s # <<>>
  BY DEF QueueOK
<1>2. /\ q \in Seq(Commands) /\ 1 \in DOMAIN s /\ s[1] = Head(s)
      /\ \A i \in DOMAIN q : i \in Nat /\ i + 1 \in DOMAIN s /\ i + 1 # 1 /\ q[i] = s[i + 1]
  BY <1>1, Shifted
<1>3. /\ \A i \in DOMAIN s : CommandOK(s[i], worker)
      /\ \A i, j \in DOMAIN s : s[i].from = "worker" /\ s[j].from = "worker" => i = j
  BY <1>1 DEF QueueOK
<1>4. ASSUME NEW i \in DOMAIN q PROVE CommandOK(q[i], w)
  <2>1. CommandOK(q[i], worker)
    BY <1>2, <1>3
  <2>2. CASE w = worker
    BY <2>1, <2>2
  <2>3. CASE Resumes(w)
    <3>1. q[i].from # "worker"
      BY <1>1, <1>2, <1>3, <2>3 DEF Resumes
    <3> QED
      BY <2>1, <2>3, <3>1, LeftCommand DEF Resumes
  <2> QED
    BY <2>2, <2>3
<1>5. ASSUME NEW i \in DOMAIN q, NEW j \in DOMAIN q, q[i].from = "worker", q[j].from = "worker"
      PROVE  i = j
  <2>1. i \in Nat /\ j \in Nat /\ i + 1 = j + 1
    BY <1>2, <1>3, <1>5
  <2> QED
    BY <2>1
<1> QED
  BY <1>2, <1>4, <1>5

\* The oldest command is a command of the queue.
LEMMA HeadOK ==
    ASSUME QueueOK, queue # <<>>
    PROVE  CommandOK(Head(queue), worker) /\ Len(queue) \in Nat /\ Len(Tail(queue)) = Len(queue) - 1
<1>1. PICK s : s = queue /\ s \in Seq(Commands) /\ s # <<>>
  BY DEF QueueOK
<1>2. 1 \in DOMAIN s /\ s[1] = Head(s) /\ Len(s) \in Nat /\ Len(Tail(s)) = Len(s) - 1
  <2>1. PICK t : t = Tail(s)
    OBVIOUS
  <2> QED
    BY <1>1, <2>1, Shifted
<1>3. CommandOK(s[1], worker)
  BY <1>1, <1>2 DEF QueueOK
<1> QED
  BY <1>1, <1>2, <1>3

LEMMA ShorterQueue ==
    ASSUME CoordInv, queue # <<>>, queue' = Tail(queue), Len(attempts') = Len(attempts),
           UNCHANGED asked, NEW w, w = worker \/ Resumes(w), worker' = w
    PROVE  QueueShort'
<1>1. Slack(w) \in 0..2 /\ Slack(worker) \in 0..2 /\ Len(attempts) \in Nat
  BY SlackRange DEF CoordInv, StoreOK
<1>2. Len(queue) \in Nat /\ Len(queue') = Len(queue) - 1
  BY HeadOK DEF CoordInv
<1>3. Slack(w) <= Slack(worker) + 1
  <2>1. CASE w = worker
    BY <1>1, <2>1
  <2>2. CASE Resumes(w)
    BY <2>2 DEF Resumes
  <2> QED
    BY <2>1, <2>2
<1>4. Len(queue) + Slack(worker) <= 2 * Len(attempts) + (IF asked THEN 1 ELSE 0)
  BY DEF CoordInv, QueueShort
<1>5. Len(queue) - 1 + Slack(w) <= 2 * Len(attempts) + (IF asked THEN 1 ELSE 0)
  BY <1>1, <1>2, <1>3, <1>4
<1> QED
  BY <1>2, <1>5 DEF QueueShort

\* The oldest command is answered by a calm step of the store.
LEMMA AnswerKeeps ==
    ASSUME CoordInv, Calm, StoreOK', CancelOK', queue # <<>>, queue' = Tail(queue),
           UNCHANGED <<heart, cancelFlag, asked>>, NEW w, w = worker \/ Resumes(w), worker' = w,
           TaskOK(w)', PhaseOK(w)', EndOK(w)'
    PROVE  CoordInv'
<1>1. PICK q : q = Tail(queue)
  OBVIOUS
<1>2. /\ q \in Seq(Commands)
      /\ \A i \in DOMAIN q : CommandOK(q[i], w)
      /\ \A i, j \in DOMAIN q : q[i].from = "worker" /\ q[j].from = "worker" => i = j
  BY <1>1, BehindHead DEF CoordInv
<1>3. \A i \in DOMAIN q : CommandOK(q[i], w)'
  BY <1>2, CalmCommand
<1>4. QueueOK'
  BY <1>1, <1>2, <1>3 DEF QueueOK
<1>5. QueueShort'
  BY ShorterQueue DEF Calm
<1>6. FlagsOK'
  <2>1. w.me = worker.me /\ (Registered => w.pc \notin Early \cup {"owned"})
    <3>1. CASE w = worker
      BY <3>1 DEF Registered, Early
    <3>2. CASE Resumes(w)
      BY <3>2 DEF Resumes, Follows
    <3> QED
      BY <3>1, <3>2
  <2>2. worker.me \in 0..MaxAttempts
    BY DEF CoordInv, TaskOK, Worker
  <2>3. Registered => Registered'
    BY <2>1 DEF Registered, Early
  <2>4. Own(w.me)' => Own(worker.me)
    BY <2>1, <2>2 DEF Calm
  <2> QED
    BY <2>1, <2>3, <2>4 DEF CoordInv, FlagsOK
<1> QED
  BY <1>4, <1>5, <1>6 DEF CoordInv

\* Where the task continues after the oldest command, which it awaited.
LEMMA TaskResumes ==
    ASSUME CoordInv, queue # <<>>, Head(queue).from = "worker", NEW w, w = Goto(worker.next)
    PROVE  /\ Resumes(w) /\ TaskOK(w) /\ w \in Worker
           /\ w.pc = worker.next /\ w.phase = worker.phase /\ w.me = worker.me /\ w.why = worker.why
           /\ At(w) = w.pc /\ At(worker) = w.pc /\ worker.pc = "sent"
<1>1. /\ Awaited(Head(queue), worker) /\ worker \in Worker /\ worker.pc = "sent"
      /\ worker.next \in {"emit", "reconcile", "started", "executing", "merge",
                          "committed", "exit", "afterCancel"}
  BY HeadOK DEF CoordInv, CommandOK, Awaited, TaskOK
<1>2. /\ w \in Worker /\ w.pc = worker.next /\ w.phase = worker.phase
      /\ w.me = worker.me /\ w.why = worker.why /\ w.recovery = worker.recovery
  BY <1>1 DEF Goto, Worker
<1>3. At(w) = w.pc /\ At(worker) = w.pc
  BY <1>1, <1>2 DEF At
<1>4. TaskOK(w)
  BY <1>1, <1>2, <1>3 DEF CoordInv, TaskOK, Early
<1>5. Follows(w)
  BY <1>1, <1>2 DEF Follows, Early
<1>6. Slack(w) <= Slack(worker) + 1
  BY <1>1, <1>2 DEF Slack, Early
<1> QED
  BY <1>1, <1>2, <1>3, <1>4, <1>5, <1>6 DEF Resumes

\* Where it raises an error instead.
LEMMA TaskRaises ==
    ASSUME CoordInv, queue # <<>>, Head(queue).from = "worker",
           NEW why \in Reason \ {"none"}, why \in {"cancel", "leaseLost"} => ~Own(worker.me),
           NEW w, w = Raise(why)
    PROVE  Resumes(w) /\ TaskOK(w) /\ PhaseOK(w) /\ EndOK(w)
<1>1. Awaited(Head(queue), worker) /\ worker \in Worker /\ worker.pc = "sent"
  BY HeadOK DEF CoordInv, CommandOK, Awaited, TaskOK
<1>2. PICK phase \in 0..NPhases : phase = worker.phase
  BY <1>1 DEF Worker
<1>3. w = [Raise(why) EXCEPT !.phase = phase]
  BY <1>1, <1>2 DEF Raise, Worker
<1>4. TaskOK(w) /\ PhaseOK(w) /\ EndOK(w) /\ w.pc = "except" /\ w.why # "none" /\ w.me = worker.me
  <2>1. StoreOK /\ TaskOK(worker) /\ worker.pc \notin Early
    BY <1>1 DEF CoordInv, Early
  <2> QED
    BY <1>3, <2>1, Raised, ZenonT(30)
<1>5. Follows(w)
  BY <1>4 DEF Follows, Early
<1>6. Slack(w) <= Slack(worker) + 1
  BY <1>1, <1>4 DEF Slack, Early
<1> QED
  BY <1>4, <1>5, <1>6 DEF Resumes

-----------------------------------------------------------------------------
(* What the store does with the oldest command *)

\* A store step that leaves the run with its owner.
StoreStays == UNCHANGED <<status, category, asked, lease, fresh, attempts, done, invFailed>>

LEMMA StaysCalm ==
    ASSUME CoordInv, StoreStays, UNCHANGED <<atCancel, late, up, heart, cancelFlag>>,
           locked' \in BOOLEAN, faults' \in Nat, faults > 0 => faults' > 0,
           toolRow' \in [Phases -> {"none", "running", "success", "interrupted"}]
    PROVE  Calm /\ StoreOK' /\ CancelOK'
<1>1. Calm
  BY DEF StoreStays, Calm, Own, Fenced, Stopping
<1>2. StoreOK'
  BY DEF StoreStays, CoordInv, StoreOK
<1>3. CancelOK'
  BY DEF StoreStays, CoordInv, CancelOK, CancelStopsTheRun
<1> QED
  BY <1>1, <1>2, <1>3

\* A store step that ends the ownership of the run.
LEMMA LeaseEnds ==
    ASSUME CoordInv, status \in Leased, NEW end \in Terminal \cup {"interrupted"}, status' = end,
           attempts' = [attempts EXCEPT ![lease] = end], lease' = 0,
           fresh' \in BOOLEAN, category' \in Category, locked' \in BOOLEAN,
           toolRow' = StopTools, UNCHANGED <<asked, done, invFailed, atCancel, late, up, heart, cancelFlag, faults>>
    PROVE  Calm /\ StoreOK' /\ CancelOK'
<1>1. /\ attempts \in Seq({"running", "interrupted"} \cup Terminal) /\ Len(attempts) \in Nat
      /\ lease = Len(attempts) /\ lease \in 1..Len(attempts) /\ Len(attempts) <= MaxAttempts
  BY DEF CoordInv, StoreOK
<1>2. attempts' \in Seq({"running", "interrupted"} \cup Terminal) /\ Len(attempts') = Len(attempts)
  BY <1>1, ExceptSeq
<1>3. status' \notin Leased /\ status' # "created" /\ status' \in Status
  BY DEF Leased, Terminal, Status
<1>4. toolRow' \in [Phases -> {"none", "running", "success", "interrupted"}]
  BY DEF CoordInv, StoreOK, StopTools
<1>5. Calm
  BY <1>2, <1>3 DEF Calm, Own, Fenced, Stopping, Leased
<1>6. StoreOK'
  BY <1>1, <1>2, <1>3, <1>4 DEF CoordInv, StoreOK
<1>7. CancelOK'
  BY <1>3 DEF CancelOK, CancelStopsTheRun, Leased
<1> QED
  BY <1>5, <1>6, <1>7

\* A write that is no phase commit is calm; a terminal one ends the run.
LEMMA ApplyCalm ==
    ASSUME CoordInv, NEW c, CommandOK(c, worker), Accepts(c), c.op # "phase", Apply(c),
           UNCHANGED <<late, up, heart, cancelFlag, atCancel, faults>>, locked' \in BOOLEAN
    PROVE  /\ Calm /\ StoreOK' /\ CancelOK' /\ UNCHANGED asked
           /\ c.op = "terminal" => status' # "running"
<1>1. c \in Commands /\ c.op \in {"event", "terminal"} /\ faults \in Nat
  BY DEF CommandOK, Commands, CoordInv, StoreOK
<1>2. CASE c.op = "event"
  <2>1. ApplyEvent(c)
    BY <1>2 DEF Apply
  <2>2. StoreStays
    BY <2>1 DEF ApplyEvent, StoreStays
  <2>3. toolRow' \in [Phases -> {"none", "running", "success", "interrupted"}]
    <3>1. toolRow \in [Phases -> {"none", "running", "success", "interrupted"}]
      BY DEF CoordInv, StoreOK
    <3>2. \/ toolRow' = [toolRow EXCEPT ![c.phase] = "running"]
          \/ toolRow' = [toolRow EXCEPT ![c.phase] = "success"]
          \/ toolRow' = [toolRow EXCEPT ![c.phase] = "interrupted"]
          \/ toolRow' = toolRow
      BY <2>1 DEF ApplyEvent
    <3> QED
      BY <3>1, <3>2
  <2>4. UNCHANGED asked
    BY <2>2 DEF StoreStays
  <2> QED
    BY <1>1, <1>2, <2>2, <2>3, <2>4, StaysCalm
<1>3. CASE c.op = "terminal"
  <2>1. ApplyTerminal(c)
    BY <1>3 DEF Apply
  <2>2. Fenced(c.attempt)
    BY DEF Accepts
  <2>3. status \in Leased /\ c.attempt = lease
    BY <2>2 DEF Fenced
  <2>4. c.target \in Terminal /\ c.category \in Category
    BY <1>1, <1>3 DEF CommandOK, Commands
  <2>5. PICK end \in Terminal : end = c.target
    BY <2>4
  <2>6. /\ status' = end /\ attempts' = [attempts EXCEPT ![lease] = end] /\ lease' = 0
        /\ fresh' = FALSE /\ fresh' \in BOOLEAN /\ category' \in Category /\ toolRow' = StopTools
        /\ UNCHANGED <<asked, done, invFailed>>
    BY <2>1, <2>3, <2>4, <2>5 DEF ApplyTerminal
  <2>7. end \in Terminal \cup {"interrupted"} /\ end # "running"
    BY <2>5 DEF Terminal
  <2> QED
    BY <2>3, <2>6, <2>7, LeaseEnds
<1> QED
  BY <1>1, <1>2, <1>3

\* Who is told: the task continues with w, or it is left alone.
LEMMA Told ==
    ASSUME CoordInv, NEW c, c \in Commands, NEW w, Answer(c, w)
    PROVE  /\ locked' \in BOOLEAN
           /\ c.from = "worker" => worker' = w
           /\ c.from # "worker" => worker' = worker
BY DEF Answer, Commands, CoordInv, StoreOK

LEMMA CalmPhase ==
    ASSUME Calm, NEW w, TaskOK(w), PhaseOK(w)
    PROVE  TaskOK(w)' /\ PhaseOK(w)'
<1>1. TaskOK(w)'
  BY DEF Calm, TaskOK, At, Worker
<1>2. PhaseOK(w)'
  BY DEF Calm, PhaseOK, At
<1> QED
  BY <1>1, <1>2

\* The task that awaited an answer which commits no phase goes on.
LEMMA ResumesCalmly ==
    ASSUME CoordInv, Calm, queue # <<>>, Head(queue).from = "worker",
           NEW w, w = Goto(worker.next), PhaseOK(w),
           w.pc = "exit" => ~Own(w.me)' \/ faults' > 0 \/ w.why = "stopped"
    PROVE  Resumes(w) /\ TaskOK(w)' /\ PhaseOK(w)' /\ EndOK(w)'
<1>1. /\ Resumes(w) /\ TaskOK(w) /\ w \in Worker
      /\ w.me = worker.me /\ w.why = worker.why /\ At(w) = w.pc /\ At(worker) = w.pc
  BY TaskResumes
<1>2. TaskOK(w)' /\ PhaseOK(w)'
  BY <1>1, CalmPhase
<1>3. w.why \in {"cancel", "leaseLost"} \/ At(w) = "afterCancel" => ~Own(w.me)
  BY <1>1 DEF CoordInv, EndOK
<1>4. w.me \in 0..MaxAttempts
  BY <1>1 DEF Worker
<1>5. EndOK(w)'
  BY <1>3, <1>4 DEF Calm, EndOK, At
<1> QED
  BY <1>1, <1>2, <1>5

\* A write that is no phase commit is applied.
LEMMA WriteKeeps ==
    ASSUME CoordInv, queue # <<>>, queue' = Tail(queue), NEW c, c = Head(queue), c.op # "phase",
           Accepts(c), Apply(c), Answer(c, Goto(worker.next)),
           UNCHANGED <<late, up, heart, cancelFlag, atCancel, faults>>
    PROVE  CoordInv'
<1>1. CommandOK(c, worker) /\ c \in Commands
  BY HeadOK DEF CoordInv, CommandOK
<1>2. /\ locked' \in BOOLEAN
      /\ c.from = "worker" => worker' = Goto(worker.next)
      /\ c.from # "worker" => worker' = worker
  BY <1>1, Told
<1>3. /\ Calm /\ StoreOK' /\ CancelOK' /\ UNCHANGED asked
      /\ c.op = "terminal" => status' # "running"
  BY <1>1, <1>2, ApplyCalm
<1>4. CASE c.from = "worker"
  <2>1. PICK w : w = Goto(worker.next)
    OBVIOUS
  <2>2. /\ Resumes(w) /\ w.pc = worker.next /\ w.phase = worker.phase /\ At(w) = w.pc
        /\ At(worker) = w.pc /\ worker.pc = "sent"
    BY <1>4, <2>1, TaskResumes
  <2>3. w.pc # "committed" /\ (w.pc = "exit" => c.op = "terminal") /\ w.pc # "complete" /\ w.pc # "sent"
    BY <1>1, <1>4, <2>2 DEF CommandOK, Awaited, CoordInv, TaskOK
  <2>4. PhaseOK(w)
    BY <2>2, <2>3 DEF CoordInv, PhaseOK, InBody
  <2>5. w.pc = "exit" => ~Own(w.me)'
    BY <1>3, <2>3 DEF Own
  <2>6. TaskOK(w)' /\ PhaseOK(w)' /\ EndOK(w)'
    BY <1>3, <1>4, <2>1, <2>4, <2>5, ResumesCalmly
  <2> QED
    BY <1>2, <1>3, <1>4, <2>1, <2>2, <2>6, AnswerKeeps
<1>5. CASE c.from # "worker"
  <2>1. PICK w : w = worker
    OBVIOUS
  <2>2. TaskOK(w)' /\ PhaseOK(w)' /\ EndOK(w)'
    BY <1>3, <2>1, CalmTask DEF CoordInv
  <2> QED
    BY <1>2, <1>3, <1>5, <2>1, <2>2, AnswerKeeps
<1> QED
  BY <1>4, <1>5

\* The store refuses the oldest command, or the database fails.
LEMMA RefuseKeeps ==
    ASSUME CoordInv, queue # <<>>, queue' = Tail(queue), NEW c, c = Head(queue),
           NEW w, Answer(c, w), UNCHANGED <<storeVars, late, up, heart, cancelFlag, atCancel>>,
           faults' \in Nat, faults > 0 => faults' > 0,
           c.from = "worker" =>
             \/ /\ w = Goto(worker.next) /\ w.pc # "committed"
                /\ w.pc = "exit" => ~Own(w.me) \/ w.why = "stopped"
             \/ /\ w = Goto("exit") /\ worker.why # "none" /\ faults' > 0
             \/ \E why \in Reason \ {"none"} :
                  w = Raise(why) /\ (why \in {"cancel", "leaseLost"} => ~Own(worker.me))
    PROVE  CoordInv'
<1>1. CommandOK(c, worker) /\ c \in Commands
  BY HeadOK DEF CoordInv, CommandOK
<1>2. /\ locked' \in BOOLEAN
      /\ c.from = "worker" => worker' = w
      /\ c.from # "worker" => worker' = worker
  BY <1>1, Told
<1>3. Calm /\ StoreOK' /\ CancelOK' /\ UNCHANGED asked
  <2>1. StoreStays /\ UNCHANGED <<toolRow, asked>>
    BY DEF storeVars, StoreStays
  <2>2. toolRow' \in [Phases -> {"none", "running", "success", "interrupted"}]
    BY <2>1 DEF CoordInv, StoreOK
  <2> QED
    BY <1>2, <2>1, <2>2, StaysCalm
<1>4. CASE c.from = "worker"
  <2>1. CASE /\ w = Goto(worker.next) /\ w.pc # "committed"
             /\ w.pc = "exit" => ~Own(w.me) \/ w.why = "stopped"
    <3>1. /\ Resumes(w) /\ w \in Worker /\ w.pc = worker.next /\ w.phase = worker.phase /\ At(w) = w.pc
          /\ At(worker) = w.pc /\ worker.pc = "sent"
      BY <1>4, <2>1, TaskResumes
    <3>2. w.pc # "complete" /\ w.pc # "sent" /\ w.me \in 0..MaxAttempts
      BY <3>1 DEF CoordInv, TaskOK, Worker
    <3>3. PhaseOK(w)
      BY <2>1, <3>1, <3>2 DEF CoordInv, PhaseOK, InBody
    <3>4. w.pc = "exit" => ~Own(w.me)' \/ w.why = "stopped"
      BY <1>3, <2>1, <3>2 DEF Calm
    <3>5. TaskOK(w)' /\ PhaseOK(w)' /\ EndOK(w)'
      BY <1>3, <1>4, <2>1, <3>3, <3>4, ResumesCalmly
    <3> QED
      BY <1>2, <1>3, <1>4, <3>1, <3>5, AnswerKeeps
  <2>2. CASE w = Goto("exit") /\ worker.why # "none" /\ faults' > 0
    <3>1. Awaited(c, worker) /\ worker \in Worker /\ worker.pc = "sent" /\ worker.me = Len(attempts) /\ worker.me > 0
      BY <1>1, <1>4 DEF CommandOK, CoordInv, Awaited, TaskOK, Early
    <3>2. w \in Worker /\ w.pc = "exit" /\ w.me = worker.me /\ w.why = worker.why /\ w.me \in 0..MaxAttempts
      BY <2>2, <3>1 DEF Goto, Worker, PC
    <3>3. TaskOK(w) /\ PhaseOK(w)
      BY <3>1, <3>2 DEF TaskOK, PhaseOK, At, Early, InBody
    <3>4. Resumes(w)
      <4>1. Follows(w)
        BY <2>2, <3>2 DEF Follows, Early
      <4>2. Slack(w) <= Slack(worker) + 1
        BY <3>2, SlackRange DEF Slack, Early
      <4> QED
        BY <1>4, <3>2, <4>1, <4>2 DEF Resumes
    <3>5. TaskOK(w)' /\ PhaseOK(w)'
      BY <1>3, <3>3, CalmPhase
    <3>6. w.why \in {"cancel", "leaseLost"} => ~Own(w.me)
      BY <3>2 DEF CoordInv, EndOK
    <3>7. EndOK(w)'
      BY <1>3, <2>2, <3>2, <3>6 DEF Calm, EndOK, At
    <3> QED
      BY <1>2, <1>3, <1>4, <3>4, <3>5, <3>7, AnswerKeeps
  <2>3. CASE \E why \in Reason \ {"none"} :
               w = Raise(why) /\ (why \in {"cancel", "leaseLost"} => ~Own(worker.me))
    <3>1. PICK why \in Reason \ {"none"} :
               w = Raise(why) /\ (why \in {"cancel", "leaseLost"} => ~Own(worker.me))
      BY <2>3
    <3>2. Resumes(w) /\ TaskOK(w) /\ PhaseOK(w) /\ EndOK(w)
      BY <1>4, <3>1, TaskRaises
    <3>3. TaskOK(w)' /\ PhaseOK(w)' /\ EndOK(w)'
      BY <1>3, <3>2, CalmTask
    <3> QED
      BY <1>2, <1>3, <1>4, <3>2, <3>3, AnswerKeeps
  <2> QED
    BY <1>4, <2>1, <2>2, <2>3
<1>5. CASE c.from # "worker"
  <2>1. PICK v : v = worker
    OBVIOUS
  <2>2. TaskOK(v)' /\ PhaseOK(v)' /\ EndOK(v)'
    BY <1>3, <2>1, CalmTask DEF CoordInv
  <2> QED
    BY <1>2, <1>3, <1>5, <2>1, <2>2, AnswerKeeps
<1> QED
  BY <1>4, <1>5

\* A phase is committed: the next one is due, whoever still waits for the commit.
LEMMA CommitKeeps ==
    ASSUME CoordInv, queue # <<>>, queue' = Tail(queue), NEW c, c = Head(queue), c.op = "phase",
           Accepts(c), Apply(c), Answer(c, Goto(worker.next)),
           UNCHANGED <<late, up, heart, cancelFlag, atCancel, faults>>
    PROVE  CoordInv'
<1>1. CommandOK(c, worker) /\ c \in Commands
  BY HeadOK DEF CoordInv, CommandOK
<1>2. /\ locked' \in BOOLEAN
      /\ c.from = "worker" => worker' = Goto(worker.next)
      /\ c.from # "worker" => worker' = worker
  BY <1>1, Told
<1>3. /\ done' = done + 1 /\ invFailed' \in BOOLEAN
      /\ UNCHANGED <<status, category, asked, lease, fresh, attempts, toolRow>>
  BY DEF Apply, ApplyPhase
<1>4. /\ Fenced(c.attempt) /\ c.base = done /\ done < NPhases /\ done \in 0..NPhases
      /\ c.attempt = lease /\ lease = Len(attempts) /\ NPhases \in Nat /\ done \in Nat
      /\ atCancel \in Nat
  <2>1. Fenced(c.attempt) /\ c.base = done
    BY DEF Accepts
  <2> QED
    BY <1>1, <2>1, CoordinatorAssumption DEF Fenced, CommandOK, CoordInv, StoreOK
<1>5. ~Stopping
  BY <1>1, <1>4 DEF CommandOK
<1>6. StoreOK'
  <2>1. done' \in 0..NPhases
    BY <1>3, <1>4
  <2> QED
    BY <1>2, <1>3, <2>1 DEF CoordInv, StoreOK
<1>7. CancelOK'
  BY <1>3, <1>4, <1>5 DEF Stopping, CancelOK, CancelStopsTheRun
<1>8. PICK w : /\ worker' = w /\ (w = worker \/ Resumes(w)) /\ TaskOK(w) /\ EndOK(w)
               /\ w.me = worker.me /\ (heart \/ cancelFlag => w.pc \notin Early \cup {"owned"})
               /\ \/ w.pc = "committed" /\ w.phase = done + 1
                  \/ At(w) \in Early \cup {"owned", "except", "afterCancel", "exit"}
  <2>1. CASE c.from = "worker"
    <3>1. PICK w : w = Goto(worker.next)
      OBVIOUS
    <3>2. /\ Resumes(w) /\ TaskOK(w) /\ w.pc = worker.next /\ w.phase = worker.phase
          /\ w.me = worker.me /\ w.why = worker.why /\ At(w) = w.pc /\ At(worker) = w.pc /\ worker.pc = "sent"
      BY <2>1, <3>1, TaskResumes
    <3>3. w.pc = "committed" /\ w.phase = done + 1
      BY <1>1, <2>1, <3>2 DEF CommandOK, Awaited, CoordInv, PhaseOK
    <3>4. EndOK(w)
      BY <3>2, <3>3 DEF CoordInv, EndOK
    <3>5. w.pc \notin Early \cup {"owned"}
      BY <3>3 DEF Early
    <3> QED
      BY <1>2, <2>1, <3>1, <3>2, <3>3, <3>4, <3>5
  <2>2. CASE c.from # "worker"
    <3>1. At(worker) \in Early \cup {"owned", "except", "afterCancel", "exit"}
      <4>1. CASE worker.pc \in Early
        BY <4>1 DEF At, Early
      <4>2. CASE worker.pc \notin Early
        <5>1. worker.me = Len(attempts)
          BY <4>2 DEF CoordInv, TaskOK
        <5>2. c.from = "none"
          BY <1>1, <2>2 DEF CommandOK, Commands
        <5>3. worker.why # "none"
          BY <1>1, <1>4, <5>1, <5>2 DEF CommandOK
        <5> QED
          BY <5>3 DEF CoordInv, TaskOK
      <4> QED
        BY <4>1, <4>2
    <3>2. heart \/ cancelFlag => worker.pc \notin Early \cup {"owned"}
      BY DEF CoordInv, FlagsOK, Registered, Early
    <3> QED
      BY <1>2, <2>2, <3>1, <3>2 DEF CoordInv
  <2> QED
    BY <2>1, <2>2
<1>9. TaskOK(w)'
  BY <1>3, <1>8 DEF TaskOK, At
<1>10. PhaseOK(w)'
  <2>1. CASE w.pc = "committed" /\ w.phase = done + 1
    BY <1>3, <2>1 DEF PhaseOK, At, InBody
  <2>2. CASE At(w) \in Early \cup {"owned", "except", "afterCancel", "exit"}
    BY <2>2 DEF PhaseOK, At, InBody, Early
  <2> QED
    BY <1>8, <2>1, <2>2
<1>11. EndOK(w)'
  BY <1>3, <1>8 DEF EndOK, Own, Fenced, At
<1>12. FlagsOK'
  BY <1>3, <1>8 DEF CoordInv, FlagsOK, Own, Fenced, Registered, Early
<1>13. QueueShort'
  BY <1>3, <1>8, ShorterQueue
<1>14. QueueOK'
  <2>1. PICK q : q = Tail(queue)
    OBVIOUS
  <2>2. /\ q \in Seq(Commands)
        /\ \A i \in DOMAIN q : CommandOK(q[i], w)
        /\ \A i, j \in DOMAIN q : q[i].from = "worker" /\ q[j].from = "worker" => i = j
    BY <1>8, <2>1, BehindHead DEF CoordInv
  <2>3. ASSUME NEW d, CommandOK(d, w) PROVE CommandOK(d, w)'
    <3>1. d.target # "completed" /\ d \in Commands /\ (d.op = "phase" => d.base \in 0..NPhases /\ d.base <= done)
      BY <1>4, <2>3 DEF CommandOK, Commands
    <3>2. d.op = "phase" => d.base <= done' /\ d.base < done'
      BY <1>3, <1>4, <3>1
    <3> QED
      BY <1>3, <2>3, <3>1, <3>2 DEF CommandOK, Awaited
  <2>4. \A i \in DOMAIN q : CommandOK(q[i], w)'
    BY <2>2, <2>3
  <2> QED
    BY <1>8, <2>1, <2>2, <2>4 DEF QueueOK
<1> QED
  BY <1>6, <1>7, <1>8, <1>9, <1>10, <1>11, <1>12, <1>13, <1>14 DEF CoordInv

LEMMA WriterAppliesKeeps == ASSUME CoordInv, WriterApplies PROVE CoordInv'
<1>1. PICK c : c = Head(queue)
  OBVIOUS
<1>2. /\ queue # <<>> /\ queue' = Tail(queue) /\ CommandOK(c, worker) /\ c \in Commands
      /\ UNCHANGED <<late, up, heart, cancelFlag, atCancel, faults>> /\ faults \in Nat
  BY <1>1, HeadOK DEF WriterApplies, counters, CoordInv, CommandOK, StoreOK
<1>3. CASE Accepts(c)
  <2>1. Apply(c) /\ Answer(c, Goto(worker.next))
    BY <1>1, <1>3 DEF WriterApplies
  <2>2. CASE c.op = "phase"
    BY <1>1, <1>2, <1>3, <2>1, <2>2, CommitKeeps
  <2>3. CASE c.op # "phase"
    BY <1>1, <1>2, <1>3, <2>1, <2>3, WriteKeeps
  <2> QED
    BY <2>2, <2>3
<1>4. CASE ~Accepts(c)
  <2>1. PICK w : w = Refused(c)
    OBVIOUS
  <2>2. UNCHANGED storeVars /\ Answer(c, w)
    BY <1>1, <1>4, <2>1 DEF WriterApplies
  <2>3. ASSUME c.from = "worker"
        PROVE  \/ /\ w = Goto(worker.next) /\ w.pc # "committed"
                  /\ w.pc = "exit" => ~Own(w.me) \/ w.why = "stopped"
               \/ \E why \in Reason \ {"none"} :
                    w = Raise(why) /\ (why \in {"cancel", "leaseLost"} => ~Own(worker.me))
    <3>1. Awaited(c, worker)
      BY <1>2, <2>3 DEF CommandOK
    <3>2. CASE worker.next \in {"exit", "afterCancel"} /\ worker.why # "none"
      <4>1. w = Goto(worker.next)
        BY <2>1, <3>2 DEF Refused
      <4>2. w.pc = worker.next /\ w.me = worker.me
        BY <1>1, <1>2, <2>3, <4>1, TaskResumes
      <4>3. w.pc = "exit" => ~Own(w.me)
        BY <1>4, <3>1, <3>2, <4>2 DEF Awaited, Accepts, Expected, Own
      <4> QED
        BY <3>2, <4>1, <4>2, <4>3
    <3>3. CASE ~(worker.next \in {"exit", "afterCancel"} /\ worker.why # "none")
      <4>1. \/ w = Raise("cancel") /\ status = "cancelling"
            \/ w = Raise("leaseLost") /\ ~Fenced(c.attempt)
            \/ w = Raise("error")
        BY <2>1, <3>3 DEF Refused
      <4>2. c.attempt = worker.me
        BY <3>1 DEF Awaited
      <4> QED
        BY <4>1, <4>2 DEF Reason, Own
    <3> QED
      BY <3>2, <3>3
  <2> QED
    BY <1>1, <1>2, <2>2, <2>3, RefuseKeeps
<1> QED
  BY <1>3, <1>4

LEMMA WriterFailsKeeps == ASSUME CoordInv, WriterFails PROVE CoordInv'
<1>1. PICK c : c = Head(queue)
  OBVIOUS
<1>2. PICK w : w = IF worker.why # "none" THEN Goto("exit") ELSE Raise("persistence")
  OBVIOUS
<1>3. /\ queue # <<>> /\ queue' = Tail(queue) /\ Answer(c, w)
      /\ UNCHANGED <<storeVars, late, up, heart, cancelFlag, atCancel>>
      /\ faults \in Nat /\ faults' = faults + 1
  BY <1>1, <1>2 DEF WriterFails, CoordInv, StoreOK
<1>4. faults' \in Nat /\ faults' > 0
  BY <1>3
<1>5. \/ /\ w = Goto("exit") /\ worker.why # "none" /\ faults' > 0
      \/ \E why \in Reason \ {"none"} :
           w = Raise(why) /\ (why \in {"cancel", "leaseLost"} => ~Own(worker.me))
  BY <1>2, <1>4 DEF Reason
<1> QED
  BY <1>1, <1>3, <1>4, <1>5, RefuseKeeps

-----------------------------------------------------------------------------
(* The user, the clock, the audit, the manager's shutdown, crashes *)

\* A calm step that neither the task nor the writer takes.
LEMMA Undisturbed ==
    ASSUME CoordInv, Calm, StoreOK', CancelOK', FlagsOK', UNCHANGED <<worker, queue, asked>>
    PROVE  CoordInv'
<1>1. PICK w : w = worker
  OBVIOUS
<1>2. (TaskOK(w) /\ PhaseOK(w) /\ EndOK(w))'
  BY <1>1, CalmTask DEF CoordInv
<1>3. QueueOK'
  <2>1. PICK q : q = queue /\ q \in Seq(Commands)
    BY DEF CoordInv, QueueOK
  <2>2. \A i \in DOMAIN q : CommandOK(q[i], w)
    BY <1>1, <2>1 DEF CoordInv, QueueOK
  <2>3. \A i \in DOMAIN q : CommandOK(q[i], w)'
    BY <2>2, CalmCommand
  <2> QED
    BY <1>1, <2>1, <2>3 DEF CoordInv, QueueOK
<1>4. QueueShort'
  BY DEF Calm, CoordInv, QueueShort
<1> QED
  BY <1>1, <1>2, <1>3, <1>4 DEF CoordInv

\* The user cancels: the owner obeys, and the commit on its way is the last one.
LEMMA CancelIsCalm ==
    ASSUME CoordInv, RequestCancel
    PROVE  /\ Calm /\ CancelOK' /\ FlagsOK' /\ UNCHANGED worker /\ asked'
           /\ locked' \in BOOLEAN => StoreOK'
<1>1. /\ status \in {"created", "running", "cancelling"} /\ asked' = TRUE
      /\ status' = IF status = "created" THEN "cancelled" ELSE "cancelling"
      /\ category' = IF status = "created" THEN "cancelled" ELSE category
      /\ atCancel' = IF status = "running" THEN done ELSE atCancel
      /\ cancelFlag' = Registered
      /\ UNCHANGED <<lease, fresh, attempts, done, invFailed, toolRow, late, up, worker, heart, faults>>
  BY DEF RequestCancel, counters
<1>2. done \in Nat /\ atCancel \in Nat
  BY CoordinatorAssumption DEF CoordInv, StoreOK
<1>3. Calm
  BY <1>1, <1>2 DEF Calm, Own, Fenced, Stopping
<1>4. CancelOK'
  BY <1>1, <1>2 DEF CoordInv, CancelOK, CancelStopsTheRun
<1>5. Registered \in BOOLEAN /\ Registered' = Registered
  BY <1>1 DEF Registered
<1>6. FlagsOK'
  <2>1. heart' \/ cancelFlag' => Registered'
    BY <1>1, <1>5 DEF CoordInv, FlagsOK
  <2>2. status' # "running"
    BY <1>1
  <2> QED
    BY <2>1, <2>2 DEF FlagsOK, Own
<1>7. ASSUME locked' \in BOOLEAN PROVE StoreOK'
  <2>1. status' \in Status /\ category' \in Category /\ (status' \in Leased <=> status \in Leased) /\ status' # "created"
    BY <1>1 DEF CoordInv, StoreOK, Status, Leased, Terminal, Category
  <2>2. {asked', fresh', invFailed', late', up', locked', heart', cancelFlag'} \subseteq BOOLEAN
    BY <1>1, <1>5, <1>7 DEF CoordInv, StoreOK
  <2>3. atCancel' \in Nat
    BY <1>1, <1>2
  <2> QED
    BY <1>1, <2>1, <2>2, <2>3 DEF CoordInv, StoreOK
<1> QED
  BY <1>1, <1>3, <1>4, <1>6, <1>7

LEMMA RequestCancelKeeps == ASSUME CoordInv, RequestCancel PROVE CoordInv'
<1>1. Calm /\ CancelOK' /\ FlagsOK' /\ UNCHANGED worker /\ asked' /\ (locked' \in BOOLEAN => StoreOK')
  BY CancelIsCalm
<1>2. PICK w : w = worker
  OBVIOUS
<1>3. (TaskOK(w) /\ PhaseOK(w) /\ EndOK(w))'
  BY <1>1, <1>2, CalmTask DEF CoordInv
<1>4. PICK q : q = queue /\ q \in Seq(Commands)
  BY DEF CoordInv, QueueOK
<1>5. \A i \in DOMAIN q : CommandOK(q[i], w)'
  <2>1. \A i \in DOMAIN q : CommandOK(q[i], w)
    BY <1>2, <1>4 DEF CoordInv, QueueOK
  <2> QED
    BY <1>1, <2>1, CalmCommand
<1>6. \A i, j \in DOMAIN q : q[i].from = "worker" /\ q[j].from = "worker" => i = j
  BY <1>4 DEF CoordInv, QueueOK
<1>7. Len(q) \in Nat /\ Len(attempts) \in Nat /\ Slack(worker) \in 0..2 /\ Len(attempts') = Len(attempts)
  BY <1>1, <1>4, SlackRange DEF Calm, CoordInv, StoreOK
<1>8. Len(q) + Slack(w) <= 2 * Len(attempts) + (IF asked THEN 1 ELSE 0)
  BY <1>2, <1>4 DEF CoordInv, QueueShort
<1>9. CASE ~asked /\ status = "running" /\ Registered
  <2>1. PICK c : c = [EventCommand(lease, 0, "run.cancel_requested") EXCEPT !.from = "api"]
    OBVIOUS
  <2>2. queue' = Append(q, c) /\ locked' = TRUE
    BY <1>4, <1>9, <2>1 DEF RequestCancel, Put
  <2>3. lease \in 1..MaxAttempts /\ lease <= Len(attempts)
    BY <1>9, CoordinatorAssumption DEF CoordInv, StoreOK, Leased
  <2>4. <<"run.cancel_requested">> \in Seq(EventTypes)
    BY DEF EventTypes
  <2>5. /\ c \in Commands /\ c.op = "event" /\ c.attempt = lease /\ c.target = "none" /\ c.from = "api"
    <3>1. 0 \in 0..NPhases /\ "none" \in Category /\ "none" \in {"none"} \cup Terminal
      BY CoordinatorAssumption DEF Category
    <3>2. c = [op |-> "event", attempt |-> lease, phase |-> 0, types |-> <<"run.cancel_requested">>,
               target |-> "none", base |-> 0, category |-> "none", from |-> "api"]
      BY <2>1 DEF EventCommand, Command
    <3> QED
      BY <2>3, <2>4, <3>1, <3>2 DEF Commands
  <2>6. CommandOK(c, w)
    BY <2>3, <2>5 DEF CommandOK
  <2>7. CommandOK(c, w)'
    BY <1>1, <2>6, CalmCommand
  <2>8. PICK t : t = Append(q, c)
    OBVIOUS
  <2>9. /\ t \in Seq(Commands) /\ Len(t) = Len(q) + 1
        /\ \A i \in DOMAIN t : (i = Len(q) + 1 /\ t[i] = c) \/ (i \in DOMAIN q /\ t[i] = q[i])
    BY <1>4, <2>5, <2>8, Appended
  <2>10. \A i \in DOMAIN t : CommandOK(t[i], w)'
    BY <1>5, <2>7, <2>9
  <2>11. \A i, j \in DOMAIN t : t[i].from = "worker" /\ t[j].from = "worker" => i = j
    BY <1>6, <2>5, <2>9
  <2>12. QueueOK'
    BY <1>1, <1>2, <2>2, <2>8, <2>9, <2>10, <2>11 DEF QueueOK
  <2>13. QueueShort'
    <3>1. ~asked
      BY <1>9
    <3>2. Len(q) + 1 + Slack(w) <= 2 * Len(attempts) + 1
      BY <1>2, <1>7, <1>8, <3>1
    <3> QED
      BY <1>1, <1>2, <1>7, <2>2, <2>8, <2>9, <3>2 DEF QueueShort
  <2>14. StoreOK'
    BY <1>1, <2>2
  <2> QED
    BY <1>1, <1>2, <1>3, <2>12, <2>13, <2>14 DEF CoordInv
<1>10. CASE ~(~asked /\ status = "running" /\ Registered)
  <2>1. queue' = q /\ UNCHANGED locked
    BY <1>4, <1>10 DEF RequestCancel
  <2>2. QueueOK'
    BY <1>1, <1>2, <1>4, <1>5, <1>6, <2>1 DEF QueueOK
  <2>3. QueueShort'
    <3>1. Len(q) + Slack(w) <= 2 * Len(attempts) + 1
      BY <1>2, <1>7, <1>8
    <3> QED
      BY <1>1, <1>2, <1>7, <2>1, <3>1 DEF QueueShort
  <2>4. StoreOK'
    BY <1>1, <2>1 DEF CoordInv, StoreOK
  <2> QED
    BY <1>1, <1>2, <1>3, <2>2, <2>3, <2>4 DEF CoordInv
<1> QED
  BY <1>9, <1>10

\* The lease runs out, is found gone or is audited; the deadline passes; the
\* process comes back.
LEMMA ClockKeeps ==
    ASSUME CoordInv, HeartbeatStops \/ LeaseExpires \/ DeadlinePasses \/ Restart
    PROVE  CoordInv'
<1>1. /\ UNCHANGED <<status, category, asked, lease, attempts, done, invFailed, toolRow,
                     queue, worker, locked, atCancel, faults>>
      /\ fresh' \in BOOLEAN /\ (fresh' => fresh)
      /\ late' \in BOOLEAN /\ up' \in BOOLEAN /\ heart' \in BOOLEAN /\ cancelFlag' \in BOOLEAN
  <2>1. {fresh, late, up, heart, cancelFlag} \subseteq BOOLEAN
    BY DEF CoordInv, StoreOK
  <2>2. CASE HeartbeatStops
    BY <2>1, <2>2 DEF HeartbeatStops, storeVars, counters
  <2>3. CASE LeaseExpires
    BY <2>1, <2>3 DEF LeaseExpires, localVars, counters
  <2>4. CASE DeadlinePasses
    BY <2>1, <2>4 DEF DeadlinePasses, storeVars, localVars, counters
  <2>5. CASE Restart
    BY <2>1, <2>5 DEF Restart, storeVars, localVars, counters
  <2> QED
    BY <2>2, <2>3, <2>4, <2>5
<1>2. Calm
  BY <1>1 DEF Calm, Own, Fenced, Stopping
<1>3. StoreOK'
  <2>1. {asked', fresh', invFailed', late', up', locked', heart', cancelFlag'} \subseteq BOOLEAN
    <3>1. asked \in BOOLEAN /\ invFailed \in BOOLEAN /\ locked \in BOOLEAN
      BY DEF CoordInv, StoreOK
    <3> QED
      BY <1>1, <3>1
  <2> QED
    BY <1>1, <2>1 DEF CoordInv, StoreOK
<1>4. CancelOK'
  BY <1>1 DEF CoordInv, CancelOK, CancelStopsTheRun
<1>5. FlagsOK'
  <2>1. PICK n : n = worker.me /\ (Own(n)' => Own(n))
    BY <1>1 DEF Own, Fenced
  <2>2. CASE HeartbeatStops
    <3>1. Registered /\ ~Own(n)
      BY <2>1, <2>2 DEF HeartbeatStops, CoordInv, FlagsOK, Own, Fenced
    <3>2. ~Own(n)' /\ n = worker'.me
      BY <1>1, <2>1, <3>1
    <3> QED
      BY <1>1, <3>1, <3>2 DEF FlagsOK, Registered
  <2>3. CASE LeaseExpires \/ DeadlinePasses \/ Restart
    <3>1. UNCHANGED <<heart, cancelFlag>>
      BY <2>3 DEF LeaseExpires, DeadlinePasses, Restart, localVars
    <3>2. cancelFlag => ~Own(n)
      BY <2>1 DEF CoordInv, FlagsOK
    <3>3. (cancelFlag' => ~Own(n)') /\ n = worker'.me
      BY <1>1, <2>1, <3>1, <3>2
    <3> QED
      BY <1>1, <3>1, <3>3 DEF CoordInv, FlagsOK, Registered
  <2> QED
    BY <2>2, <2>3
<1> QED
  BY <1>1, <1>2, <1>3, <1>4, <1>5, Undisturbed

LEMMA AuditKeeps == ASSUME CoordInv, Audit PROVE CoordInv'
<1>1. PICK end \in {"interrupted"} : end = "interrupted"
  OBVIOUS
<1>2. /\ status \in Leased /\ status' = end /\ attempts' = [attempts EXCEPT ![lease] = end]
      /\ lease' = 0 /\ toolRow' = StopTools
      /\ fresh' \in BOOLEAN /\ category' \in Category /\ locked' \in BOOLEAN
      /\ UNCHANGED <<asked, done, invFailed, atCancel, late, up, heart, cancelFlag, faults, worker, queue>>
  BY <1>1 DEF Audit, localVars, counters, CoordInv, StoreOK
<1>3. Calm /\ StoreOK' /\ CancelOK'
  BY <1>1, <1>2, LeaseEnds
<1>4. FlagsOK'
  <2>1. status' # "running"
    BY <1>1, <1>2
  <2> QED
    BY <1>2, <2>1 DEF CoordInv, FlagsOK, Registered, Own
<1> QED
  BY <1>2, <1>3, <1>4, Undisturbed

\* The manager cancels the task; its write stays in the queue and nobody awaits it.
LEMMA StopTaskKeeps == ASSUME CoordInv, StopTask PROVE CoordInv'
<1>1. /\ Apart /\ worker.pc \in {"sent", "executing"} /\ worker \in Worker /\ queue' = Orphaned
      /\ worker.me = Len(attempts) /\ worker.me > 0
  BY OnlyTaskApart DEF StopTask, CoordInv, TaskOK, Early
<1>2. Calm /\ StoreOK'
  BY <1>1, StayCalm DEF CoordInv
<1>3. UNCHANGED <<status, lease, fresh, attempts, done, atCancel, faults, asked, heart, cancelFlag>>
  BY <1>1 DEF Apart, storeVars
<1>4. PICK w : w = IF worker.why # "none" THEN [Goto("exit") EXCEPT !.why = "stopped"]
                                          ELSE Raise("stopped")
  OBVIOUS
<1>5. /\ w \in Worker /\ w.pc \in {"exit", "except"} /\ w.why = "stopped" /\ w.me = worker.me
      /\ w.pc = "except" => worker.why = "none"
  <2>1. CASE worker.why # "none"
    <3>1. w = [worker EXCEPT !.pc = "exit", !.why = "stopped"]
      BY <1>1, <1>4, <2>1 DEF Goto, Worker
    <3> QED
      <4>1. w \in Worker
        <5>1. "exit" \in PC /\ "stopped" \in Reason
          BY DEF PC, Reason
        <5> QED
          BY <1>1, <3>1, <5>1 DEF Worker
      <4>2. w.pc = "exit" /\ w.why = "stopped" /\ w.me = worker.me
        BY <1>1, <3>1 DEF Worker
      <4> QED
        BY <4>1, <4>2
  <2>2. CASE worker.why = "none"
    <3>1. w = [worker EXCEPT !.pc = "except", !.next = "idle", !.why = "stopped"]
      BY <1>4, <2>2 DEF Raise
    <3> QED
      BY <1>1, <2>2, <3>1 DEF Worker, PC, Reason
  <2> QED
    BY <2>1, <2>2
<1>6. worker' = w
  BY <1>4 DEF StopTask
<1>7. TaskOK(w) /\ PhaseOK(w) /\ EndOK(w)
  <2>1. TaskOK(w)
    BY <1>1, <1>5 DEF TaskOK, At, Early
  <2> QED
    BY <1>5, <2>1 DEF PhaseOK, EndOK, At, InBody
<1>8. (TaskOK(w) /\ PhaseOK(w) /\ EndOK(w))'
  BY <1>2, <1>7, CalmTask
<1>9. FlagsOK'
  BY <1>3, <1>5, <1>6 DEF CoordInv, FlagsOK, Registered, Own, Fenced
<1>10. PICK q : q = queue /\ q \in Seq(Commands)
  BY DEF CoordInv, QueueOK
<1>11. PICK t : t = [i \in DOMAIN q |-> IF q[i].from = "worker" THEN [q[i] EXCEPT !.from = "none"] ELSE q[i]]
  OBVIOUS
<1>12. queue' = t
  BY <1>1, <1>10, <1>11 DEF Orphaned
<1>13. ASSUME NEW i \in DOMAIN q PROVE CommandOK(t[i], w) /\ t[i].from # "worker"
  <2>1. CommandOK(q[i], worker)
    BY <1>10 DEF CoordInv, QueueOK
  <2>2. CASE q[i].from = "worker"
    <3>1. t[i] = [q[i] EXCEPT !.from = "none"] /\ q[i] \in Commands
      BY <1>11, <2>1, <2>2 DEF CommandOK
    <3>2. /\ t[i] \in Commands /\ t[i].from = "none" /\ t[i].op = q[i].op /\ t[i].attempt = q[i].attempt
          /\ t[i].base = q[i].base /\ t[i].target = q[i].target
      BY <3>1 DEF Commands
    <3> QED
      BY <1>5, <2>1, <3>2 DEF CommandOK
  <2>3. CASE q[i].from # "worker"
    <3>1. t[i] = q[i]
      BY <1>11, <2>3
    <3> QED
      BY <1>5, <2>1, <2>3, <3>1 DEF CommandOK
  <2> QED
    BY <2>2, <2>3
<1>14. /\ t \in Seq(Commands) /\ Len(t) = Len(q) /\ DOMAIN t = DOMAIN q /\ Len(q) \in Nat
  <2>1. DOMAIN q = 1..Len(q) /\ Len(q) \in Nat
    BY <1>10
  <2>2. t \in [1..Len(q) -> Commands]
    <3>1. \A i \in DOMAIN q : t[i] \in Commands
      BY <1>13 DEF CommandOK
    <3> QED
      BY <1>11, <2>1, <3>1
  <2>3. DOMAIN t = 1..Len(q)
    BY <2>2
  <2> QED
    BY <2>1, <2>2, <2>3
<1>15. \A i \in DOMAIN t : CommandOK(t[i], w)'
  BY <1>2, <1>13, <1>14, CalmCommand
<1>16. QueueOK'
  BY <1>6, <1>12, <1>13, <1>14, <1>15 DEF QueueOK
<1>17. QueueShort'
  <2>1. Slack(w) <= Slack(worker) /\ Slack(w) \in 0..2 /\ Slack(worker) \in 0..2 /\ Len(attempts) \in Nat
    BY <1>1, <1>5, SlackRange DEF Slack, Early, CoordInv, StoreOK
  <2>2. Len(q) + Slack(worker) <= 2 * Len(attempts) + (IF asked THEN 1 ELSE 0)
    BY <1>10 DEF CoordInv, QueueShort
  <2>3. Len(q) + Slack(w) <= 2 * Len(attempts) + (IF asked THEN 1 ELSE 0)
    BY <1>14, <2>1, <2>2
  <2> QED
    BY <1>3, <1>6, <1>12, <1>14, <2>3 DEF QueueShort
<1>18. CancelOK'
  BY <1>3 DEF CoordInv, CancelOK, CancelStopsTheRun
<1> QED
  BY <1>2, <1>6, <1>8, <1>9, <1>16, <1>17, <1>18 DEF CoordInv

\* A crash leaves the store as it is, and nothing else.
LEMMA CrashKeeps == ASSUME CoordInv, Crash PROVE CoordInv'
<1>1. /\ queue' = <<>> /\ worker' = NoTask /\ up' = FALSE /\ heart' = FALSE /\ cancelFlag' = FALSE
      /\ locked' = FALSE
      /\ UNCHANGED <<status, category, asked, lease, fresh, attempts, done, invFailed, toolRow,
                     late, atCancel, faults>>
  BY DEF Crash, storeVars
<1>2. StoreOK'
  BY <1>1 DEF CoordInv, StoreOK
<1>3. PICK w : w = NoTask
  OBVIOUS
<1>4. TaskOK(w) /\ PhaseOK(w) /\ EndOK(w) /\ w.pc = "idle"
  BY <1>3, NoTaskOK DEF CoordInv, NoTask
<1>5. Calm
  BY <1>1 DEF Calm, Own, Fenced, Stopping
<1>6. (TaskOK(w) /\ PhaseOK(w) /\ EndOK(w))'
  BY <1>4, <1>5, CalmTask
<1>7. FlagsOK'
  BY <1>1 DEF FlagsOK
<1>8. QueueOK'
  BY <1>1 DEF QueueOK
<1>9. QueueShort'
  <2>1. Slack(w) = 0 /\ Len(attempts) \in Nat
    BY <1>4 DEF Slack, Early, CoordInv, StoreOK
  <2>2. Len(queue') = 0 /\ worker' = w
    BY <1>1, <1>3
  <2> QED
    BY <1>1, <2>1, <2>2 DEF QueueShort
<1>10. CancelOK'
  BY <1>1 DEF CoordInv, CancelOK, CancelStopsTheRun
<1> QED
  BY <1>1, <1>2, <1>3, <1>6, <1>7, <1>8, <1>9, <1>10 DEF CoordInv

-----------------------------------------------------------------------------
(* The theorems *)

LEMMA CoordInit == Init => CoordInv
<1> SUFFICES ASSUME Init PROVE CoordInv
  OBVIOUS
<1>1. /\ status = "created" /\ category = "none" /\ lease = 0 /\ attempts = <<>> /\ done = 0
      /\ worker = NoTask /\ queue = <<>> /\ ~heart /\ ~cancelFlag /\ atCancel = 0 /\ faults = 0
      /\ toolRow = [p \in Phases |-> "none"] /\ fresh = FALSE /\ invFailed = FALSE /\ asked = FALSE
      /\ late = FALSE /\ up = TRUE /\ locked = FALSE /\ heart = FALSE /\ cancelFlag = FALSE
  BY DEF Init
<1>2. StoreOK
  <2>1. Len(attempts) = 0 /\ attempts \in Seq({"running", "interrupted"} \cup Terminal)
    BY <1>1
  <2>2. status \notin Leased /\ status \in Status /\ category \in Category
    BY <1>1 DEF Leased, Status, Category
  <2>3. toolRow \in [Phases -> {"none", "running", "success", "interrupted"}]
    BY <1>1
  <2>4. {asked, fresh, invFailed, late, up, locked, heart, cancelFlag} \subseteq BOOLEAN
    BY <1>1
  <2>5. Len(attempts) <= MaxAttempts /\ done \in 0..NPhases /\ atCancel \in Nat /\ faults \in Nat
    BY <1>1, <2>1, CoordinatorAssumption
  <2> QED
    BY <1>1, <2>1, <2>2, <2>3, <2>4, <2>5 DEF StoreOK
<1>3. TaskOK(worker) /\ PhaseOK(worker) /\ EndOK(worker)
  BY <1>1, <1>2, NoTaskOK
<1>4. FlagsOK /\ CancelOK
  BY <1>1 DEF FlagsOK, CancelOK, CancelStopsTheRun
<1>5. QueueOK
  BY <1>1 DEF QueueOK
<1>6. QueueShort
  <2>1. worker.pc = "idle"
    BY <1>1 DEF NoTask
  <2> QED
    BY <1>1, <2>1 DEF QueueShort, Slack, Early
<1> QED
  BY <1>2, <1>3, <1>4, <1>5, <1>6 DEF CoordInv

LEMMA CoordNext == CoordInv /\ [Next]_vars => CoordInv'
<1> SUFFICES ASSUME CoordInv, [Next]_vars PROVE CoordInv'
  OBVIOUS
<1>1. CASE ManagerStart \/ ManagerResume \/ ResumeChecks
  BY <1>1, ManagerKeeps
<1>2. CASE Acquire \/ Register \/ Exit
  BY <1>2, AcquireKeeps, RegisterKeeps, ExitKeeps
<1>3. CASE Emit \/ Reconcile \/ BeginPhase
  BY <1>3, EmitKeeps, ReconcileKeeps, BeginPhaseKeeps
<1>4. CASE Checked("started", "executing") \/ Checked("executed", "merge")
  BY <1>4, CheckedKeeps
<1>5. CASE PhaseWork \/ PhaseReturns \/ PhaseRaises
  BY <1>5, WorkKeeps, PhaseEndsKeeps
<1>6. CASE Merge \/ AfterCommit \/ Complete
  BY <1>6, MergeKeeps, AfterCommitKeeps, CompleteKeeps
<1>7. CASE Handle \/ AfterCancel
  BY <1>7, HandleKeeps
<1>8. CASE WriterApplies \/ WriterFails
  BY <1>8, WriterAppliesKeeps, WriterFailsKeeps
<1>9. CASE RequestCancel
  BY <1>9, RequestCancelKeeps
<1>10. CASE HeartbeatStops \/ LeaseExpires \/ DeadlinePasses \/ Restart
  BY <1>10, ClockKeeps
<1>11. CASE Audit \/ StopTask \/ Crash
  BY <1>11, AuditKeeps, StopTaskKeeps, CrashKeeps
<1>12. CASE UNCHANGED vars
  <2>1. /\ UNCHANGED <<status, category, asked, lease, fresh, attempts, done, invFailed, toolRow,
                       late, up, queue, worker, heart, cancelFlag, locked, atCancel, faults>>
    BY <1>12 DEF vars, storeVars, localVars, counters
  <2>2. Calm
    BY <2>1 DEF Calm, Own, Fenced, Stopping
  <2>3. StoreOK' /\ CancelOK'
    BY <2>1 DEF CoordInv, StoreOK, CancelOK, CancelStopsTheRun
  <2>4. FlagsOK'
    BY <2>1 DEF CoordInv, FlagsOK, Registered, Own, Fenced
  <2> QED
    BY <2>1, <2>2, <2>3, <2>4, Undisturbed
<1> QED
  BY <1>1, <1>2, <1>3, <1>4, <1>5, <1>6, <1>7, <1>8, <1>9, <1>10, <1>11, <1>12 DEF Next, Body

\* The invariant implies what the runs check of the owner of a run.
LEMMA CoordInvMeans == CoordInv => CoordinatorConsistent
<1> SUFFICES ASSUME CoordInv PROVE CoordinatorConsistent
  OBVIOUS
<1>1. TypeOK
  <2>1. Len(queue) <= 3 * MaxAttempts
    <3>1. /\ Len(queue) \in Nat /\ Len(attempts) \in Nat /\ MaxAttempts \in Nat \ {0}
          /\ Len(attempts) <= MaxAttempts /\ Slack(worker) \in 0..2
      BY SlackRange, CoordinatorAssumption DEF CoordInv, QueueOK, StoreOK
    <3>2. Len(queue) + Slack(worker) <= 2 * Len(attempts) + 1
      BY <3>1 DEF CoordInv, QueueShort
    <3> QED
      BY <3>1, <3>2
  <2>2. lease \in 0..MaxAttempts
    BY CoordinatorAssumption DEF CoordInv, StoreOK
  <2> QED
    BY <2>1, <2>2 DEF CoordInv, StoreOK, TaskOK, TypeOK
<1>2. CancelStopsTheRun
  BY DEF CoordInv, CancelOK
<1>3. LeavesNothingRunning
  BY DEF CoordInv, EndOK, Own, LeavesNothingRunning
<1> QED
  BY <1>1, <1>2, <1>3 DEF CoordinatorConsistent

\* After the user's cancellation at most the commit on its way is applied, a task
\* never leaves a run behind that it could have settled, and the writer's queue
\* stays short (_execute_owned, check_execution, request_cancel).
THEOREM OwnerInCharge == Spec => []CoordinatorConsistent
<1>1. Init => CoordInv
  BY CoordInit
<1>2. CoordInv /\ [Next]_vars => CoordInv'
  BY CoordNext
<1>3. CoordInv => CoordinatorConsistent
  BY CoordInvMeans
<1> QED
  BY <1>1, <1>2, <1>3, PTL DEF Spec

\* A step that leaves the status and the checkpoints is a stutter of the lifecycle.
LEMMA Rests == UNCHANGED <<status, done>> => [Lifecycle!Next]_(Lifecycle!vars)
BY DEF Lifecycle!vars

LEMMA StatusMoves ==
    ASSUME UNCHANGED done,
           \/ status = "created" /\ status' \in {"running", "cancelled"}
           \/ status = "running" /\ status' \in {"cancelling", "failed", "interrupted"}
           \/ status = "cancelling" /\ status' \in {"cancelled", "interrupted"}
           \/ status = "interrupted" /\ status' = "running"
           \/ status = "running" /\ status' = "completed" /\ done = NPhases
    PROVE  Lifecycle!Next
BY DEF Lifecycle!Next, Lifecycle!Move, Lifecycle!Complete, Lifecycle!Interrupt

LEMMA WriterMoves ==
    ASSUME CoordInv, WriterApplies
    PROVE  [Lifecycle!Next]_(Lifecycle!vars)
<1>1. PICK c : c = Head(queue)
  OBVIOUS
<1>2. CommandOK(c, worker) /\ c \in Commands
  BY <1>1, HeadOK DEF WriterApplies, CoordInv, CommandOK
<1>3. CASE ~Accepts(c)
  BY <1>1, <1>3, Rests DEF WriterApplies, storeVars
<1>4. CASE Accepts(c)
  <2>1. Apply(c) /\ Fenced(c.attempt)
    BY <1>1, <1>4 DEF WriterApplies, Accepts
  <2>2. CASE c.op = "event"
    BY <2>1, <2>2, Rests DEF Apply, ApplyEvent
  <2>3. CASE c.op = "phase"
    <3>1. c.base = done /\ c.base < NPhases
      BY <1>2, <1>4, <2>3 DEF Accepts, CommandOK
    <3>2. status \in Lifecycle!Held /\ done < NPhases /\ done' = done + 1 /\ UNCHANGED status
      BY <2>1, <2>3, <3>1 DEF Apply, ApplyPhase, Fenced, Leased, Lifecycle!Held
    <3> QED
      BY <3>2 DEF Lifecycle!Next, Lifecycle!CommitPhase
  <2>4. CASE c.op = "terminal"
    <3>1. status' = c.target /\ UNCHANGED done /\ status = Expected(c.target)
      BY <1>4, <2>1, <2>4 DEF Apply, ApplyTerminal, Accepts
    <3>2. c.target \in Terminal /\ (c.target = "completed" => done = NPhases)
      BY <1>2, <2>4 DEF CommandOK, Commands
    <3> QED
      BY <3>1, <3>2, StatusMoves DEF Expected, Terminal
  <2> QED
    BY <1>2, <2>2, <2>3, <2>4 DEF Commands
<1> QED
  BY <1>3, <1>4

\* Every step moves the run as the API promises, or does not move it.
LEMMA LifecycleStep == CoordInv /\ [Next]_vars => [Lifecycle!Next]_(Lifecycle!vars)
<1> SUFFICES ASSUME CoordInv, [Next]_vars PROVE [Lifecycle!Next]_(Lifecycle!vars)
  OBVIOUS
<1>1. CASE WriterApplies
  BY <1>1, WriterMoves
<1>2. CASE Acquire
  <2>1. CASE status = (IF worker.recovery THEN "interrupted" ELSE "created")
    <3>1. status' = "running" /\ UNCHANGED done
      BY <1>2, <2>1 DEF Acquire
    <3> QED
      BY <2>1, <3>1, StatusMoves
  <2>2. CASE status # (IF worker.recovery THEN "interrupted" ELSE "created")
    BY <1>2, <2>2, Rests DEF Acquire
  <2> QED
    BY <2>1, <2>2
<1>3. CASE RequestCancel
  <2>1. CASE status = "cancelling"
    BY <1>3, <2>1, Rests DEF RequestCancel
  <2>2. CASE status # "cancelling"
    BY <1>3, <2>2, StatusMoves DEF RequestCancel
  <2> QED
    BY <2>1, <2>2
<1>4. CASE Audit
  BY <1>4, StatusMoves DEF Audit, Leased
<1>5. CASE \/ ManagerStart \/ ManagerResume \/ ResumeChecks \/ Register \/ Exit
           \/ Emit \/ Reconcile \/ BeginPhase \/ PhaseReturns \/ PhaseRaises
           \/ Checked("started", "executing") \/ Checked("executed", "merge")
           \/ Merge \/ AfterCommit \/ Complete \/ Handle \/ AfterCancel
  BY <1>5, Rests DEF ManagerStart, ManagerResume, ResumeChecks, Register, Exit, Emit, Reconcile,
     BeginPhase, PhaseReturns, PhaseRaises, Checked, Merge, AfterCommit, Complete, Handle,
     AfterCancel, OnlyTask, StoreKept, storeVars
<1>6. CASE PhaseWork
  BY <1>6, Rests DEF PhaseWork, AgentStarts, ModelStarts, ModelEnds, ToolStarts, ToolEnds, AgentEnds,
     Working, storeVars
<1>7. CASE WriterFails \/ HeartbeatStops \/ LeaseExpires \/ DeadlinePasses \/ StopTask \/ Crash \/ Restart
  BY <1>7, Rests DEF WriterFails, HeartbeatStops, LeaseExpires, DeadlinePasses, StopTask, Crash,
     Restart, OnlyTask, StoreKept, storeVars
<1>8. CASE UNCHANGED vars
  BY <1>8, Rests DEF vars, storeVars
<1> QED
  BY <1>1, <1>2, <1>3, <1>4, <1>5, <1>6, <1>7, <1>8 DEF Next, Body

\* Whatever crashes, expires or is cancelled on the way, the run only makes the
\* transitions of domain/runtime.py, one checkpoint at a time, and is completed
\* after its last phase only: the safety part of ImplementsLifecycle.
THEOREM MovesAsPromised == Spec => Lifecycle!Init /\ [][Lifecycle!Next]_(Lifecycle!vars)
<1>1. Init => CoordInv
  BY CoordInit
<1>2. CoordInv /\ [Next]_vars => CoordInv'
  BY CoordNext
<1>3. Init => Lifecycle!Init
  BY DEF Init, Lifecycle!Init
<1>4. CoordInv /\ [Next]_vars => [Lifecycle!Next]_(Lifecycle!vars)
  BY LifecycleStep
<1> QED
  BY <1>1, <1>2, <1>3, <1>4, PTL DEF Spec

-----------------------------------------------------------------------------
(* What the log of a run tells of the phases, the agents, the model turns  *)
(* and the tool calls of its attempts.  What it counts grows by one event  *)
(* at a time, so that no induction over the log is needed.                 *)

LogTypes  == EventTypes \cup {"run.interrupted", "attempt.interrupted"}
LogEvents == [type : LogTypes, attempt : 1..MaxAttempts, phase : 0..NPhases]

Of(types)           == {e \in LogEvents : e.type \in types}
OfAttempt(n, types) == {e \in LogEvents : e.attempt = n /\ e.type \in types}
OfPhase(type, p)    == {e \in LogEvents : e.type = type /\ e.phase = p}
Tally(l, E)         == Cardinality({j \in DOMAIN l : l[j] \in E})
Bit(b)              == IF b THEN 1 ELSE 0

\* Events of the attempt that has the lease, and of all attempts.
Mine(types) == Tally(log, OfAttempt(lease, types))
Ever(type)  == Tally(log, Of({type}))

ToolStarted  == {"tool.started"}
ToolEnded    == {"tool.completed", "tool.failed"}
AgentStarted == {"agent.started"}
AgentEnded   == {"agent.completed", "agent.failed"}
ModelEnded   == {"model.completed", "model.failed"}
ToolRuns     == \E p \in Phases : toolRow[p] = "running"

\* k agents of the attempt that has the lease are open; at most k model turns are.
AgentsOpen(k) == Mine(AgentStarted) = Mine(AgentEnded) + k
ModelsOpen(k) == Ever("model.started") <= Ever("model.completed") + Ever("model.failed") + k

LogOK == log \in Seq(LogEvents) /\ \A i \in DOMAIN log : log[i].attempt <= Len(attempts)

PhasesLogged ==
    \A p \in Phases :
        /\ Tally(log, OfPhase("checkpoint.created", p)) = Bit(p <= done)
        /\ ~invFailed => Tally(log, OfPhase("phase.completed", p)) = Bit(p <= done)

ToolsLogged ==
    /\ \A p, q \in Phases : toolRow[p] = "running" /\ toolRow[q] = "running" => p = q
    /\ ToolRuns => status \in Leased
    /\ status \in Leased => Mine(ToolStarted) = Mine(ToolEnded) + Bit(ToolRuns)

\* ChildrenEndFirst of any log.
EndsFirst(l) ==
    \A i \in DOMAIN l :
      LET Upto(types) == Cardinality({j \in 1..i : l[j].attempt = l[i].attempt /\ l[j].type \in types})
      IN  /\ l[i].type \in AgentEnded => Upto(ToolStarted) = Upto(ToolEnded)
          /\ l[i].type = "checkpoint.created" => Upto(AgentStarted) = Upto(AgentEnded)

\* What a command of each kind writes.
EndTypes == {"attempt.completed", "run.completed", "run.failed", "run.cancelled", "phase.failed"}
Shape(c) ==
    /\ c.op = "event" => /\ c.types = <<c.types[1]>> /\ c.target = "none"
                         /\ c.types[1] \notin {"phase.completed", "checkpoint.created"}
    /\ c.op = "phase" =>
          /\ c.target \in {"none", "failed"} /\ c.phase = c.base + 1
          /\ c.types = <<IF c.target = "failed" THEN "phase.failed" ELSE "phase.completed",
                         "checkpoint.created">>
    /\ c.op = "terminal" => \A j \in DOMAIN c.types : c.types[j] \in EndTypes
    /\ c.from = "api" => c.types = <<"run.cancel_requested">>

\* A write of the attempt that has the lease, its end excepted.
Writing(c) == c.from # "api" /\ c.op # "terminal" /\ c.attempt = lease

\* What it would write is still right, whether its task waits for it or was stopped.
WriteFits(c) ==
    /\ c.types[1] = "tool.started" => c.phase \in Phases
    /\ c.types[1] \in {"tool.started"} \cup AgentEnded => ~ToolRuns
    /\ c.types[1] \in ToolEnded => c.phase \in Phases /\ toolRow[c.phase] = "running"
    /\ c.op = "phase" =>
          ~ToolRuns /\ AgentsOpen(0) /\ (invFailed /\ c.base = done => c.target = "failed")

\* The model turns of lost attempts are closed.
Settled(w) == At(w) # "reconcile" /\ (At(w) \in {"owned", "emit"} => ~w.recovery)

Live(w) == w.pc \notin Early /\ w.why = "none" /\ w.me = lease

\* What a task that works remembers of its spans is what the log will say.
LiveFits(c, w) ==
    /\ c.types[1] = "agent.started" => w.agent /\ AgentsOpen(0)
    /\ c.types[1] \in AgentEnded => ~w.agent /\ AgentsOpen(1)
    /\ c.types[1] \notin {"agent.started"} \cup AgentEnded => AgentsOpen(Bit(w.agent))
    /\ c.types[1] = "tool.started" => w.agent /\ c.phase = w.phase
    /\ Settled(w) =>
          /\ c.types[1] = "model.started" => w.model /\ ModelsOpen(0)
          /\ c.types[1] \in ModelEnded => ~w.model /\ ModelsOpen(1)
          /\ c.types[1] \notin {"model.started"} \cup ModelEnded => ModelsOpen(Bit(w.model))

SpansOK(w) ==
    /\ At(w) \notin InBody => ~w.agent
    /\ At(w) \notin InBody \ {"executed", "merge"} => ~w.model
    /\ At(w) \in {"executed", "merge"} /\ invFailed => w.failedPhase
    /\ w.pc = "complete" => ~invFailed
    /\ ToolRuns => w.agent /\ toolRow[w.phase] = "running"
    /\ w.pc # "sent" => AgentsOpen(Bit(w.agent)) /\ (Settled(w) => ModelsOpen(Bit(w.model)))

TaskFits(w) ==
    /\ w.pc \in Early => ~w.agent /\ ~w.model
    /\ Live(w) => SpansOK(w)

Whole == ~invFailed /\ ModelsOpen(0)

QueueFits(q, w) ==
    /\ \A i \in DOMAIN q : Shape(q[i])
    /\ \A i, j \in DOMAIN q : Writing(q[i]) /\ Writing(q[j]) => i = j
    /\ \A i \in DOMAIN q : Writing(q[i]) =>
          WriteFits(q[i]) /\ (Live(w) => q[i].from = "worker" /\ LiveFits(q[i], w))
    /\ \A i \in DOMAIN q : q[i].target = "completed" /\ q[i].attempt = lease =>
          /\ Whole /\ (Live(w) => q[i].from = "worker")
          /\ \A j \in DOMAIN q : ~Writing(q[j])

EndWhole == status = "completed" => done = NPhases /\ Whole

WholeInv ==
    /\ LogOK /\ PhasesLogged /\ ToolsLogged /\ EndsFirst(log)
    /\ TaskFits(worker) /\ QueueFits(queue, worker) /\ EndWhole

-----------------------------------------------------------------------------
(* Tallies *)

LEMMA TallyNat == ASSUME NEW S, NEW l \in Seq(S), NEW E PROVE Tally(l, E) \in Nat
<1>1. Len(l) \in Nat /\ DOMAIN l = 1..Len(l)
  OBVIOUS
<1>2. IsFiniteSet(1..Len(l))
  BY <1>1, FS_Interval
<1>3. IsFiniteSet({j \in DOMAIN l : l[j] \in E})
  BY <1>1, <1>2, FS_Subset
<1> QED
  BY <1>3, FS_CardinalityType DEF Tally

\* One more event counts once.
LEMMA TallyAppend ==
    ASSUME NEW S, NEW l \in Seq(S), NEW x \in S, NEW E
    PROVE  Tally(Append(l, x), E) = Tally(l, E) + Bit(x \in E)
<1>1. PICK m : m = Append(l, x)
  OBVIOUS
<1>2. Len(l) \in Nat /\ DOMAIN l = 1..Len(l) /\ m \in Seq(S) /\ DOMAIN m = 1..(Len(l) + 1)
  BY <1>1
<1>3. \A j \in DOMAIN l : m[j] = l[j]
  BY <1>1, <1>2
<1>4. m[Len(l) + 1] = x
  BY <1>1
<1> DEFINE A == {j \in DOMAIN l : l[j] \in E}
           B == {j \in DOMAIN m : m[j] \in E}
<1>5. IsFiniteSet(A) /\ Cardinality(A) \in Nat
  <2>1. IsFiniteSet(1..Len(l))
    BY <1>2, FS_Interval
  <2>2. IsFiniteSet(A)
    BY <1>2, <2>1, FS_Subset
  <2> QED
    BY <2>2, FS_CardinalityType
<1>6. CASE x \in E
  <2>1. B = A \cup {Len(l) + 1} /\ Len(l) + 1 \notin A
    BY <1>2, <1>3, <1>4, <1>6
  <2>2. Cardinality(B) = Cardinality(A) + 1
    BY <1>5, <2>1, FS_AddElement
  <2> QED
    BY <1>1, <1>6, <2>2 DEF Tally, Bit
<1>7. CASE x \notin E
  <2>1. B = A
    BY <1>2, <1>3, <1>4, <1>7
  <2> HIDE DEF A, B
  <2>2. Cardinality(B) = Cardinality(A) + 0
    BY <1>5, <2>1
  <2> QED
    BY <1>1, <1>7, <2>2 DEF Tally, Bit, A, B
<1> QED
  BY <1>6, <1>7

\* A longer log, the added events of which are not counted.
Extends(m, l, E) ==
    /\ Len(m) >= Len(l)
    /\ \A j \in DOMAIN l : m[j] = l[j]
    /\ \A j \in DOMAIN m : j > Len(l) => m[j] \notin E

LEMMA TallySame ==
    ASSUME NEW S, NEW l \in Seq(S), NEW m \in Seq(S), NEW E, Extends(m, l, E)
    PROVE  Tally(m, E) = Tally(l, E)
<1>1. /\ Len(l) \in Nat /\ DOMAIN l = 1..Len(l)
      /\ Len(m) \in Nat /\ DOMAIN m = 1..Len(m)
  OBVIOUS
<1>2. {j \in DOMAIN m : m[j] \in E} = {j \in DOMAIN l : l[j] \in E}
  BY <1>1 DEF Extends
<1> QED
  BY <1>2 DEF Tally

\* Nothing is counted of an attempt that wrote nothing.
LEMMA TallyNone ==
    ASSUME NEW S, NEW l \in Seq(S), NEW E, \A j \in DOMAIN l : l[j] \notin E
    PROVE  Tally(l, E) = 0
<1>1. {j \in DOMAIN l : l[j] \in E} = {}
  OBVIOUS
<1> QED
  BY <1>1, FS_EmptySet DEF Tally

\* Appended events that end no agent and make no checkpoint cannot come too early.
LEMMA EndsFirstKept ==
    ASSUME NEW l \in Seq(LogEvents), EndsFirst(l), NEW m \in Seq(LogEvents),
           Extends(m, l, Of(AgentEnded \cup {"checkpoint.created"}))
    PROVE  EndsFirst(m)
<1>1. /\ Len(l) \in Nat /\ DOMAIN l = 1..Len(l)
      /\ Len(m) \in Nat /\ DOMAIN m = 1..Len(m)
  OBVIOUS
<1> SUFFICES ASSUME NEW i \in DOMAIN m, m[i].type \in AgentEnded \cup {"checkpoint.created"}
             PROVE  /\ m[i].type \in AgentEnded =>
                         Cardinality({j \in 1..i : m[j].attempt = m[i].attempt /\ m[j].type \in ToolStarted})
                         = Cardinality({j \in 1..i : m[j].attempt = m[i].attempt /\ m[j].type \in ToolEnded})
                    /\ m[i].type = "checkpoint.created" =>
                         Cardinality({j \in 1..i : m[j].attempt = m[i].attempt /\ m[j].type \in AgentStarted})
                         = Cardinality({j \in 1..i : m[j].attempt = m[i].attempt /\ m[j].type \in AgentEnded})
  BY DEF EndsFirst
<1>2. m[i] \in LogEvents
  BY <1>1
<1>3. i \in DOMAIN l /\ m[i] = l[i]
  BY <1>1, <1>2 DEF Extends, Of
<1>4. ASSUME NEW types
      PROVE  {j \in 1..i : m[j].attempt = m[i].attempt /\ m[j].type \in types}
             = {j \in 1..i : l[j].attempt = l[i].attempt /\ l[j].type \in types}
  BY <1>1, <1>3 DEF Extends
<1> QED
  BY <1>3, <1>4 DEF EndsFirst

\* An agent's end or a checkpoint is appended after what belongs to it has ended.
LEMMA EndsFirstAppend ==
    ASSUME NEW l \in Seq(LogEvents), EndsFirst(l), NEW e \in LogEvents,
           e.type \in AgentEnded =>
               Tally(l, OfAttempt(e.attempt, ToolStarted)) = Tally(l, OfAttempt(e.attempt, ToolEnded)),
           e.type = "checkpoint.created" =>
               Tally(l, OfAttempt(e.attempt, AgentStarted)) = Tally(l, OfAttempt(e.attempt, AgentEnded))
    PROVE  EndsFirst(Append(l, e))
<1>1. PICK m : m = Append(l, e)
  OBVIOUS
<1>2. /\ Len(l) \in Nat /\ DOMAIN l = 1..Len(l)
      /\ m \in Seq(LogEvents) /\ DOMAIN m = 1..(Len(l) + 1)
  BY <1>1
<1>3. \A j \in DOMAIN l : m[j] = l[j]
  BY <1>1, <1>2
<1>4. m[Len(l) + 1] = e
  BY <1>1
<1> SUFFICES EndsFirst(m)
  BY <1>1
<1> SUFFICES ASSUME NEW i \in DOMAIN m
             PROVE  /\ m[i].type \in AgentEnded =>
                         Cardinality({j \in 1..i : m[j].attempt = m[i].attempt /\ m[j].type \in ToolStarted})
                         = Cardinality({j \in 1..i : m[j].attempt = m[i].attempt /\ m[j].type \in ToolEnded})
                    /\ m[i].type = "checkpoint.created" =>
                         Cardinality({j \in 1..i : m[j].attempt = m[i].attempt /\ m[j].type \in AgentStarted})
                         = Cardinality({j \in 1..i : m[j].attempt = m[i].attempt /\ m[j].type \in AgentEnded})
  BY DEF EndsFirst
<1>5. CASE i \in DOMAIN l
  <2>1. m[i] = l[i]
    BY <1>3, <1>5
  <2>2. ASSUME NEW types
        PROVE  {j \in 1..i : m[j].attempt = m[i].attempt /\ m[j].type \in types}
               = {j \in 1..i : l[j].attempt = l[i].attempt /\ l[j].type \in types}
    BY <1>2, <1>3, <1>5, <2>1
  <2> QED
    BY <1>5, <2>1, <2>2 DEF EndsFirst
<1>6. CASE i = Len(l) + 1
  <2>1. m[i] = e /\ 1..i = DOMAIN m
    BY <1>2, <1>4, <1>6
  <2>2. ASSUME NEW types
        PROVE  Cardinality({j \in 1..i : m[j].attempt = m[i].attempt /\ m[j].type \in types})
               = Tally(m, OfAttempt(e.attempt, types))
    <3>1. \A j \in DOMAIN m : m[j] \in LogEvents
      BY <1>2
    <3>2. {j \in 1..i : m[j].attempt = m[i].attempt /\ m[j].type \in types}
          = {j \in DOMAIN m : m[j] \in OfAttempt(e.attempt, types)}
      BY <2>1, <3>1 DEF OfAttempt
    <3> QED
      BY <3>2 DEF Tally
  <2>3. ASSUME NEW types, e.type \notin types
        PROVE  Tally(m, OfAttempt(e.attempt, types)) = Tally(l, OfAttempt(e.attempt, types))
    <3>1. e \notin OfAttempt(e.attempt, types)
      BY <2>3 DEF OfAttempt
    <3>2. Tally(l, OfAttempt(e.attempt, types)) \in Nat
      BY TallyNat
    <3>3. Tally(m, OfAttempt(e.attempt, types)) = Tally(l, OfAttempt(e.attempt, types)) + 0
      BY <1>1, <3>1, TallyAppend DEF Bit
    <3> QED
      BY <3>2, <3>3
  <2>4. CASE e.type \in AgentEnded
    <3>1. e.type \notin ToolStarted /\ e.type \notin ToolEnded /\ e.type # "checkpoint.created"
      BY <2>4 DEF AgentEnded, ToolStarted, ToolEnded
    <3>2. Tally(m, OfAttempt(e.attempt, ToolStarted)) = Tally(m, OfAttempt(e.attempt, ToolEnded))
      BY <2>3, <2>4, <3>1
    <3> QED
      BY <2>1, <2>2, <3>1, <3>2
  <2>5. CASE e.type = "checkpoint.created"
    <3>1. e.type \notin AgentStarted /\ e.type \notin AgentEnded
      BY <2>5 DEF AgentEnded, AgentStarted
    <3>2. Tally(m, OfAttempt(e.attempt, AgentStarted)) = Tally(m, OfAttempt(e.attempt, AgentEnded))
      BY <2>3, <2>5, <3>1
    <3> QED
      BY <2>1, <2>2, <3>1, <3>2
  <2> QED
    BY <2>1, <2>4, <2>5
<1>7. i \in DOMAIN l \/ i = Len(l) + 1
  BY <1>2
<1> QED
  BY <1>5, <1>6, <1>7

-----------------------------------------------------------------------------
(* What the counts become *)

LEMMA CountsNat ==
    ASSUME log \in Seq(LogEvents)
    PROVE  (\A types : Mine(types) \in Nat) /\ (\A type : Ever(type) \in Nat)
BY TallyNat DEF Mine, Ever

\* An event of the attempt that has the lease is counted where it belongs.
LEMMA Noted ==
    ASSUME log \in Seq(LogEvents), NEW e \in LogEvents, log' = Append(log, e),
           lease' = lease, e.attempt = lease
    PROVE  /\ \A types : Mine(types)' = Mine(types) + Bit(e.type \in types)
           /\ \A type : Ever(type)' = Ever(type) + Bit(e.type = type)
           /\ \A type, p : Tally(log', OfPhase(type, p))
                           = Tally(log, OfPhase(type, p)) + Bit(e.type = type /\ e.phase = p)
<1>1. \A E : Tally(log', E) = Tally(log, E) + Bit(e \in E)
  BY TallyAppend
<1>2. \A types : Mine(types)' = Mine(types) + Bit(e.type \in types)
  <2>1. \A types : e \in OfAttempt(lease, types) <=> e.type \in types
    BY DEF OfAttempt
  <2>2. \A types : Mine(types)' = Tally(log', OfAttempt(lease, types))
    BY DEF Mine, OfAttempt
  <2> QED
    BY <1>1, <2>1, <2>2 DEF Mine, Bit
<1>3. \A type : Ever(type)' = Ever(type) + Bit(e.type = type)
  <2>1. \A type : e \in Of({type}) <=> e.type = type
    BY DEF Of
  <2> QED
    BY <1>1, <2>1 DEF Ever, Bit
<1>4. \A type, p : e \in OfPhase(type, p) <=> e.type = type /\ e.phase = p
  BY DEF OfPhase
<1> QED
  BY <1>1, <1>2, <1>3, <1>4 DEF Bit

\* Nothing that a task or the queue is measured against moves.
Same ==
    /\ UNCHANGED <<done, invFailed, toolRow, lease>>
    /\ \A types \in {ToolStarted, ToolEnded, AgentStarted, AgentEnded} : Mine(types)' = Mine(types)
    /\ \A type \in {"model.started"} \cup ModelEnded : Ever(type)' = Ever(type)

LEMMA LogSame == ASSUME UNCHANGED <<done, invFailed, toolRow, lease, log>> PROVE Same
BY DEF Same, Mine, Ever

LEMMA SameOpens ==
    ASSUME Same
    PROVE  /\ \A k : AgentsOpen(k)' = AgentsOpen(k)
           /\ \A k : ModelsOpen(k)' = ModelsOpen(k)
           /\ ToolRuns' = ToolRuns /\ Whole' = Whole
<1>1. \A k : AgentsOpen(k)' = AgentsOpen(k)
  BY DEF Same, AgentsOpen
<1>2. \A k : ModelsOpen(k)' = ModelsOpen(k)
  BY DEF Same, ModelsOpen, ModelEnded
<1> QED
  BY <1>1, <1>2 DEF Same, ToolRuns, Whole

LEMMA SameFits ==
    ASSUME Same, NEW w, NEW q
    PROVE  /\ TaskFits(w) => TaskFits(w)'
           /\ QueueFits(q, w) => QueueFits(q, w)'
<1>1. Live(w)' = Live(w) /\ Settled(w)' = Settled(w)
  BY DEF Same, Live, Settled, At
<1>2. SpansOK(w)' = SpansOK(w)
  BY <1>1, SameOpens DEF Same, SpansOK, At, Bit
<1>3. ASSUME NEW c
      PROVE  /\ Writing(c)' = Writing(c) /\ Shape(c)' = Shape(c)
             /\ WriteFits(c)' = WriteFits(c) /\ LiveFits(c, w)' = LiveFits(c, w)
  <2>1. Writing(c)' = Writing(c) /\ Shape(c)' = Shape(c)
    BY DEF Same, Writing, Shape
  <2>2. WriteFits(c)' = WriteFits(c)
    BY SameOpens DEF Same, WriteFits
  <2>3. LiveFits(c, w)' = LiveFits(c, w)
    BY <1>1, SameOpens DEF LiveFits, Bit
  <2> QED
    BY <2>1, <2>2, <2>3
<1>4. TaskFits(w) => TaskFits(w)'
  BY <1>1, <1>2 DEF TaskFits
<1>5. QueueFits(q, w) => QueueFits(q, w)'
  BY <1>1, <1>3, SameOpens DEF QueueFits, Same
<1> QED
  BY <1>4, <1>5

\* A step that moves neither the log nor what is measured by it.
LEMMA WholeKept ==
    ASSUME WholeInv, UNCHANGED <<done, invFailed, toolRow, lease, log, attempts>>,
           status' \in Leased <=> status \in Leased, status' = "completed" => status = "completed",
           NEW w, worker' = w, TaskFits(w), NEW q, queue' = q, QueueFits(q, w)
    PROVE  WholeInv'
<1>1. Same
  BY LogSame
<1>2. TaskFits(worker)' /\ QueueFits(queue, worker)'
  <2>1. TaskFits(w)' /\ QueueFits(q, w)'
    BY <1>1, SameFits
  <2> QED
    BY <2>1
<1>3. LogOK' /\ EndsFirst(log)'
  <2>1. LogOK'
    BY DEF WholeInv, LogOK
  <2>2. PICK l : l = log /\ EndsFirst(l)
    BY DEF WholeInv
  <2> QED
    BY <2>1, <2>2
<1>4. PhasesLogged'
  BY DEF WholeInv, PhasesLogged
<1>5. ToolsLogged'
  <2>1. ToolRuns' = ToolRuns
    BY <1>1, SameOpens
  <2>2. Mine(ToolStarted)' = Mine(ToolStarted) /\ Mine(ToolEnded)' = Mine(ToolEnded)
    BY <1>1 DEF Same
  <2>3. /\ \A p, q2 \in Phases : toolRow'[p] = "running" /\ toolRow'[q2] = "running" => p = q2
        /\ ToolRuns' => status' \in Leased
    BY <2>1 DEF WholeInv, ToolsLogged
  <2>4. status' \in Leased => Mine(ToolStarted)' = Mine(ToolEnded)' + Bit(ToolRuns')
    BY <2>1, <2>2 DEF WholeInv, ToolsLogged, Bit
  <2> QED
    BY <2>3, <2>4 DEF ToolsLogged, Bit
<1>6. EndWhole'
  <2>1. Whole' = Whole
    BY <1>1, SameOpens
  <2> QED
    BY <2>1 DEF WholeInv, EndWhole
<1> QED
  BY <1>2, <1>3, <1>4, <1>5, <1>6 DEF WholeInv

-----------------------------------------------------------------------------
(* The queue under the steps of the task *)

LEMMA QueueForIdle ==
    ASSUME NEW q, NEW v, QueueFits(q, v), NEW w, ~Live(w)
    PROVE  QueueFits(q, w)
BY DEF QueueFits

\* While the task awaits nothing, no write of a task that works is on its way.
LEMMA QueueGoes ==
    ASSUME NEW q, NEW v, QueueFits(q, v), \A i \in DOMAIN q : q[i].from # "worker",
           NEW w, Live(w) => Live(v)
    PROVE  /\ QueueFits(q, w)
           /\ Live(v) => \A i \in DOMAIN q : ~Writing(q[i]) /\ ~(q[i].target = "completed" /\ q[i].attempt = lease)
BY DEF QueueFits

\* The queue without its head.
LEMMA QueueShifts ==
    ASSUME NEW S, NEW q \in Seq(S), q # <<>>, NEW w, QueueFits(q, w)
    PROVE  QueueFits(Tail(q), w)
<1>1. PICK t : t = Tail(q)
  OBVIOUS
<1>2. \A i \in DOMAIN t : i + 1 \in DOMAIN q /\ t[i] = q[i + 1] /\ i \in Nat
  BY <1>1
<1>3. \A i \in DOMAIN t : Shape(t[i])
  BY <1>2 DEF QueueFits
<1>4. ASSUME NEW i \in DOMAIN t, NEW j \in DOMAIN t, Writing(t[i]), Writing(t[j])
      PROVE  i = j
  <2>1. i + 1 = j + 1
    BY <1>2, <1>4 DEF QueueFits
  <2> QED
    BY <1>2, <2>1
<1>5. ASSUME NEW i \in DOMAIN t, Writing(t[i])
      PROVE  WriteFits(t[i]) /\ (Live(w) => t[i].from = "worker" /\ LiveFits(t[i], w))
  BY <1>2, <1>5 DEF QueueFits
<1>6. ASSUME NEW i \in DOMAIN t, t[i].target = "completed", t[i].attempt = lease
      PROVE  /\ Whole /\ (Live(w) => t[i].from = "worker")
             /\ \A j \in DOMAIN t : ~Writing(t[j])
  BY <1>2, <1>6 DEF QueueFits
<1>7. QueueFits(t, w)
  BY <1>3, <1>4, <1>5, <1>6 DEF QueueFits
<1> QED
  BY <1>1, <1>7

\* The command a task puts, and what it relies on.
SendFits(c, w, v) ==
    /\ Shape(c) /\ c.from = "worker"
    /\ Writing(c) => Live(v) /\ WriteFits(c) /\ LiveFits(c, w)
    /\ c.target = "completed" => c.op = "terminal" /\ (c.attempt = lease => Whole /\ Live(v))

LEMMA QueueSends ==
    ASSUME NEW q \in Seq(Commands), NEW v, QueueFits(q, v), \A i \in DOMAIN q : q[i].from # "worker",
           NEW w, Live(w) => Live(v), NEW c \in Commands, SendFits(c, w, v)
    PROVE  QueueFits(Append(q, c), w)
<1>1. PICK t : t = Append(q, c)
  OBVIOUS
<1>2. \A i \in DOMAIN t : (i = Len(q) + 1 /\ t[i] = c) \/ (i \in DOMAIN q /\ t[i] = q[i])
  BY <1>1, Appended
<1>3. QueueFits(q, w)
  BY QueueGoes
<1>4. Live(v) => \A i \in DOMAIN q : ~Writing(q[i]) /\ ~(q[i].target = "completed" /\ q[i].attempt = lease)
  BY QueueGoes
<1>5. \A i \in DOMAIN t : Shape(t[i])
  BY <1>2, <1>3 DEF QueueFits, SendFits
<1>6. \A i, j \in DOMAIN t : Writing(t[i]) /\ Writing(t[j]) => i = j
  BY <1>2, <1>3, <1>4 DEF QueueFits, SendFits
<1>7. ASSUME NEW i \in DOMAIN t, Writing(t[i])
      PROVE  WriteFits(t[i]) /\ (Live(w) => t[i].from = "worker" /\ LiveFits(t[i], w))
  BY <1>2, <1>3, <1>7 DEF QueueFits, SendFits
<1>8. ASSUME NEW i \in DOMAIN t, t[i].target = "completed", t[i].attempt = lease
      PROVE  /\ Whole /\ (Live(w) => t[i].from = "worker")
             /\ \A j \in DOMAIN t : ~Writing(t[j])
  <2>1. CASE t[i] = c
    <3>1. ~Writing(c) /\ Whole /\ Live(v) /\ c.from = "worker"
      BY <1>8, <2>1 DEF SendFits, Writing
    <3> QED
      BY <1>2, <1>4, <2>1, <3>1
  <2>2. CASE i \in DOMAIN q /\ t[i] = q[i]
    <3>1. Whole /\ ~Live(v) /\ \A j \in DOMAIN q : ~Writing(q[j])
      BY <1>3, <1>4, <1>8, <2>2 DEF QueueFits
    <3>2. ~Writing(c)
      BY <3>1 DEF SendFits
    <3> QED
      BY <1>2, <3>1, <3>2
  <2> QED
    BY <1>2, <2>1, <2>2
<1>9. QueueFits(t, w)
  BY <1>5, <1>6, <1>7, <1>8 DEF QueueFits
<1> QED
  BY <1>1, <1>9

-----------------------------------------------------------------------------
(* The log under the steps of the task, which leave the store as it is *)

LEMMA WholeGoes ==
    ASSUME CoordInv, WholeInv, UNCHANGED storeVars, worker.pc # "sent", UNCHANGED queue,
           NEW w, worker' = w, TaskFits(w), Live(w) => Live(worker)
    PROVE  WholeInv'
<1>1. UNCHANGED <<status, done, invFailed, toolRow, lease, log, attempts>>
  BY DEF storeVars
<1>2. PICK q : q = queue /\ \A i \in DOMAIN q : q[i].from # "worker"
  BY NobodyWaits DEF CoordInv
<1>3. QueueFits(q, w)
  BY <1>2, QueueGoes DEF WholeInv
<1> QED
  BY <1>1, <1>2, <1>3, WholeKept

\* A task that has given up, and none at all, tells nothing of the log.
LEMMA WholeQuits ==
    ASSUME CoordInv, WholeInv, UNCHANGED storeVars, worker.pc # "sent", UNCHANGED queue,
           NEW w, worker' = w, w.why # "none" \/ w.pc \in Early,
           w.pc \in Early => ~w.agent /\ ~w.model
    PROVE  WholeInv'
<1>1. ~Live(w)
  BY DEF Live
<1>2. TaskFits(w)
  BY <1>1 DEF TaskFits
<1> QED
  BY <1>1, <1>2, WholeGoes

LEMMA WholeRaises ==
    ASSUME CoordInv, WholeInv, UNCHANGED storeVars, worker.pc # "sent", UNCHANGED queue,
           NEW why \in Reason \ {"none"}, NEW phase, worker' = [Raise(why) EXCEPT !.phase = phase]
    PROVE  WholeInv'
<1>1. worker \in Worker
  BY DEF CoordInv, TaskOK
<1>2. PICK w : w = [Raise(why) EXCEPT !.phase = phase]
  OBVIOUS
<1>3. w.why = why /\ w.pc = "except"
  BY <1>1, <1>2 DEF Raise, Worker
<1> QED
  BY <1>2, <1>3, WholeQuits DEF Early

LEMMA WholeRaisesHere ==
    ASSUME CoordInv, WholeInv, UNCHANGED storeVars, worker.pc # "sent", UNCHANGED queue,
           NEW why \in Reason \ {"none"}, worker' = Raise(why)
    PROVE  WholeInv'
<1>1. worker \in Worker
  BY DEF CoordInv, TaskOK
<1>2. PICK w : w = Raise(why)
  OBVIOUS
<1>3. w.why = why /\ w.pc = "except"
  BY <1>1, <1>2 DEF Raise, Worker
<1> QED
  BY <1>2, <1>3, WholeQuits DEF Early

LEMMA WholeFound ==
    ASSUME CoordInv, WholeInv, UNCHANGED storeVars, worker.pc # "sent", UNCHANGED queue,
           CheckExecution # "none", worker' = Raise(CheckExecution)
    PROVE  WholeInv'
<1>1. PICK why : why = CheckExecution
  OBVIOUS
<1>2. why \in Reason \ {"none"}
  BY <1>1, Found DEF CoordInv, Reason
<1> QED
  BY <1>1, <1>2, WholeRaisesHere

LEMMA WholeSends ==
    ASSUME CoordInv, WholeInv, UNCHANGED storeVars, worker.pc # "sent",
           NEW w, worker' = w, TaskFits(w), Live(w) => Live(worker),
           NEW c \in Commands, Put(c), SendFits(c, w, worker)
    PROVE  WholeInv'
<1>1. UNCHANGED <<status, done, invFailed, toolRow, lease, log, attempts>>
  BY DEF storeVars
<1>2. PICK q : q = queue /\ q \in Seq(Commands) /\ \A i \in DOMAIN q : q[i].from # "worker"
  BY NobodyWaits DEF CoordInv, QueueOK
<1>3. QueueFits(Append(q, c), w)
  BY <1>2, QueueSends DEF WholeInv
<1>4. PICK r : r = Append(q, c) /\ QueueFits(r, w) /\ queue' = r
  BY <1>2, <1>3 DEF Put
<1> QED
  BY <1>1, <1>4, WholeKept

\* A task that writes an event.
LEMMA WholeWrites ==
    ASSUME CoordInv, WholeInv, UNCHANGED storeVars, worker.pc \notin Early \cup {"sent"}, worker.why = "none",
           NEW w, worker' = w, w.pc = "sent", w.me = worker.me, w.why = "none",
           NEW phase \in 0..NPhases, NEW type \in EventTypes \ {"phase.completed", "checkpoint.created"},
           NEW c, c = EventCommand(worker.me, phase, type), Put(c),
           Live(worker) => SpansOK(w) /\ WriteFits(c) /\ LiveFits(c, w)
    PROVE  WholeInv'
<1>1. worker.me \in 1..MaxAttempts
  BY DEF CoordInv, TaskOK, Worker, StoreOK
<1>2. <<type>> \in Seq(EventTypes)
  OBVIOUS
<1>3. /\ c \in Commands /\ c.op = "event" /\ c.attempt = worker.me /\ c.target = "none"
      /\ c.from = "worker" /\ c.types = <<type>>
  BY <1>1, <1>2, CoordinatorAssumption DEF EventCommand, Command, Commands, Category
<1>4. Live(w) <=> Live(worker)
  BY DEF Live, Early
<1>5. TaskFits(w)
  BY <1>4 DEF TaskFits, Early
<1>6. Writing(c) => Live(worker)
  BY <1>3 DEF Writing, Live
<1>7. Shape(c)
  BY <1>3 DEF Shape
<1>8. SendFits(c, w, worker)
  BY <1>3, <1>6, <1>7 DEF SendFits
<1> QED
  BY <1>3, <1>4, <1>5, <1>8, WholeSends

-----------------------------------------------------------------------------
(* The actions of the task, again *)

LEMMA OnlyTaskStore == OnlyTask => UNCHANGED storeVars
BY DEF OnlyTask, StoreKept

LEMMA NoSpans == NoTask.pc \in Early /\ ~NoTask.agent /\ ~NoTask.model
BY DEF NoTask, Early

LEMMA ManagerWhole ==
    ASSUME CoordInv, WholeInv, ManagerStart \/ ManagerResume \/ ResumeChecks
    PROVE  WholeInv'
<1>1. UNCHANGED storeVars /\ UNCHANGED queue /\ worker \in Worker
  BY OnlyTaskStore DEF ManagerStart, ManagerResume, ResumeChecks, NoSend, CoordInv, TaskOK
<1>2. worker.pc \in Early /\ ~worker.agent /\ ~worker.model
  BY DEF ManagerStart, ManagerResume, ResumeChecks, Early, WholeInv, TaskFits
<1>3. CASE ManagerStart
  <2>1. PICK w : w = [NoTask EXCEPT !.pc = "starting"]
    OBVIOUS
  <2>2. w.pc \in Early /\ ~w.agent /\ ~w.model
    BY <2>1 DEF NoTask, Early
  <2> QED
    BY <1>1, <1>2, <1>3, <2>1, <2>2, WholeQuits DEF ManagerStart, Early
<1>4. CASE ManagerResume
  <2>1. PICK w : w = [NoTask EXCEPT !.pc = "resuming", !.recovery = TRUE]
    OBVIOUS
  <2>2. w.pc \in Early /\ ~w.agent /\ ~w.model
    BY <2>1 DEF NoTask, Early
  <2> QED
    BY <1>1, <1>2, <1>4, <2>1, <2>2, WholeQuits DEF ManagerResume, Early
<1>5. CASE ResumeChecks
  <2>1. PICK w : w = IF status = "interrupted" THEN Goto("checked") ELSE NoTask
    OBVIOUS
  <2>2. w.pc \in Early /\ ~w.agent /\ ~w.model
    BY <1>1, <1>2, <2>1, NoSpans DEF Goto, Early, Worker
  <2> QED
    BY <1>1, <1>2, <1>5, <2>1, <2>2, WholeQuits DEF ResumeChecks, Early
<1> QED
  BY <1>3, <1>4, <1>5

LEMMA RegisterWhole == ASSUME CoordInv, WholeInv, Register PROVE WholeInv'
<1>1. UNCHANGED storeVars /\ UNCHANGED queue /\ worker.pc = "owned" /\ worker \in Worker
  BY DEF Register, StoreKept, NoSend, CoordInv, TaskOK
<1>2. CASE CheckExecution # "none"
  BY <1>1, <1>2, WholeFound DEF Register
<1>3. CASE CheckExecution = "none"
  <2>1. PICK w : w = [worker EXCEPT !.pc = "emit", !.todo = StartEvents(worker.recovery)]
    OBVIOUS
  <2>2. /\ w.pc = "emit" /\ w.me = worker.me /\ w.why = worker.why /\ w.recovery = worker.recovery
        /\ w.agent = worker.agent /\ w.model = worker.model /\ w.phase = worker.phase
    BY <1>1, <2>1 DEF Worker
  <2>3. Live(w) <=> Live(worker)
    BY <1>1, <2>2 DEF Live, Early
  <2>4. SpansOK(worker) => SpansOK(w)
    BY <1>1, <2>2 DEF SpansOK, At, InBody, Settled
  <2>5. TaskFits(w)
    BY <2>2, <2>3, <2>4 DEF WholeInv, TaskFits, Early
  <2> QED
    BY <1>1, <1>3, <2>1, <2>3, <2>5, WholeGoes DEF Register
<1> QED
  BY <1>2, <1>3

LEMMA ExitWhole == ASSUME CoordInv, WholeInv, Exit PROVE WholeInv'
BY NoSpans, WholeQuits DEF Exit, StoreKept, NoSend

LEMMA EmitWhole == ASSUME CoordInv, WholeInv, Emit PROVE WholeInv'
<1>1. /\ UNCHANGED storeVars /\ worker.pc = "emit" /\ worker \in Worker /\ worker.todo \in Seq(StartTypes)
      /\ worker.why = "none"
  BY OnlyTaskStore DEF Emit, CoordInv, TaskOK, Worker, At
<1>2. CASE worker.todo = <<>>
  <2>1. PICK w : w = [worker EXCEPT !.pc = IF worker.recovery THEN "reconcile" ELSE "loop",
                                    !.phase = done]
    OBVIOUS
  <2>2. /\ w.pc = IF worker.recovery THEN "reconcile" ELSE "loop"
        /\ w.me = worker.me /\ w.why = worker.why /\ w.recovery = worker.recovery
        /\ w.agent = worker.agent /\ w.model = worker.model
    BY <1>1, <2>1 DEF Worker
  <2>3. Live(w) <=> Live(worker)
    BY <1>1, <2>2 DEF Live, Early
  <2>4. SpansOK(worker) => SpansOK(w)
    BY <1>1, <2>2 DEF SpansOK, At, InBody, Settled
  <2>5. TaskFits(w)
    BY <2>2, <2>3, <2>4 DEF WholeInv, TaskFits, Early
  <2> QED
    BY <1>1, <1>2, <2>1, <2>3, <2>5, WholeGoes DEF Emit, NoSend
<1>3. CASE worker.todo # <<>>
  <2>1. PICK w : w = [worker EXCEPT !.pc = "sent", !.next = "emit", !.todo = Tail(@)]
    OBVIOUS
  <2>2. PICK type : type = Head(worker.todo) /\ type \in StartTypes
    <3>1. PICK t : t = worker.todo
      OBVIOUS
    <3>2. Head(t) \in StartTypes
      BY <1>1, <1>3, <3>1, Taken
    <3> QED
      BY <3>1, <3>2
  <2>3. /\ w.pc = "sent" /\ w.next = "emit"
        /\ w.me = worker.me /\ w.why = worker.why /\ w.recovery = worker.recovery
        /\ w.agent = worker.agent /\ w.model = worker.model /\ w.phase = worker.phase
    BY <1>1, <2>1 DEF Worker
  <2>4. PICK c : c = EventCommand(worker.me, 0, type)
    OBVIOUS
  <2>5. c.types[1] = type /\ c.op = "event"
    BY <2>4 DEF EventCommand, Command
  <2>6. SpansOK(worker) => SpansOK(w) /\ WriteFits(c) /\ LiveFits(c, w)
    <3>1. SpansOK(worker) => SpansOK(w)
      BY <1>1, <2>3 DEF SpansOK, At, InBody
    <3>2. WriteFits(c)
      BY <2>2, <2>5 DEF WriteFits, StartTypes, AgentEnded, ToolEnded
    <3>3. SpansOK(worker) => LiveFits(c, w)
      BY <1>1, <2>2, <2>3, <2>5 DEF LiveFits, SpansOK, StartTypes, AgentEnded, ModelEnded, Settled, At
    <3> QED
      BY <3>1, <3>2, <3>3
  <2>7. type \in EventTypes \ {"phase.completed", "checkpoint.created"} /\ 0 \in 0..NPhases
    BY <2>2, CoordinatorAssumption DEF EventTypes, StartTypes
  <2>8. worker' = w /\ Put(c)
    BY <1>3, <2>1, <2>2, <2>4 DEF Emit
  <2> QED
    BY <1>1, <2>3, <2>4, <2>6, <2>7, <2>8, WholeWrites DEF WholeInv, TaskFits, Early
<1> QED
  BY <1>2, <1>3

LEMMA CountIsEver == ASSUME log \in Seq(LogEvents) PROVE \A type : Count(type) = Ever(type)
<1> SUFFICES ASSUME NEW type PROVE Count(type) = Ever(type)
  OBVIOUS
<1>1. \A i \in DOMAIN log : log[i] \in LogEvents
  OBVIOUS
<1>2. {i \in DOMAIN log : log[i].type = type} = {j \in DOMAIN log : log[j] \in Of({type})}
  BY <1>1 DEF Of
<1> QED
  BY <1>2 DEF Count, Ever, Tally

\* Without a reservation that is open there is no open model turn.
LEMMA NoneReserved == ASSUME log \in Seq(LogEvents), ~Reserved PROVE ModelsOpen(0)
<1>1. /\ Ever("model.started") \in Nat /\ Ever("model.completed") \in Nat /\ Ever("model.failed") \in Nat
      /\ ~(Ever("model.started") > Ever("model.completed") + Ever("model.failed"))
  BY CountsNat, CountIsEver DEF Reserved
<1> QED
  BY <1>1 DEF ModelsOpen

LEMMA ReconcileWhole == ASSUME CoordInv, WholeInv, Reconcile PROVE WholeInv'
<1>1. /\ UNCHANGED storeVars /\ worker.pc = "reconcile" /\ worker \in Worker /\ worker.why = "none"
      /\ done \in 0..NPhases /\ log \in Seq(LogEvents)
  BY OnlyTaskStore DEF Reconcile, CoordInv, TaskOK, At, StoreOK, WholeInv, LogOK
<1>2. CASE ~Reserved
  <2>1. PICK w : w = Goto("loop")
    OBVIOUS
  <2>2. /\ w.pc = "loop" /\ w.me = worker.me /\ w.why = worker.why /\ w.agent = worker.agent
        /\ w.model = worker.model
    BY <1>1, <2>1 DEF Goto, Worker
  <2>3. Live(w) <=> Live(worker)
    BY <1>1, <2>2 DEF Live, Early
  <2>4. ModelsOpen(0)
    BY <1>1, <1>2, NoneReserved
  <2>5. SpansOK(worker) => SpansOK(w)
    BY <1>1, <2>2, <2>4 DEF SpansOK, At, InBody, Bit
  <2>6. TaskFits(w)
    BY <2>2, <2>3, <2>5 DEF WholeInv, TaskFits, Early
  <2> QED
    BY <1>1, <1>2, <2>1, <2>3, <2>6, WholeGoes DEF Reconcile, NoSend
<1>3. CASE Reserved /\ CheckExecution # "none"
  BY <1>1, <1>3, WholeFound DEF Reconcile, NoSend
<1>4. CASE Reserved /\ CheckExecution = "none"
  <2>1. PICK w : w = [worker EXCEPT !.pc = "sent", !.next = "reconcile"]
    OBVIOUS
  <2>2. /\ w.pc = "sent" /\ w.next = "reconcile" /\ w.me = worker.me /\ w.why = worker.why
        /\ w.agent = worker.agent /\ w.model = worker.model /\ w.phase = worker.phase
    BY <1>1, <2>1 DEF Worker
  <2>3. PICK c : c = EventCommand(worker.me, done, "model.failed")
    OBVIOUS
  <2>4. c.types[1] = "model.failed" /\ c.op = "event"
    BY <2>3 DEF EventCommand, Command
  <2>5. SpansOK(worker) => SpansOK(w) /\ WriteFits(c) /\ LiveFits(c, w)
    <3>1. SpansOK(worker) => SpansOK(w)
      BY <1>1, <2>2 DEF SpansOK, At, InBody
    <3>2. WriteFits(c)
      BY <2>4 DEF WriteFits, AgentEnded, ToolEnded
    <3>3. SpansOK(worker) => LiveFits(c, w)
      BY <1>1, <2>2, <2>4 DEF LiveFits, SpansOK, AgentEnded, Settled, At
    <3> QED
      BY <3>1, <3>2, <3>3
  <2>6. "model.failed" \in EventTypes \ {"phase.completed", "checkpoint.created"}
    BY DEF EventTypes
  <2>7. worker' = w /\ Put(c)
    BY <1>4, <2>1, <2>3 DEF Reconcile, Send
  <2> QED
    BY <1>1, <2>2, <2>3, <2>5, <2>6, <2>7, WholeWrites DEF WholeInv, TaskFits, Early
<1> QED
  BY <1>2, <1>3, <1>4

LEMMA BeginPhaseWhole == ASSUME CoordInv, WholeInv, BeginPhase PROVE WholeInv'
<1>1. /\ UNCHANGED storeVars /\ worker.pc = "loop" /\ worker \in Worker /\ worker.why = "none"
      /\ worker.phase = done /\ done \in 0..NPhases /\ NPhases \in Nat
  BY OnlyTaskStore, CoordinatorAssumption DEF BeginPhase, CoordInv, TaskOK, PhaseOK, At, StoreOK
<1>2. CASE worker.phase = NPhases /\ invFailed
  BY <1>1, <1>2, WholeRaisesHere DEF BeginPhase, NoSend, Reason
<1>3. CASE worker.phase = NPhases /\ ~invFailed
  <2>1. PICK w : w = Goto("complete")
    OBVIOUS
  <2>2. /\ w.pc = "complete" /\ w.me = worker.me /\ w.why = worker.why /\ w.agent = worker.agent
        /\ w.model = worker.model /\ w.phase = worker.phase
    BY <1>1, <2>1 DEF Goto, Worker
  <2>3. Live(w) <=> Live(worker)
    BY <1>1, <2>2 DEF Live, Early
  <2>4. SpansOK(worker) => SpansOK(w)
    BY <1>1, <1>3, <2>2 DEF SpansOK, At, InBody, Settled
  <2>5. TaskFits(w)
    BY <2>2, <2>3, <2>4 DEF WholeInv, TaskFits, Early
  <2> QED
    BY <1>1, <1>3, <2>1, <2>3, <2>5, WholeGoes DEF BeginPhase, NoSend
<1>4. CASE worker.phase # NPhases /\ CancelSeen
  <2>1. worker' = [Raise("cancel") EXCEPT !.phase = worker.phase + 1] /\ UNCHANGED queue
    <3>1. Raise("cancel").phase = worker.phase
      BY <1>1 DEF Raise, Worker
    <3> QED
      BY <1>4, <3>1 DEF BeginPhase, NoSend
  <2> QED
    BY <1>1, <2>1, WholeRaises DEF Reason
<1>5. CASE worker.phase # NPhases /\ ~CancelSeen
  <2>1. PICK w : w = [worker EXCEPT !.pc = "sent", !.next = "started", !.phase = @ + 1]
    OBVIOUS
  <2>2. worker.phase + 1 \in 0..NPhases
    BY <1>1, <1>5
  <2>3. /\ w.pc = "sent" /\ w.next = "started" /\ w.me = worker.me /\ w.why = worker.why
        /\ w.agent = worker.agent /\ w.model = worker.model
    BY <1>1, <2>1 DEF Worker
  <2>4. PICK c : c = EventCommand(worker.me, worker.phase + 1, "phase.started")
    OBVIOUS
  <2>5. c.types[1] = "phase.started" /\ c.op = "event"
    BY <2>4 DEF EventCommand, Command
  <2>6. SpansOK(worker) => SpansOK(w) /\ WriteFits(c) /\ LiveFits(c, w)
    <3>1. SpansOK(worker) => SpansOK(w)
      BY <1>1, <2>3 DEF SpansOK, At, InBody
    <3>2. WriteFits(c)
      BY <2>5 DEF WriteFits, AgentEnded, ToolEnded
    <3>3. SpansOK(worker) => LiveFits(c, w)
      BY <1>1, <2>3, <2>5 DEF LiveFits, SpansOK, AgentEnded, ModelEnded, Settled, At
    <3> QED
      BY <3>1, <3>2, <3>3
  <2>7. "phase.started" \in EventTypes \ {"phase.completed", "checkpoint.created"}
    BY DEF EventTypes
  <2>8. worker' = w /\ Put(c)
    BY <1>5, <2>1, <2>4 DEF BeginPhase
  <2> QED
    BY <1>1, <2>2, <2>3, <2>4, <2>6, <2>7, <2>8, WholeWrites DEF WholeInv, TaskFits, Early
<1> QED
  BY <1>2, <1>3, <1>4, <1>5

\* What a step inside the phase keeps.
LEMMA PhaseGoes ==
    ASSUME CoordInv, WholeInv, UNCHANGED storeVars, worker.pc \in InBody, UNCHANGED queue, NEW w,
           worker' = w, w.pc \in InBody, w.me = worker.me, w.why = worker.why, w.agent = worker.agent,
           w.model = worker.model, w.phase = worker.phase, Live(worker) => SpansOK(w)
    PROVE  WholeInv'
<1>1. Live(w) <=> Live(worker)
  BY DEF Live, Early, InBody
<1>2. TaskFits(w)
  BY <1>1 DEF TaskFits, Early, InBody
<1> QED
  BY <1>1, <1>2, WholeGoes DEF InBody

LEMMA CheckedWhole ==
    ASSUME CoordInv, WholeInv, Checked("started", "executing") \/ Checked("executed", "merge")
    PROVE  WholeInv'
<1>1. PICK to \in {"executing", "merge"} :
        /\ worker.pc = IF to = "executing" THEN "started" ELSE "executed"
        /\ worker' = IF CheckExecution = "none" THEN Goto(to) ELSE Raise(CheckExecution)
  BY DEF Checked
<1>2. UNCHANGED storeVars /\ UNCHANGED queue /\ worker \in Worker
  BY OnlyTaskStore DEF Checked, NoSend, CoordInv, TaskOK
<1>3. CASE CheckExecution # "none"
  BY <1>1, <1>2, <1>3, WholeFound
<1>4. CASE CheckExecution = "none"
  <2>1. PICK w : w = Goto(to)
    OBVIOUS
  <2>2. /\ w.pc = to /\ w.phase = worker.phase /\ w.me = worker.me /\ w.why = worker.why
        /\ w.agent = worker.agent /\ w.model = worker.model /\ w.failedPhase = worker.failedPhase
    BY <1>2, <2>1 DEF Goto, Worker
  <2>3. SpansOK(worker) => SpansOK(w)
    BY <1>1, <2>2 DEF SpansOK, At, InBody, Settled
  <2> QED
    BY <1>1, <1>2, <1>4, <2>1, <2>2, <2>3, PhaseGoes DEF InBody, WholeInv, TaskFits
<1> QED
  BY <1>3, <1>4

LEMMA PhaseEndsWhole == ASSUME CoordInv, WholeInv, PhaseReturns \/ PhaseRaises PROVE WholeInv'
<1>1. /\ UNCHANGED storeVars /\ UNCHANGED queue /\ worker.pc = "executing" /\ worker \in Worker
  BY OnlyTaskStore DEF PhaseReturns, PhaseRaises, NoSend, CoordInv, TaskOK
<1>2. CASE PhaseReturns
  <2>1. PICK failed \in {TRUE, invFailed} :
          worker' = [worker EXCEPT !.pc = "executed", !.failedPhase = failed] /\ ~worker.model
    BY <1>2 DEF PhaseReturns
  <2>2. PICK w : w = [worker EXCEPT !.pc = "executed", !.failedPhase = failed]
    OBVIOUS
  <2>3. /\ w.pc = "executed" /\ w.phase = worker.phase /\ w.me = worker.me /\ w.why = worker.why
        /\ w.agent = worker.agent /\ w.model = worker.model /\ w.failedPhase = failed
    BY <1>1, <2>2 DEF Worker
  <2>4. invFailed => w.failedPhase
    <3>1. invFailed \in BOOLEAN
      BY DEF CoordInv, StoreOK
    <3>2. CASE invFailed = TRUE
      BY <2>1, <2>3, <3>2
    <3> QED
      BY <3>1, <3>2
  <2>5. SpansOK(worker) => SpansOK(w)
    BY <1>1, <2>1, <2>3, <2>4 DEF SpansOK, At, InBody, Settled
  <2> QED
    BY <1>1, <2>1, <2>2, <2>3, <2>5, PhaseGoes DEF InBody, WholeInv, TaskFits
<1>3. CASE PhaseRaises
  <2>1. CASE CheckExecution # "none"
    BY <1>1, <1>3, <2>1, WholeFound DEF PhaseRaises
  <2>2. CASE CheckExecution = "none"
    BY <1>1, <1>3, <2>2, WholeRaisesHere DEF PhaseRaises, Reason
  <2> QED
    BY <2>1, <2>2
<1> QED
  BY <1>2, <1>3

LEMMA AfterCommitWhole == ASSUME CoordInv, WholeInv, AfterCommit PROVE WholeInv'
<1>1. /\ UNCHANGED storeVars /\ UNCHANGED queue /\ worker.pc = "committed" /\ worker \in Worker
  BY OnlyTaskStore DEF AfterCommit, NoSend, CoordInv, TaskOK
<1>2. CASE invFailed
  BY <1>1, <1>2, WholeRaisesHere DEF AfterCommit, Reason
<1>3. CASE ~invFailed
  <2>1. PICK w : w = Goto("loop")
    OBVIOUS
  <2>2. /\ w.pc = "loop" /\ w.me = worker.me /\ w.why = worker.why /\ w.agent = worker.agent
        /\ w.model = worker.model
    BY <1>1, <2>1 DEF Goto, Worker
  <2>3. Live(w) <=> Live(worker)
    BY <1>1, <2>2 DEF Live, Early
  <2>4. SpansOK(worker) => SpansOK(w)
    BY <1>1, <2>2 DEF SpansOK, At, InBody, Settled
  <2>5. TaskFits(w)
    BY <2>2, <2>3, <2>4 DEF WholeInv, TaskFits, Early
  <2> QED
    BY <1>1, <1>3, <2>1, <2>3, <2>5, WholeGoes DEF AfterCommit
<1> QED
  BY <1>2, <1>3

\* An event of the phase, or of its merge, and what the task remembers of its spans.
Span(type, w) ==
    \/ type = "agent.started" /\ ~worker.agent /\ w.agent /\ w.model = worker.model
    \/ /\ type \in AgentEnded /\ worker.agent /\ ~w.agent /\ w.model = worker.model
       /\ toolRow[worker.phase] # "running"
    \/ type = "model.started" /\ ~worker.model /\ w.model /\ w.agent = worker.agent
    \/ type \in ModelEnded /\ worker.model /\ ~w.model /\ w.agent = worker.agent
    \/ /\ type = "tool.started" /\ worker.agent /\ w.agent /\ w.model = worker.model
       /\ toolRow[worker.phase] # "running"
    \/ /\ type \in ToolEnded /\ w.agent = worker.agent /\ w.model = worker.model
       /\ toolRow[worker.phase] = "running"

LEMMA SpanFits ==
    ASSUME SpansOK(worker), worker.pc \in {"executing", "merge"}, worker.phase \in Phases,
           NEW w, w.pc = "sent", w.next = worker.pc, w.recovery = worker.recovery,
           w.phase = worker.phase, w.failedPhase = worker.failedPhase,
           worker.agent \in BOOLEAN, worker.model \in BOOLEAN,
           worker.pc = "merge" => ~w.model,
           NEW type, Span(type, w),
           NEW c, c.types[1] = type, c.op = "event", c.phase = worker.phase
    PROVE  SpansOK(w) /\ WriteFits(c) /\ LiveFits(c, w)
<1>1. /\ At(w) = worker.pc /\ At(worker) = worker.pc /\ Settled(w) /\ Settled(worker)
      /\ AgentsOpen(Bit(worker.agent)) /\ ModelsOpen(Bit(worker.model))
      /\ ToolRuns => worker.agent /\ toolRow[worker.phase] = "running"
      /\ worker.pc = "merge" /\ invFailed => worker.failedPhase
  BY DEF SpansOK, At, Settled
<1>2. toolRow[worker.phase] = "running" => ToolRuns
  BY DEF ToolRuns
<1>3. SpansOK(w)
  BY <1>1, <1>2 DEF SpansOK, Span, InBody
<1>4. WriteFits(c)
  BY <1>1, <1>2 DEF WriteFits, Span, AgentEnded, ToolEnded, ModelEnded
<1>5. LiveFits(c, w)
  <2>1. CASE type = "agent.started"
    BY <1>1, <2>1 DEF LiveFits, Span, AgentEnded, ToolEnded, ModelEnded, Bit
  <2>2. CASE type \in AgentEnded
    BY <1>1, <2>2 DEF LiveFits, Span, AgentEnded, ToolEnded, ModelEnded, Bit
  <2>3. CASE type = "model.started"
    BY <1>1, <2>3 DEF LiveFits, Span, AgentEnded, ToolEnded, ModelEnded, Bit
  <2>4. CASE type \in ModelEnded
    BY <1>1, <2>4 DEF LiveFits, Span, AgentEnded, ToolEnded, ModelEnded, Bit
  <2>5. CASE type = "tool.started"
    BY <1>1, <2>5 DEF LiveFits, Span, AgentEnded, ToolEnded, ModelEnded, Bit
  <2>6. CASE type \in ToolEnded
    BY <1>1, <2>6 DEF LiveFits, Span, AgentEnded, ToolEnded, ModelEnded, Bit
  <2> QED
    BY <2>1, <2>2, <2>3, <2>4, <2>5, <2>6 DEF Span
<1> QED
  BY <1>3, <1>4, <1>5

LEMMA SpanSent ==
    ASSUME CoordInv, WholeInv, UNCHANGED storeVars, worker.pc \in {"executing", "merge"},
           NEW w, worker' = w, w.pc = "sent", w.next = worker.pc, w.me = worker.me, w.why = worker.why,
           w.recovery = worker.recovery, w.phase = worker.phase, w.failedPhase = worker.failedPhase,
           worker.pc = "merge" => w.model = worker.model,
           NEW type, Span(type, w), Put(EventCommand(worker.me, worker.phase, type))
    PROVE  WholeInv'
<1>1. /\ worker.why = "none" /\ worker.agent \in BOOLEAN /\ worker.model \in BOOLEAN
      /\ worker.phase = done + 1 /\ worker.phase \in 0..NPhases /\ done \in Nat
  BY DEF CoordInv, TaskOK, PhaseOK, At, InBody, Worker, StoreOK
<1>2. worker.phase \in Phases
  BY <1>1, CoordinatorAssumption DEF Phases
<1>3. PICK c : c = EventCommand(worker.me, worker.phase, type)
  OBVIOUS
<1>4. c.types[1] = type /\ c.op = "event" /\ c.phase = worker.phase
  BY <1>3 DEF EventCommand, Command
<1>5. SpansOK(worker) => SpansOK(w) /\ WriteFits(c) /\ LiveFits(c, w)
  <2> SUFFICES ASSUME SpansOK(worker) PROVE SpansOK(w) /\ WriteFits(c) /\ LiveFits(c, w)
    OBVIOUS
  <2>1. worker.pc = "merge" => ~w.model
    BY DEF SpansOK, At, InBody
  <2> QED
    BY <1>1, <1>2, <1>4, <2>1, SpanFits
<1>6. type \in EventTypes \ {"phase.completed", "checkpoint.created"}
  BY DEF Span, EventTypes, ToolEvents, AgentEnded, ModelEnded, ToolEnded
<1> QED
  BY <1>1, <1>3, <1>5, <1>6, WholeWrites DEF WholeInv, TaskFits, Early

LEMMA WorkWhole == ASSUME CoordInv, WholeInv, PhaseWork PROVE WholeInv'
<1>1. /\ worker.pc = "executing" /\ worker \in Worker /\ worker.agent \in BOOLEAN /\ worker.model \in BOOLEAN
      /\ UNCHANGED storeVars
  BY DEF PhaseWork, AgentStarts, ModelStarts, ModelEnds, ToolStarts, ToolEnds, AgentEnds, Working,
         CoordInv, TaskOK, Worker
<1>2. CASE AgentStarts
  <2>1. PICK w : w = [worker EXCEPT !.pc = "sent", !.next = "executing", !.agent = TRUE]
    OBVIOUS
  <2>2. /\ w.pc = "sent" /\ w.next = worker.pc /\ w.me = worker.me /\ w.why = worker.why
        /\ w.recovery = worker.recovery /\ w.phase = worker.phase
        /\ w.failedPhase = worker.failedPhase /\ w.agent = TRUE /\ w.model = worker.model
    BY <1>1, <2>1 DEF Worker
  <2>3. Span("agent.started", w)
    BY <1>2, <2>2 DEF AgentStarts, Span
  <2> QED
    BY <1>1, <1>2, <2>1, <2>2, <2>3, SpanSent DEF AgentStarts, Working
<1>3. CASE ModelStarts
  <2>1. PICK w : w = [worker EXCEPT !.pc = "sent", !.next = "executing", !.model = TRUE]
    OBVIOUS
  <2>2. /\ w.pc = "sent" /\ w.next = worker.pc /\ w.me = worker.me /\ w.why = worker.why
        /\ w.recovery = worker.recovery /\ w.phase = worker.phase
        /\ w.failedPhase = worker.failedPhase /\ w.agent = worker.agent /\ w.model = TRUE
    BY <1>1, <2>1 DEF Worker
  <2>3. Span("model.started", w)
    BY <1>3, <2>2 DEF ModelStarts, Span
  <2> QED
    BY <1>1, <1>3, <2>1, <2>2, <2>3, SpanSent DEF ModelStarts, Working
<1>4. CASE ModelEnds
  <2>1. PICK w : w = [worker EXCEPT !.pc = "sent", !.next = "executing", !.model = FALSE]
    OBVIOUS
  <2>2. /\ w.pc = "sent" /\ w.next = worker.pc /\ w.me = worker.me /\ w.why = worker.why
        /\ w.recovery = worker.recovery /\ w.phase = worker.phase
        /\ w.failedPhase = worker.failedPhase /\ w.agent = worker.agent /\ w.model = FALSE
    BY <1>1, <2>1 DEF Worker
  <2>3. PICK outcome \in ModelEnded : Working(outcome)
    BY <1>4 DEF ModelEnds, ModelEnded
  <2>4. Span(outcome, w)
    BY <1>4, <2>2 DEF ModelEnds, Span
  <2> QED
    BY <1>1, <1>4, <2>1, <2>2, <2>3, <2>4, SpanSent DEF ModelEnds, Working
<1>5. CASE ToolStarts
  <2>1. PICK w : w = [worker EXCEPT !.pc = "sent", !.next = "executing"]
    OBVIOUS
  <2>2. /\ w.pc = "sent" /\ w.next = worker.pc /\ w.me = worker.me /\ w.why = worker.why
        /\ w.recovery = worker.recovery /\ w.phase = worker.phase
        /\ w.failedPhase = worker.failedPhase /\ w.agent = worker.agent /\ w.model = worker.model
    BY <1>1, <2>1 DEF Worker
  <2>3. Span("tool.started", w)
    BY <1>5, <2>2 DEF ToolStarts, Span
  <2> QED
    BY <1>1, <1>5, <2>1, <2>2, <2>3, SpanSent DEF ToolStarts, Working
<1>6. CASE ToolEnds
  <2>1. PICK w : w = [worker EXCEPT !.pc = "sent", !.next = "executing"]
    OBVIOUS
  <2>2. /\ w.pc = "sent" /\ w.next = worker.pc /\ w.me = worker.me /\ w.why = worker.why
        /\ w.recovery = worker.recovery /\ w.phase = worker.phase
        /\ w.failedPhase = worker.failedPhase /\ w.agent = worker.agent /\ w.model = worker.model
    BY <1>1, <2>1 DEF Worker
  <2>3. Span("tool.completed", w)
    BY <1>6, <2>2 DEF ToolEnds, Span, ToolEnded
  <2> QED
    BY <1>1, <1>6, <2>1, <2>2, <2>3, SpanSent DEF ToolEnds, Working
<1>7. CASE AgentEnds
  <2>1. CASE toolRow[worker.phase] = "running"
    <3>1. PICK w : w = [worker EXCEPT !.pc = "sent", !.next = "executing"]
      OBVIOUS
    <3>2. /\ w.pc = "sent" /\ w.next = worker.pc /\ w.me = worker.me /\ w.why = worker.why
          /\ w.recovery = worker.recovery /\ w.phase = worker.phase
          /\ w.failedPhase = worker.failedPhase /\ w.agent = worker.agent /\ w.model = worker.model
      BY <1>1, <3>1 DEF Worker
    <3>3. Span("tool.failed", w)
      BY <1>7, <2>1, <3>2 DEF AgentEnds, Span, ToolEnded
    <3> QED
      BY <1>1, <1>7, <2>1, <3>1, <3>2, <3>3, SpanSent DEF AgentEnds, Working
  <2>2. CASE toolRow[worker.phase] # "running"
    <3>1. PICK w : w = [worker EXCEPT !.pc = "sent", !.next = "executing", !.agent = FALSE]
      OBVIOUS
    <3>2. /\ w.pc = "sent" /\ w.next = worker.pc /\ w.me = worker.me /\ w.why = worker.why
          /\ w.recovery = worker.recovery /\ w.phase = worker.phase
          /\ w.failedPhase = worker.failedPhase /\ w.agent = FALSE /\ w.model = worker.model
      BY <1>1, <3>1 DEF Worker
    <3>3. Span("agent.completed", w)
      BY <1>7, <2>2, <3>2 DEF AgentEnds, Span, AgentEnded
    <3> QED
      BY <1>1, <1>7, <2>2, <3>1, <3>2, <3>3, SpanSent DEF AgentEnds, Working
  <2> QED
    BY <2>1, <2>2
<1> QED
  BY <1>2, <1>3, <1>4, <1>5, <1>6, <1>7 DEF PhaseWork

LEMMA MergeWhole == ASSUME CoordInv, WholeInv, Merge PROVE WholeInv'
<1>1. /\ UNCHANGED storeVars /\ worker.pc = "merge" /\ worker \in Worker
      /\ worker.phase = done + 1 /\ worker.phase \in 0..NPhases
      /\ worker.agent \in BOOLEAN /\ worker.model \in BOOLEAN /\ worker.why = "none"
      /\ worker.me \in 1..MaxAttempts /\ done \in 0..NPhases
  BY OnlyTaskStore DEF Merge, CoordInv, TaskOK, PhaseOK, At, InBody, Early, Worker, StoreOK
<1>2. CASE worker.agent /\ toolRow[worker.phase] = "running" /\ CheckExecution # "none"
  BY <1>1, <1>2, WholeFound DEF Merge, NoSend
<1>3. CASE worker.agent /\ toolRow[worker.phase] = "running" /\ CheckExecution = "none"
  <2>1. PICK w : w = [worker EXCEPT !.pc = "sent", !.next = "merge"]
    OBVIOUS
  <2>2. /\ w.pc = "sent" /\ w.next = worker.pc /\ w.me = worker.me /\ w.why = worker.why
        /\ w.recovery = worker.recovery /\ w.phase = worker.phase
        /\ w.failedPhase = worker.failedPhase /\ w.agent = worker.agent /\ w.model = worker.model
    BY <1>1, <2>1 DEF Worker
  <2>3. Span("tool.failed", w)
    BY <1>3, <2>2 DEF Span, ToolEnded
  <2>4. worker' = w /\ Put(EventCommand(worker.me, worker.phase, "tool.failed"))
    BY <1>3, <2>1 DEF Merge, Send
  <2> QED
    BY <1>1, <2>2, <2>3, <2>4, SpanSent
<1>4. CASE worker.agent /\ toolRow[worker.phase] # "running"
  <2>1. PICK w : w = [worker EXCEPT !.pc = "sent", !.next = "merge", !.agent = FALSE]
    OBVIOUS
  <2>2. /\ w.pc = "sent" /\ w.next = worker.pc /\ w.me = worker.me /\ w.why = worker.why
        /\ w.recovery = worker.recovery /\ w.phase = worker.phase
        /\ w.failedPhase = worker.failedPhase /\ w.agent = FALSE /\ w.model = worker.model
    BY <1>1, <2>1 DEF Worker
  <2>3. Span("agent.failed", w)
    BY <1>4, <2>2 DEF Span, AgentEnded
  <2>4. worker' = w /\ Put(EventCommand(worker.me, worker.phase, "agent.failed"))
    BY <1>4, <2>1 DEF Merge
  <2> QED
    BY <1>1, <2>2, <2>3, <2>4, SpanSent
<1>5. CASE ~worker.agent
  <2>1. PICK w : w = [worker EXCEPT !.pc = "sent", !.next = "committed"]
    OBVIOUS
  <2>2. /\ w.pc = "sent" /\ w.next = "committed" /\ w.me = worker.me /\ w.why = "none"
        /\ w.agent = worker.agent /\ w.model = worker.model
    BY <1>1, <2>1 DEF Worker
  <2>3. PICK target \in {"failed", "none"} : target = IF worker.failedPhase THEN "failed" ELSE "none"
    OBVIOUS
  <2>4. PICK types : types = <<IF worker.failedPhase THEN "phase.failed" ELSE "phase.completed",
                               "checkpoint.created">>
    OBVIOUS
  <2>5. /\ types \in Seq(EventTypes)
        /\ types = <<IF target = "failed" THEN "phase.failed" ELSE "phase.completed", "checkpoint.created">>
        /\ types[1] \in {"phase.failed", "phase.completed"}
    BY <2>3, <2>4 DEF EventTypes
  <2>6. PICK c : c = Command("phase", worker.me, worker.phase, types, target, done)
    OBVIOUS
  <2>7. /\ c.op = "phase" /\ c.attempt = worker.me /\ c.base = done /\ c.phase = done + 1
        /\ c.target = target /\ c.from = "worker" /\ c.types = types
    BY <1>1, <2>6 DEF Command
  <2>8. c \in Commands
    <3>1. target \in {"none"} \cup Terminal /\ "none" \in Category
      BY <2>3 DEF Terminal, Category
    <3> QED
      BY <1>1, <2>5, <2>6, <3>1 DEF Command, Commands
  <2>9. Live(w) <=> Live(worker)
    BY <1>1, <2>2 DEF Live, Early
  <2>10. SpansOK(worker) => SpansOK(w) /\ WriteFits(c) /\ LiveFits(c, w)
    <3> SUFFICES ASSUME SpansOK(worker) PROVE SpansOK(w) /\ WriteFits(c) /\ LiveFits(c, w)
      OBVIOUS
    <3>1. /\ ~ToolRuns /\ ~worker.model /\ (invFailed => worker.failedPhase)
          /\ AgentsOpen(0) /\ ModelsOpen(0)
      BY <1>1, <1>5 DEF SpansOK, At, Settled, Bit, InBody
    <3>2. SpansOK(w)
      BY <1>5, <2>2, <3>1 DEF SpansOK, At, InBody
    <3>3. WriteFits(c)
      BY <2>3, <2>5, <2>7, <3>1 DEF WriteFits, AgentEnded, ToolEnded
    <3>4. LiveFits(c, w)
      BY <1>5, <2>2, <2>5, <2>7, <3>1 DEF LiveFits, AgentEnded, ModelEnded, Bit
    <3> QED
      BY <3>2, <3>3, <3>4
  <2>11. TaskFits(w) /\ (Live(worker) => WriteFits(c) /\ LiveFits(c, w))
    BY <2>2, <2>9, <2>10 DEF WholeInv, TaskFits, Early
  <2>12. SendFits(c, w, worker)
    <3>1. Shape(c)
      BY <1>1, <2>3, <2>5, <2>7 DEF Shape
    <3>2. Writing(c) => Live(worker)
      BY <1>1, <2>7 DEF Writing, Live, Early
    <3> QED
      BY <2>3, <2>7, <2>11, <3>1, <3>2 DEF SendFits
  <2>13. worker' = w /\ Put(c)
    BY <1>5, <2>1, <2>3, <2>4, <2>6 DEF Merge, Send
  <2> QED
    BY <1>1, <2>8, <2>9, <2>11, <2>12, <2>13, WholeSends
<1> QED
  BY <1>1, <1>2, <1>3, <1>4, <1>5

\* The last write of a task.
LEMMA EndWrites ==
    ASSUME CoordInv, WholeInv, UNCHANGED storeVars, worker.pc \in {"complete", "except", "afterCancel"},
           NEW target \in Terminal, NEW cat \in Category, NEW types \in Seq(EndTypes),
           NEW pc \in {"exit", "afterCancel"}, Terminate(target, cat, types, pc),
           target = "completed" => worker.pc = "complete"
    PROVE  WholeInv'
<1>1. /\ worker \in Worker /\ worker.me \in 1..MaxAttempts /\ worker.phase \in 0..NPhases
      /\ worker.pc = "complete" <=> worker.why = "none"
  BY DEF CoordInv, TaskOK, At, Early, Worker, StoreOK
<1>2. PICK w : w = [worker EXCEPT !.pc = "sent", !.next = pc]
  OBVIOUS
<1>3. /\ w.pc = "sent" /\ w.next = pc /\ w.me = worker.me /\ w.why = worker.why
      /\ w.agent = worker.agent /\ w.model = worker.model
  BY <1>1, <1>2 DEF Worker
<1>4. PICK c : c = [Command("terminal", worker.me, IF Len(types) = 2 THEN worker.phase ELSE 0,
                            types, target, 0) EXCEPT !.category = cat]
  OBVIOUS
<1>5. /\ c \in Commands /\ c.op = "terminal" /\ c.attempt = worker.me /\ c.target = target
      /\ c.from = "worker" /\ c.types = types
  <2>1. (IF Len(types) = 2 THEN worker.phase ELSE 0) \in 0..NPhases /\ 0 \in 0..NPhases
    BY <1>1, CoordinatorAssumption
  <2>2. types \in Seq(EventTypes)
    BY DEF EndTypes, EventTypes
  <2> QED
    BY <1>1, <1>4, <2>1, <2>2 DEF Command, Commands
<1>6. Live(w) <=> Live(worker)
  BY <1>3 DEF Live, Early
<1>7. SpansOK(worker) => SpansOK(w)
  <2>1. At(w) = pc /\ At(worker) = worker.pc
    BY <1>3 DEF At
  <2> QED
    BY <1>3, <2>1 DEF SpansOK, InBody
<1>8. TaskFits(w)
  BY <1>3, <1>6, <1>7 DEF WholeInv, TaskFits, Early
<1>9. worker.pc = "complete" /\ Live(worker) => Whole
  BY DEF WholeInv, TaskFits, SpansOK, At, InBody, Settled, Bit, Whole
<1>10. worker.pc = "complete" /\ worker.me = lease => Live(worker)
  BY <1>1 DEF Live, Early
<1>11. Shape(c)
  <2>1. \A j \in DOMAIN types : types[j] \in EndTypes
    OBVIOUS
  <2> QED
    BY <1>5, <2>1 DEF Shape
<1>12. SendFits(c, w, worker)
  BY <1>5, <1>9, <1>10, <1>11 DEF SendFits, Writing
<1>13. worker' = w /\ Put(c)
  BY <1>2, <1>4 DEF Terminate, Send
<1> QED
  BY <1>5, <1>6, <1>8, <1>12, <1>13, WholeSends

LEMMA GoesOutWhole ==
    ASSUME CoordInv, WholeInv, UNCHANGED storeVars, UNCHANGED queue,
           worker.pc \in {"except", "afterCancel"}, worker' = Goto("exit")
    PROVE  WholeInv'
<1>1. worker \in Worker /\ worker.why # "none"
  BY DEF CoordInv, TaskOK, At
<1>2. PICK w : w = Goto("exit")
  OBVIOUS
<1>3. w.pc = "exit" /\ w.why # "none"
  BY <1>1, <1>2 DEF Goto, Worker
<1> QED
  BY <1>2, <1>3, WholeQuits DEF Early

LEMMA CompleteWhole == ASSUME CoordInv, WholeInv, Complete PROVE WholeInv'
<1>1. UNCHANGED storeVars /\ worker.pc = "complete"
  BY OnlyTaskStore DEF Complete
<1>2. CASE CancelSeen
  BY <1>1, <1>2, WholeRaisesHere DEF Complete, NoSend, Reason
<1>3. CASE ~CancelSeen
  <2>1. <<"attempt.completed", "run.completed">> \in Seq(EndTypes)
    BY DEF EndTypes
  <2>2. Terminate("completed", "none", <<"attempt.completed", "run.completed">>, "exit")
    BY <1>3 DEF Complete
  <2> QED
    BY <1>1, <2>1, <2>2, EndWrites DEF Terminal, Category
<1> QED
  BY <1>2, <1>3

LEMMA FailWhole ==
    ASSUME CoordInv, WholeInv, UNCHANGED storeVars, worker.pc \in {"except", "afterCancel"},
           NEW cat \in Category, Fail(cat)
    PROVE  WholeInv'
<1>1. CASE status = "running"
  <2>1. PICK types : types = (IF InPhase THEN <<"phase.failed">> ELSE <<>>) \o <<"run.failed">>
    OBVIOUS
  <2>2. types \in Seq(EndTypes)
    <3>1. <<"phase.failed">> \in Seq(EndTypes) /\ <<"run.failed">> \in Seq(EndTypes) /\ <<>> \in Seq(EndTypes)
      BY DEF EndTypes
    <3>2. CASE InPhase
      BY <2>1, <3>1, <3>2
    <3>3. CASE ~InPhase
      BY <2>1, <3>1, <3>3
    <3> QED
      BY <3>2, <3>3
  <2>3. Terminate("failed", cat, types, "exit")
    BY <1>1, <2>1 DEF Fail
  <2>4. "failed" \in Terminal
    BY DEF Terminal
  <2> QED
    BY <2>2, <2>3, <2>4, EndWrites
<1>2. CASE status # "running"
  BY <1>2, GoesOutWhole DEF Fail, NoSend
<1> QED
  BY <1>1, <1>2

LEMMA HandleWhole == ASSUME CoordInv, WholeInv, Handle \/ AfterCancel PROVE WholeInv'
<1>1. /\ UNCHANGED storeVars /\ worker.pc \in {"except", "afterCancel"}
  BY OnlyTaskStore DEF Handle, AfterCancel
<1>2. FailCategory \in Category /\ "timeout" \in Category
  BY DEF FailCategory, Category
<1>3. CASE Handle
  <2>1. CASE worker.why \in {"cancel", "stopped", "deadline"} /\ status = "cancelling"
    <3>1. Terminate("cancelled", "cancelled", <<"run.cancelled">>, "afterCancel")
      BY <1>3, <2>1 DEF Handle
    <3>2. <<"run.cancelled">> \in Seq(EndTypes) /\ "cancelled" \in Terminal /\ "cancelled" \in Category
      BY DEF EndTypes, Terminal, Category
    <3> QED
      BY <1>1, <3>1, <3>2, EndWrites
  <2>2. CASE worker.why \in {"deadline", "persistence", "error", "failed"} /\ status = "running"
    <3>1. Fail(FailCategory)
      BY <1>3, <2>2 DEF Handle
    <3>2. PICK cat \in Category : cat = FailCategory
      BY <1>2
    <3> QED
      BY <1>1, <3>1, <3>2, FailWhole
  <2>3. CASE /\ ~(worker.why \in {"cancel", "stopped", "deadline"} /\ status = "cancelling")
             /\ ~(worker.why \in {"deadline", "persistence", "error", "failed"} /\ status = "running")
    BY <1>1, <1>3, <2>3, GoesOutWhole DEF Handle, NoSend
  <2> QED
    BY <2>1, <2>2, <2>3
<1>4. CASE AfterCancel
  <2>1. CASE worker.why = "deadline"
    BY <1>1, <1>2, <1>4, <2>1, FailWhole DEF AfterCancel
  <2>2. CASE worker.why # "deadline"
    BY <1>1, <1>4, <2>2, GoesOutWhole DEF AfterCancel, NoSend
  <2> QED
    BY <2>1, <2>2
<1> QED
  BY <1>3, <1>4

-----------------------------------------------------------------------------
(* The log under the steps of everybody else *)

\* Neither the task nor the queue moves, nor what they are measured by.
LEMMA WholeRests ==
    ASSUME WholeInv, UNCHANGED <<done, invFailed, toolRow, lease, log, attempts, worker, queue>>,
           status' \in Leased <=> status \in Leased, status' = "completed" => status = "completed"
    PROVE  WholeInv'
<1>1. PICK w, q : w = worker /\ q = queue
  OBVIOUS
<1>2. TaskFits(w) /\ QueueFits(q, w)
  BY <1>1 DEF WholeInv
<1>3. worker' = w /\ queue' = q
  BY <1>1
<1> QED
  BY <1>2, <1>3, WholeKept

\* The request of the API is no write of the task.
LEMMA RequestCancelWhole == ASSUME CoordInv, WholeInv, RequestCancel PROVE WholeInv'
<1>1. /\ UNCHANGED <<done, invFailed, toolRow, lease, log, attempts, worker>>
      /\ status' \in Leased <=> status \in Leased
      /\ status' # "completed"
  BY DEF RequestCancel, Leased
<1>2. CASE ~asked /\ status = "running" /\ Registered
  <2>1. PICK c : c = [EventCommand(lease, 0, "run.cancel_requested") EXCEPT !.from = "api"]
    OBVIOUS
  <2>2. /\ c.op = "event" /\ c.attempt = lease /\ c.target = "none" /\ c.from = "api"
        /\ c.types = <<"run.cancel_requested">>
    BY <2>1 DEF EventCommand, Command
  <2>3. PICK q, w : q = queue /\ w = worker
    OBVIOUS
  <2>4. QueueFits(q, w) /\ TaskFits(w) /\ q \in Seq(Commands)
    BY <2>3 DEF WholeInv, CoordInv, QueueOK
  <2>5. PICK t : t = Append(q, c)
    OBVIOUS
  <2>6. \A i \in DOMAIN t : t[i] = c \/ (i \in DOMAIN q /\ t[i] = q[i])
    <3>1. q \in Seq(Commands \cup {c})
      BY <2>4
    <3> QED
      BY <2>5, <3>1, Appended
  <2>7. Shape(c) /\ ~Writing(c)
    BY <2>2 DEF Shape, Writing
  <2>8. QueueFits(t, w)
    <3>1. \A i \in DOMAIN t : Shape(t[i])
      BY <2>4, <2>6, <2>7 DEF QueueFits
    <3>2. \A i, j \in DOMAIN t : Writing(t[i]) /\ Writing(t[j]) => i = j
      BY <2>4, <2>6, <2>7 DEF QueueFits
    <3>3. \A i \in DOMAIN t : Writing(t[i]) =>
            WriteFits(t[i]) /\ (Live(w) => t[i].from = "worker" /\ LiveFits(t[i], w))
      BY <2>4, <2>6, <2>7 DEF QueueFits
    <3>4. ASSUME NEW i \in DOMAIN t, t[i].target = "completed", t[i].attempt = lease
          PROVE  /\ Whole /\ (Live(w) => t[i].from = "worker")
                 /\ \A j \in DOMAIN t : ~Writing(t[j])
      <4>1. i \in DOMAIN q /\ t[i] = q[i]
        BY <2>2, <2>6, <3>4
      <4> QED
        BY <2>4, <2>6, <2>7, <3>4, <4>1 DEF QueueFits
    <3> QED
      BY <3>1, <3>2, <3>3, <3>4 DEF QueueFits
  <2>9. queue' = t /\ worker' = w
    BY <1>1, <1>2, <2>1, <2>3, <2>5 DEF RequestCancel, Put
  <2> QED
    BY <1>1, <2>4, <2>8, <2>9, WholeKept
<1>3. CASE ~(~asked /\ status = "running" /\ Registered)
  <2>1. UNCHANGED queue
    BY <1>3 DEF RequestCancel
  <2> QED
    BY <1>1, <2>1, WholeRests
<1> QED
  BY <1>2, <1>3

LEMMA ClockWhole ==
    ASSUME WholeInv, HeartbeatStops \/ LeaseExpires \/ DeadlinePasses \/ Restart
    PROVE  WholeInv'
<1>1. UNCHANGED <<status, done, invFailed, toolRow, lease, log, attempts, worker, queue>>
  BY DEF HeartbeatStops, LeaseExpires, DeadlinePasses, Restart, storeVars, localVars
<1> QED
  BY <1>1, WholeRests

LEMMA CrashWhole == ASSUME WholeInv, Crash PROVE WholeInv'
<1>1. UNCHANGED <<status, done, invFailed, toolRow, lease, log, attempts>> /\ queue' = <<>>
  BY DEF Crash, storeVars
<1>2. PICK w, q : w = NoTask /\ q = <<>>
  OBVIOUS
<1>3. TaskFits(w)
  BY <1>2, NoSpans DEF TaskFits, Live
<1>4. QueueFits(q, w)
  <2>1. DOMAIN q = {}
    BY <1>2
  <2> QED
    BY <2>1 DEF QueueFits
<1>5. worker' = w /\ queue' = q
  BY <1>1, <1>2 DEF Crash
<1> QED
  BY <1>1, <1>3, <1>4, <1>5, WholeKept

\* What a stopped task has put is written, or not, as if it still waited for it.
LEMMA StopTaskWhole == ASSUME CoordInv, WholeInv, StopTask PROVE WholeInv'
<1>1. /\ UNCHANGED <<status, done, invFailed, toolRow, lease, log, attempts>>
      /\ worker \in Worker /\ queue' = Orphaned
  BY OnlyTaskStore DEF StopTask, CoordInv, TaskOK, storeVars
<1>2. PICK w : w = IF worker.why # "none" THEN [Goto("exit") EXCEPT !.why = "stopped"]
                                          ELSE Raise("stopped")
  OBVIOUS
<1>3. w.pc \in {"exit", "except"} /\ w.why = "stopped"
  <2>1. CASE worker.why # "none"
    <3>1. w = [worker EXCEPT !.pc = "exit", !.why = "stopped"]
      BY <1>1, <1>2, <2>1 DEF Goto, Worker
    <3> QED
      BY <1>1, <3>1 DEF Worker
  <2>2. CASE worker.why = "none"
    BY <1>1, <1>2, <2>2 DEF Raise, Worker
  <2> QED
    BY <2>1, <2>2
<1>4. ~Live(w) /\ TaskFits(w)
  BY <1>3 DEF Live, TaskFits, Early
<1>5. PICK q : q = queue /\ q \in Seq(Commands) /\ QueueFits(q, w)
  BY <1>4, QueueForIdle DEF WholeInv, CoordInv, QueueOK
<1>6. PICK t : t = [i \in DOMAIN q |-> IF q[i].from = "worker" THEN [q[i] EXCEPT !.from = "none"] ELSE q[i]]
  OBVIOUS
<1>7. ASSUME NEW i \in DOMAIN q
      PROVE  /\ t[i].op = q[i].op /\ t[i].attempt = q[i].attempt /\ t[i].phase = q[i].phase
             /\ t[i].types = q[i].types /\ t[i].base = q[i].base /\ t[i].target = q[i].target
             /\ t[i].from = "api" <=> q[i].from = "api"
  <2>1. q[i] \in Commands
    BY <1>5
  <2>2. t[i] = IF q[i].from = "worker" THEN [q[i] EXCEPT !.from = "none"] ELSE q[i]
    BY <1>6
  <2>3. PICK c : c = q[i]
    OBVIOUS
  <2> QED
    BY <2>1, <2>2, <2>3 DEF Commands
<1>8. \A i \in DOMAIN q :
        /\ Shape(t[i]) <=> Shape(q[i])
        /\ Writing(t[i]) <=> Writing(q[i])
        /\ WriteFits(t[i]) <=> WriteFits(q[i])
  BY <1>7 DEF Shape, Writing, WriteFits
<1>9. QueueFits(t, w)
  <2>1. DOMAIN t = DOMAIN q
    BY <1>6
  <2> QED
    BY <1>4, <1>5, <1>7, <1>8, <2>1 DEF QueueFits
<1>10. queue' = t /\ worker' = w
  BY <1>1, <1>2, <1>5, <1>6 DEF Orphaned, StopTask
<1> QED
  BY <1>1, <1>4, <1>9, <1>10, WholeKept

-----------------------------------------------------------------------------
(* The lease is given and taken *)

\* What a terminal write and the audit add to the log.
StopTypes == EndTypes \cup {"run.interrupted", "attempt.interrupted"}

LEMMA EventsTyped ==
    ASSUME NEW types \in Seq(StopTypes), NEW n \in 1..MaxAttempts, NEW p \in 0..NPhases
    PROVE  /\ Events(types, n, p) \in Seq(LogEvents)
           /\ \A j \in DOMAIN Events(types, n, p) :
                 Events(types, n, p)[j].attempt = n /\ Events(types, n, p)[j].type \in StopTypes
<1>1. DOMAIN types = 1..Len(types) /\ Len(types) \in Nat /\ \A j \in 1..Len(types) : types[j] \in StopTypes
  OBVIOUS
<1>2. PICK s : s = Events(types, n, p)
  OBVIOUS
<1>3. \A j \in 1..Len(types) : /\ s[j] \in LogEvents /\ s[j].attempt = n /\ s[j].type \in StopTypes
  <2> SUFFICES ASSUME NEW j \in 1..Len(types)
               PROVE  s[j] \in LogEvents /\ s[j].attempt = n /\ s[j].type \in StopTypes
    OBVIOUS
  <2>1. s[j] = [type |-> types[j], attempt |-> n, phase |-> p]
    BY <1>1, <1>2 DEF Events, Event
  <2>2. types[j] \in StopTypes /\ types[j] \in LogTypes
    BY <1>1 DEF StopTypes, EndTypes, LogTypes, EventTypes
  <2> QED
    BY <2>1, <2>2 DEF LogEvents
<1>4. s \in [1..Len(types) -> LogEvents]
  BY <1>1, <1>2, <1>3 DEF Events
<1>5. s \in Seq(LogEvents) /\ Len(s) = Len(types) /\ DOMAIN s = 1..Len(types)
  BY <1>1, <1>4
<1> QED
  BY <1>2, <1>3, <1>5

LEMMA Added ==
    ASSUME NEW l \in Seq(LogEvents), NEW s \in Seq(LogEvents)
    PROVE  /\ l \o s \in Seq(LogEvents)
           /\ Len(l \o s) >= Len(l)
           /\ \A j \in DOMAIN l : (l \o s)[j] = l[j]
           /\ \A j \in DOMAIN (l \o s) : j > Len(l) => \E i \in DOMAIN s : (l \o s)[j] = s[i]
<1>1. PICK m : m = l \o s
  OBVIOUS
<1>2. /\ m \in Seq(LogEvents) /\ Len(m) = Len(l) + Len(s)
      /\ \A i \in 1..(Len(l) + Len(s)) : m[i] = IF i <= Len(l) THEN l[i] ELSE s[i - Len(l)]
  BY <1>1, ConcatProperties, Zenon
<1>3. /\ Len(l) \in Nat /\ Len(s) \in Nat /\ DOMAIN l = 1..Len(l) /\ DOMAIN s = 1..Len(s)
      /\ DOMAIN m = 1..(Len(l) + Len(s))
  BY <1>2
<1>4. \A j \in DOMAIN l : m[j] = l[j]
  BY <1>2, <1>3
<1>5. ASSUME NEW j \in DOMAIN m, j > Len(l) PROVE \E i \in DOMAIN s : m[j] = s[i]
  <2>1. m[j] = s[j - Len(l)] /\ j - Len(l) \in DOMAIN s
    BY <1>2, <1>3, <1>5
  <2> QED
    BY <2>1
<1>6. Len(m) >= Len(l)
  BY <1>2, <1>3
<1> QED
  BY <1>1, <1>2, <1>4, <1>5, <1>6

\* Nobody has the lease any more.
LEMMA LeaseGone ==
    ASSUME WholeInv, NEW types \in Seq(StopTypes), NEW n \in 1..MaxAttempts, n <= Len(attempts),
           NEW p \in 0..NPhases, log' = log \o Events(types, n, p), toolRow' = StopTools,
           toolRow \in [Phases -> {"none", "running", "success", "interrupted"}],
           status' \notin Leased, lease' = 0, Len(attempts') = Len(attempts), UNCHANGED <<done, invFailed>>,
           status' = "completed" => done = NPhases /\ Whole,
           NEW w, worker' = w, w.pc \in Early => ~w.agent /\ ~w.model, w.pc \notin Early => w.me # 0,
           NEW q \in Seq(Commands), queue' = q, \A i \in DOMAIN q : Shape(q[i])
    PROVE  WholeInv'
<1>1. log \in Seq(LogEvents)
  BY DEF WholeInv, LogOK
<1>2. PICK m : /\ log' = m /\ m \in Seq(LogEvents)
               /\ Len(m) >= Len(log) /\ \A j \in DOMAIN log : m[j] = log[j]
               /\ \A j \in DOMAIN m : j > Len(log) => m[j].attempt = n /\ m[j].type \in StopTypes
  <2>1. PICK s : s = Events(types, n, p)
    OBVIOUS
  <2>2. s \in Seq(LogEvents) /\ \A j \in DOMAIN s : s[j].attempt = n /\ s[j].type \in StopTypes
    <3>1. types \in Seq(StopTypes) /\ n \in 1..MaxAttempts /\ p \in 0..NPhases
      OBVIOUS
    <3> QED
      BY <2>1, <3>1, EventsTyped
  <2>3. PICK m : m = log \o s
    OBVIOUS
  <2>4. /\ m \in Seq(LogEvents) /\ Len(m) >= Len(log) /\ \A j \in DOMAIN log : m[j] = log[j]
        /\ \A j \in DOMAIN m : j > Len(log) => \E i \in DOMAIN s : m[j] = s[i]
    BY <1>1, <2>2, <2>3, Added
  <2>5. \A j \in DOMAIN m : j > Len(log) => m[j].attempt = n /\ m[j].type \in StopTypes
    BY <2>2, <2>4
  <2> QED
    BY <2>1, <2>3, <2>4, <2>5
<1>3. ASSUME NEW E, \A e \in E : e.type \notin StopTypes
      PROVE  Extends(m, log, E) /\ Tally(m, E) = Tally(log, E)
  <2>1. Extends(m, log, E)
    BY <1>2, <1>3 DEF Extends
  <2> QED
    BY <1>1, <1>2, <2>1, TallySame
<1>4. LogOK'
  <2>1. \A i \in DOMAIN m : m[i].attempt <= Len(attempts)
    <3>1. /\ DOMAIN m = 1..Len(m) /\ DOMAIN log = 1..Len(log) /\ Len(m) \in Nat /\ Len(log) \in Nat
      BY <1>1, <1>2
    <3> QED
      BY <1>2, <3>1 DEF WholeInv, LogOK
  <2> QED
    BY <1>2, <2>1 DEF LogOK
<1>5. PhasesLogged'
  <2>1. \A q2 : \A e \in OfPhase("checkpoint.created", q2) : e.type \notin StopTypes
    BY DEF OfPhase, StopTypes, EndTypes
  <2>2. \A q2 : \A e \in OfPhase("phase.completed", q2) : e.type \notin StopTypes
    BY DEF OfPhase, StopTypes, EndTypes
  <2>3. \A q2 : /\ Tally(m, OfPhase("checkpoint.created", q2)) = Tally(log, OfPhase("checkpoint.created", q2))
                /\ Tally(m, OfPhase("phase.completed", q2)) = Tally(log, OfPhase("phase.completed", q2))
    BY <1>3, <2>1, <2>2
  <2>4. \A q2 \in Phases :
          /\ Tally(m, OfPhase("checkpoint.created", q2)) = Bit(q2 <= done)
          /\ ~invFailed => Tally(m, OfPhase("phase.completed", q2)) = Bit(q2 <= done)
    BY <2>3 DEF WholeInv, PhasesLogged
  <2> QED
    BY <1>2, <2>4 DEF PhasesLogged
<1>6. ToolsLogged'
  <2>1. \A q2 \in Phases : toolRow'[q2] # "running"
    BY DEF StopTools
  <2> QED
    BY <2>1 DEF ToolsLogged, ToolRuns
<1>7. EndsFirst(m)
  <2>1. \A e \in Of(AgentEnded \cup {"checkpoint.created"}) : e.type \notin StopTypes
    BY DEF Of, StopTypes, EndTypes, AgentEnded
  <2>2. PICK l : l = log
    OBVIOUS
  <2> QED
    BY <1>1, <1>2, <1>3, <2>1, <2>2, EndsFirstKept DEF WholeInv
<1>8. TaskFits(w)'
  BY DEF TaskFits, Live
<1>9. QueueFits(q, w)'
  <2>1. \A i \in DOMAIN q : q[i].attempt # 0
    <3>1. \A i \in DOMAIN q : q[i] \in Commands
      OBVIOUS
    <3> QED
      BY <3>1, CoordinatorAssumption DEF Commands
  <2>2. \A i \in DOMAIN q : Shape(q[i])'
    BY DEF Shape
  <2>3. \A i \in DOMAIN q : ~Writing(q[i])'
    BY <2>1 DEF Writing
  <2> QED
    BY <2>1, <2>2, <2>3 DEF QueueFits
<1>10. EndWhole'
  <2> SUFFICES ASSUME status' = "completed" PROVE done' = NPhases /\ Whole'
    BY DEF EndWhole
  <2>1. done = NPhases /\ ~invFailed /\ ModelsOpen(0)
    BY DEF Whole
  <2>2. /\ \A e \in Of({"model.started"}) : e.type \notin StopTypes
        /\ \A e \in Of({"model.completed"}) : e.type \notin StopTypes
        /\ \A e \in Of({"model.failed"}) : e.type \notin StopTypes
    BY DEF Of, StopTypes, EndTypes
  <2>3. /\ Ever("model.started")' = Ever("model.started")
        /\ Ever("model.completed")' = Ever("model.completed")
        /\ Ever("model.failed")' = Ever("model.failed")
    <3>1. \A type : Ever(type)' = Tally(m, Of({type}))
      BY <1>2 DEF Ever, Of
    <3> QED
      BY <1>3, <2>2, <3>1 DEF Ever
  <2> QED
    BY <2>1, <2>3 DEF Whole, ModelsOpen
<1>11. EndsFirst(log)' /\ TaskFits(worker)' /\ QueueFits(queue, worker)'
  BY <1>2, <1>7, <1>8, <1>9
<1> QED
  BY <1>4, <1>5, <1>6, <1>10, <1>11 DEF WholeInv

LEMMA AuditWhole == ASSUME CoordInv, WholeInv, Audit PROVE WholeInv'
<1>1. /\ lease = Len(attempts) /\ lease \in 1..MaxAttempts
      /\ attempts \in Seq({"running", "interrupted"} \cup Terminal)
      /\ toolRow \in [Phases -> {"none", "running", "success", "interrupted"}]
  BY CoordinatorAssumption DEF Audit, CoordInv, StoreOK
<1>2. Len(attempts') = Len(attempts)
  <2>1. "interrupted" \in {"running", "interrupted"} \cup Terminal /\ lease \in 1..Len(attempts)
    BY <1>1
  <2> QED
    BY <1>1, <2>1, ExceptSeq DEF Audit
<1>3. <<"run.interrupted", "attempt.interrupted">> \in Seq(StopTypes)
  BY DEF StopTypes
<1>4. PICK w : w = worker /\ (w.pc \in Early => ~w.agent /\ ~w.model) /\ (w.pc \notin Early => w.me # 0)
  BY DEF WholeInv, TaskFits, CoordInv, TaskOK
<1>5. PICK q : q = queue /\ q \in Seq(Commands) /\ \A i \in DOMAIN q : Shape(q[i])
  BY DEF WholeInv, QueueFits, CoordInv, QueueOK
<1>6. /\ log' = log \o Events(<<"run.interrupted", "attempt.interrupted">>, lease, 0)
      /\ toolRow' = StopTools /\ status' = "interrupted" /\ lease' = 0
      /\ UNCHANGED <<done, invFailed>> /\ worker' = w /\ queue' = q
  BY <1>4, <1>5 DEF Audit, localVars
<1>7. status' \notin Leased /\ status' # "completed" /\ 0 \in 0..NPhases
  BY <1>6, CoordinatorAssumption DEF Leased
<1>8. PICK n \in 1..MaxAttempts : n = lease
  BY <1>1
<1>9. log' = log \o Events(<<"run.interrupted", "attempt.interrupted">>, n, 0) /\ n <= Len(attempts)
  BY <1>1, <1>6, <1>8
<1> QED
  BY <1>1, <1>2, <1>3, <1>4, <1>5, <1>6, <1>7, <1>8, <1>9, LeaseGone

\* A new attempt has written nothing, and the first one has nothing to reconcile.
LEMMA AcquireWhole == ASSUME CoordInv, WholeInv, Acquire PROVE WholeInv'
<1>1. /\ worker.pc \in {"starting", "checked"} /\ worker \in Worker /\ UNCHANGED queue
      /\ ~worker.agent /\ ~worker.model /\ worker.why = "none"
      /\ UNCHANGED <<done, invFailed, toolRow, log>>
  BY DEF Acquire, CoordInv, TaskOK, WholeInv, TaskFits, Early
<1>2. CASE status # (IF worker.recovery THEN "interrupted" ELSE "created")
  <2>1. UNCHANGED storeVars /\ worker' = NoTask
    BY <1>2 DEF Acquire, storeVars
  <2> QED
    BY <1>1, <2>1, NoSpans, WholeQuits
<1>3. CASE status = (IF worker.recovery THEN "interrupted" ELSE "created")
  <2>1. /\ status' = "running" /\ lease' = Len(attempts) + 1
        /\ attempts' = Append(attempts, "running")
    BY <1>3 DEF Acquire
  <2>2. /\ Len(attempts) \in Nat /\ Len(attempts') = Len(attempts) + 1
        /\ log \in Seq(LogEvents) /\ \A i \in DOMAIN log : log[i] \in LogEvents /\ log[i].attempt <= Len(attempts)
    BY <2>1 DEF CoordInv, StoreOK, WholeInv, LogOK
  <2>3. PICK w : w = [worker EXCEPT !.pc = "owned", !.me = Len(attempts) + 1]
    OBVIOUS
  <2>4. /\ w.pc = "owned" /\ w.recovery = worker.recovery /\ w.agent = worker.agent
        /\ w.model = worker.model /\ worker' = w
    BY <1>1, <1>3, <2>3 DEF Acquire, Worker
  <2>5. ~ToolRuns /\ ~ToolRuns'
    BY <1>1, <1>3 DEF WholeInv, ToolsLogged, ToolRuns, Leased
  <2>6. \A types : Mine(types)' = 0
    <3>1. ASSUME NEW types PROVE Tally(log, OfAttempt(Len(attempts) + 1, types)) = 0
      <4>1. \A j \in DOMAIN log : log[j] \notin OfAttempt(Len(attempts) + 1, types)
        <5>1. \A j \in DOMAIN log : log[j].attempt \in Nat
          BY <2>2 DEF LogEvents
        <5> QED
          BY <2>2, <5>1 DEF OfAttempt
      <4> QED
        BY <2>2, <4>1, TallyNone
    <3> QED
      BY <1>1, <2>1, <3>1 DEF Mine
  <2>7. ~worker.recovery => ModelsOpen(0)'
    <3> SUFFICES ASSUME ~worker.recovery PROVE ModelsOpen(0)'
      OBVIOUS
    <3>1. Len(attempts) = 0
      BY <1>3 DEF CoordInv, StoreOK
    <3>2. \A j \in DOMAIN log : FALSE
      BY <2>2, <3>1 DEF LogEvents
    <3>3. \A type : Ever(type)' = 0
      BY <1>1, <2>2, <3>2, TallyNone DEF Ever
    <3> QED
      BY <3>3 DEF ModelsOpen
  <2>8. TaskFits(w)'
    <3>1. AgentsOpen(0)'
      BY <2>6 DEF AgentsOpen
    <3>2. At(w) = "owned"
      BY <2>4 DEF At
    <3> QED
      BY <1>1, <2>4, <2>5, <2>7, <3>1, <3>2 DEF TaskFits, SpansOK, Settled, Bit, InBody, Early
  <2>9. PICK q : q = queue /\ \A i \in DOMAIN q : /\ Shape(q[i]) /\ q[i].attempt \in Nat
                                                 /\ q[i].attempt <= Len(attempts)
    BY DEF WholeInv, QueueFits, CoordInv, QueueOK, CommandOK, Commands
  <2>10. QueueFits(q, w)'
    <3>1. \A i \in DOMAIN q : q[i].attempt # lease'
      BY <2>1, <2>2, <2>9
    <3>2. \A i \in DOMAIN q : Shape(q[i])'
      BY <2>9 DEF Shape
    <3>3. \A i \in DOMAIN q : ~Writing(q[i])'
      BY <3>1 DEF Writing
    <3> QED
      BY <3>1, <3>2, <3>3 DEF QueueFits
  <2>11. LogOK'
    <3>1. \A i \in DOMAIN log : log[i].attempt <= Len(attempts) + 1
      <4>1. \A i \in DOMAIN log : log[i].attempt \in Nat
        BY <2>2 DEF LogEvents
      <4> QED
        BY <2>2, <4>1
    <3> QED
      BY <1>1, <2>2, <3>1 DEF LogOK
  <2>12. PhasesLogged'
    BY <1>1 DEF WholeInv, PhasesLogged
  <2>13. ToolsLogged'
    <3>1. \A p, p2 \in Phases : toolRow'[p] = "running" /\ toolRow'[p2] = "running" => p = p2
      BY <1>1 DEF WholeInv, ToolsLogged
    <3>2. Mine(ToolStarted)' = 0 /\ Mine(ToolEnded)' = 0
      BY <2>6 DEF ToolStarted, ToolEnded
    <3> QED
      BY <2>5, <3>1, <3>2 DEF ToolsLogged, Bit
  <2>14. EndWhole'
    BY <2>1 DEF EndWhole
  <2>15. PICK l : l = log /\ EndsFirst(l) /\ log' = l
    BY <1>1 DEF WholeInv
  <2>16. EndsFirst(log)' /\ TaskFits(worker)' /\ QueueFits(queue, worker)'
    BY <1>1, <2>4, <2>8, <2>9, <2>10, <2>15
  <2> QED
    BY <2>11, <2>12, <2>13, <2>14, <2>16 DEF WholeInv
<1> QED
  BY <1>2, <1>3

-----------------------------------------------------------------------------
(* The log under the writer *)

\* A write is refused or lost, and the task, if it waits for it, gives up.
LEMMA AnswerWhole ==
    ASSUME CoordInv, WholeInv, UNCHANGED storeVars, queue # <<>>, queue' = Tail(queue),
           NEW w, (w.why # "none" /\ w.pc \notin Early) \/ w = worker, worker' = w
    PROVE  WholeInv'
<1>1. UNCHANGED <<status, done, invFailed, toolRow, lease, log, attempts>>
  BY DEF storeVars
<1>2. PICK q : q = queue /\ q \in Seq(Commands) /\ QueueFits(q, worker)
  BY DEF CoordInv, QueueOK, WholeInv
<1>3. QueueFits(Tail(q), worker)
  BY <1>2, QueueShifts
<1>4. PICK t : t = Tail(q) /\ QueueFits(t, worker)
  BY <1>3
<1>5. QueueFits(t, w) /\ TaskFits(w)
  <2>1. CASE w = worker
    BY <1>4, <2>1 DEF WholeInv
  <2>2. CASE w.why # "none" /\ w.pc \notin Early
    <3>1. ~Live(w)
      BY <2>2 DEF Live
    <3> QED
      BY <1>4, <2>2, <3>1, QueueForIdle DEF TaskFits
  <2> QED
    BY <2>1, <2>2
<1>6. queue' = t
  BY <1>2, <1>4
<1> QED
  BY <1>1, <1>5, <1>6, WholeKept

\* A task that awaits a write is at one of the places that write.
LEMMA AwaitsAt ==
    ASSUME CoordInv, NEW c, CommandOK(c, worker), c.from = "worker"
    PROVE  /\ worker.pc = "sent" /\ worker \in Worker /\ worker.me > 0
           /\ worker.next \notin Early \cup {"sent", "complete", "except"}
           /\ worker.next \in {"exit", "afterCancel"} \/ worker.why = "none"
BY DEF CommandOK, Awaited, CoordInv, TaskOK, At, Early

LEMMA WriterFailsWhole == ASSUME CoordInv, WholeInv, WriterFails PROVE WholeInv'
<1>1. UNCHANGED storeVars /\ queue # <<>> /\ queue' = Tail(queue) /\ worker \in Worker
  BY DEF WriterFails, CoordInv, TaskOK
<1>2. PICK c : c = Head(queue)
  OBVIOUS
<1>3. CommandOK(c, worker)
  BY <1>1, <1>2, HeadOK DEF CoordInv
<1>4. CASE c.from = "worker"
  <2>1. PICK w : w = IF worker.why # "none" THEN Goto("exit") ELSE Raise("persistence")
    OBVIOUS
  <2>2. w.why # "none" /\ w.pc \notin Early
    <3>1. CASE worker.why # "none"
      BY <1>1, <2>1, <3>1 DEF Goto, Worker, Early
    <3>2. CASE worker.why = "none"
      BY <1>1, <2>1, <3>2 DEF Raise, Worker, Early
    <3> QED
      BY <3>1, <3>2
  <2>3. worker' = w
    BY <1>2, <1>4, <2>1 DEF WriterFails, Answer
  <2> QED
    BY <1>1, <2>2, <2>3, AnswerWhole
<1>5. CASE c.from # "worker"
  <2>1. UNCHANGED worker
    BY <1>2, <1>5 DEF WriterFails, Answer
  <2>2. PICK w : w = worker
    OBVIOUS
  <2> QED
    BY <1>1, <2>1, <2>2, AnswerWhole
<1> QED
  BY <1>4, <1>5

LEMMA RefusedWhole ==
    ASSUME CoordInv, WholeInv, WriterApplies, ~Accepts(Head(queue))
    PROVE  WholeInv'
<1>1. UNCHANGED storeVars /\ queue # <<>> /\ queue' = Tail(queue) /\ worker \in Worker
  BY DEF WriterApplies, CoordInv, TaskOK
<1>2. PICK c : c = Head(queue) /\ ~Accepts(c)
  OBVIOUS
<1>3. CASE c.from = "worker"
  <2>1. PICK w : w = Refused(c)
    OBVIOUS
  <2>2. w.why # "none" /\ w.pc \notin Early
    <3>1. CASE worker.next \in {"exit", "afterCancel"} /\ worker.why # "none"
      BY <1>1, <2>1, <3>1 DEF Refused, Goto, Worker, Early
    <3>2. CASE ~(worker.next \in {"exit", "afterCancel"} /\ worker.why # "none")
      <4>1. PICK why \in {"cancel", "leaseLost", "error"} : w = Raise(why)
        BY <2>1, <3>2 DEF Refused
      <4> QED
        BY <1>1, <4>1 DEF Raise, Worker, Early
    <3> QED
      BY <3>1, <3>2
  <2>3. worker' = w
    BY <1>2, <1>3, <2>1 DEF WriterApplies, Answer
  <2> QED
    BY <1>1, <2>2, <2>3, AnswerWhole
<1>4. CASE c.from # "worker"
  <2>1. UNCHANGED worker
    BY <1>2, <1>4 DEF WriterApplies, Answer
  <2>2. PICK w : w = worker
    OBVIOUS
  <2> QED
    BY <1>1, <2>1, <2>2, AnswerWhole
<1> QED
  BY <1>3, <1>4

\* Behind a write of the attempt there is none, and no completion either.
LEMMA BehindWrite ==
    ASSUME NEW q \in Seq(Commands), q # <<>>, NEW v, QueueFits(q, v), Writing(q[1]),
           lease' = lease, NEW t, t = Tail(q), NEW w
    PROVE  QueueFits(t, w)'
<1>1. \A i \in DOMAIN t : i + 1 \in DOMAIN q /\ t[i] = q[i + 1] /\ i \in 1..Len(t)
  OBVIOUS
<1>2. 1 \in DOMAIN q /\ \A i \in DOMAIN t : i + 1 # 1
  BY <1>1
<1>3. \A i \in DOMAIN t : Shape(t[i]) /\ ~Writing(t[i]) /\ ~(t[i].target = "completed" /\ t[i].attempt = lease)
  <2> SUFFICES ASSUME NEW i \in DOMAIN t
               PROVE  Shape(t[i]) /\ ~Writing(t[i]) /\ ~(t[i].target = "completed" /\ t[i].attempt = lease)
    OBVIOUS
  <2>1. Shape(t[i])
    BY <1>1 DEF QueueFits
  <2>2. ~Writing(t[i])
    BY <1>1, <1>2 DEF QueueFits
  <2>3. ~(t[i].target = "completed" /\ t[i].attempt = lease)
    BY <1>1, <1>2 DEF QueueFits
  <2> QED
    BY <2>1, <2>2, <2>3
<1>4. \A i \in DOMAIN t : /\ Shape(t[i])' /\ ~Writing(t[i])'
                          /\ ~(t[i].target = "completed" /\ t[i].attempt = lease')
  BY <1>3 DEF Shape, Writing
<1> QED
  BY <1>4 DEF QueueFits

\* What the store becomes when an event of the attempt is written.
LEMMA EventStore ==
    ASSUME WholeInv, NEW type \in EventTypes \ {"phase.completed", "checkpoint.created"},
           lease \in 1..MaxAttempts, lease <= Len(attempts), status \in Leased,
           toolRow \in [Phases -> {"none", "running", "success", "interrupted"}],
           NEW c, c.types[1] = type, c.phase \in 0..NPhases, c.op = "event",
           type = "run.cancel_requested" \/ WriteFits(c),
           log' = Append(log, Event(type, lease, c.phase)), ApplyEvent(c)
    PROVE  /\ LogOK' /\ PhasesLogged' /\ ToolsLogged' /\ EndsFirst(log)' /\ EndWhole'
           /\ \A types : Mine(types)' = Mine(types) + Bit(type \in types)
           /\ \A k : Ever(k)' = Ever(k) + Bit(type = k)
<1>1. log \in Seq(LogEvents) /\ UNCHANGED <<status, lease, attempts, done, invFailed>>
  BY DEF WholeInv, LogOK, ApplyEvent
<1>2. PICK e : e = Event(type, lease, c.phase)
  OBVIOUS
<1>3. e \in LogEvents /\ e.type = type /\ e.attempt = lease /\ log' = Append(log, e)
  BY <1>2 DEF Event, LogEvents, LogTypes
<1>4. /\ \A types : Mine(types)' = Mine(types) + Bit(type \in types)
      /\ \A k : Ever(k)' = Ever(k) + Bit(type = k)
      /\ \A k, p : Tally(log', OfPhase(k, p)) = Tally(log, OfPhase(k, p)) + Bit(type = k /\ e.phase = p)
  BY <1>1, <1>3, Noted
<1>5. LogOK'
  <2>1. PICK l, m : l = log /\ m = Append(l, e)
    OBVIOUS
  <2>2. /\ m \in Seq(LogEvents)
        /\ \A i \in DOMAIN m : (i = Len(l) + 1 /\ m[i] = e) \/ (i \in DOMAIN l /\ m[i] = l[i])
    BY <1>1, <1>3, <2>1, Appended
  <2>3. \A i \in DOMAIN m : m[i].attempt <= Len(attempts)
    BY <1>3, <2>1, <2>2 DEF WholeInv, LogOK
  <2> QED
    BY <1>1, <1>3, <2>1, <2>2, <2>3 DEF LogOK
<1>6. PhasesLogged'
  <2>1. ASSUME NEW p
        PROVE  /\ Tally(log', OfPhase("checkpoint.created", p)) = Tally(log, OfPhase("checkpoint.created", p))
               /\ Tally(log', OfPhase("phase.completed", p)) = Tally(log, OfPhase("phase.completed", p))
    <3>1. /\ Tally(log, OfPhase("checkpoint.created", p)) \in Nat
          /\ Tally(log, OfPhase("phase.completed", p)) \in Nat
      BY <1>1, TallyNat
    <3>2. /\ Tally(log', OfPhase("checkpoint.created", p)) = Tally(log, OfPhase("checkpoint.created", p)) + 0
          /\ Tally(log', OfPhase("phase.completed", p)) = Tally(log, OfPhase("phase.completed", p)) + 0
      BY <1>4 DEF Bit
    <3> QED
      BY <3>1, <3>2
  <2>2. \A p \in Phases :
          /\ Tally(log', OfPhase("checkpoint.created", p)) = Bit(p <= done)
          /\ ~invFailed => Tally(log', OfPhase("phase.completed", p)) = Bit(p <= done)
    BY <2>1 DEF WholeInv, PhasesLogged
  <2> QED
    BY <1>1, <2>2 DEF PhasesLogged
<1>7. ToolsLogged'
  <2>1. /\ \A p, p2 \in Phases : toolRow[p] = "running" /\ toolRow[p2] = "running" => p = p2
        /\ Mine(ToolStarted) = Mine(ToolEnded) + Bit(ToolRuns)
        /\ Mine(ToolStarted) \in Nat /\ Mine(ToolEnded) \in Nat
    BY <1>1, CountsNat DEF WholeInv, ToolsLogged
  <2>2. /\ Mine(ToolStarted)' = Mine(ToolStarted) + Bit(type \in ToolStarted)
        /\ Mine(ToolEnded)' = Mine(ToolEnded) + Bit(type \in ToolEnded)
    BY <1>4 DEF ToolStarted, ToolEnded
  <2>3. CASE type = "tool.started"
    <3>1. c.phase \in Phases /\ ~ToolRuns /\ toolRow' = [toolRow EXCEPT ![c.phase] = "running"]
      BY <2>3 DEF WriteFits, ApplyEvent
    <3>2. ToolRuns' /\ \A p \in Phases : toolRow'[p] = "running" => p = c.phase
      BY <3>1 DEF ToolRuns
    <3>3. Mine(ToolStarted)' = Mine(ToolEnded)' + 1
      BY <2>1, <2>2, <2>3, <3>1 DEF Bit, ToolStarted, ToolEnded
    <3> QED
      BY <1>1, <3>2, <3>3 DEF ToolsLogged, Bit
  <2>4. CASE type \in ToolEnded
    <3>1. /\ c.phase \in Phases /\ toolRow[c.phase] = "running"
          /\ toolRow' \in {[toolRow EXCEPT ![c.phase] = "success"], [toolRow EXCEPT ![c.phase] = "interrupted"]}
      BY <2>4 DEF WriteFits, ApplyEvent, ToolEnded
    <3>2. ToolRuns /\ \A p \in Phases : toolRow'[p] # "running"
      BY <2>1, <3>1 DEF ToolRuns
    <3>3. Mine(ToolStarted)' = Mine(ToolEnded)' + 0
      BY <2>1, <2>2, <2>4, <3>2 DEF Bit, ToolStarted, ToolEnded
    <3> QED
      BY <1>1, <3>2, <3>3 DEF ToolsLogged, Bit, ToolRuns
  <2>5. CASE type \notin ToolStarted \cup ToolEnded
    <3>1. toolRow' = toolRow
      BY <2>5 DEF ApplyEvent, ToolStarted, ToolEnded
    <3>2. ToolRuns' = ToolRuns
      BY <3>1 DEF ToolRuns
    <3>3. Mine(ToolStarted)' = Mine(ToolStarted) /\ Mine(ToolEnded)' = Mine(ToolEnded)
      BY <2>1, <2>2, <2>5 DEF Bit
    <3> QED
      BY <1>1, <2>1, <3>1, <3>2, <3>3 DEF ToolsLogged, Bit
  <2> QED
    BY <2>3, <2>4, <2>5 DEF ToolStarted
<1>8. EndsFirst(log)'
  <2>1. type \in AgentEnded => Mine(ToolStarted) = Mine(ToolEnded)
    <3> SUFFICES ASSUME type \in AgentEnded PROVE Mine(ToolStarted) = Mine(ToolEnded)
      OBVIOUS
    <3>1. ~ToolRuns
      BY DEF WriteFits, AgentEnded
    <3>2. Mine(ToolEnded) \in Nat
      BY <1>1, CountsNat
    <3> QED
      BY <3>1, <3>2 DEF WholeInv, ToolsLogged, Bit
  <2>2. PICK l : l = log /\ EndsFirst(l)
    BY DEF WholeInv
  <2>3. EndsFirst(Append(l, e))
    <3>1. l \in Seq(LogEvents) /\ e.type # "checkpoint.created"
      BY <1>1, <1>3, <2>2
    <3>2. e.type \in AgentEnded =>
            Tally(l, OfAttempt(e.attempt, ToolStarted)) = Tally(l, OfAttempt(e.attempt, ToolEnded))
      BY <1>3, <2>1, <2>2 DEF Mine
    <3> QED
      BY <1>3, <2>2, <3>1, <3>2, EndsFirstAppend
  <2> QED
    BY <1>3, <2>2, <2>3
<1>9. EndWhole'
  BY <1>1 DEF EndWhole, Leased
<1> QED
  BY <1>4, <1>5, <1>6, <1>7, <1>8, <1>9

\* What the task remembers of its spans becomes what the log says of them.
LEMMA EventSpans ==
    ASSUME SpansOK(worker), log \in Seq(LogEvents), worker.pc = "sent",
           worker.agent \in BOOLEAN, worker.model \in BOOLEAN,
           NEW type, NEW c, c.types[1] = type, WriteFits(c), LiveFits(c, worker),
           toolRow \in [Phases -> {"none", "running", "success", "interrupted"}],
           \A p, q \in Phases : toolRow[p] = "running" /\ toolRow[q] = "running" => p = q,
           ApplyEvent(c),
           \A types : Mine(types)' = Mine(types) + Bit(type \in types),
           \A k : Ever(k)' = Ever(k) + Bit(type = k),
           NEW w, w.pc = worker.next, w.agent = worker.agent, w.model = worker.model,
           w.phase = worker.phase, w.failedPhase = worker.failedPhase, w.recovery = worker.recovery,
           w.pc \notin {"sent", "complete"}
    PROVE  SpansOK(w)'
<1>1. At(w) = At(worker) /\ Settled(w) = Settled(worker) /\ UNCHANGED invFailed
  BY DEF At, Settled, ApplyEvent
<1>2. ToolRuns' => w.agent /\ toolRow'[w.phase] = "running"
  <2>1. CASE type = "tool.started"
    <3>1. toolRow' = [toolRow EXCEPT ![c.phase] = "running"] /\ c.phase = worker.phase /\ c.phase \in Phases
      BY <2>1 DEF ApplyEvent, LiveFits, WriteFits
    <3> QED
      BY <2>1, <3>1 DEF LiveFits
  <2>2. CASE type \in ToolEnded
    <3>1. /\ c.phase \in Phases /\ toolRow[c.phase] = "running"
          /\ toolRow' \in {[toolRow EXCEPT ![c.phase] = "success"], [toolRow EXCEPT ![c.phase] = "interrupted"]}
      BY <2>2 DEF WriteFits, ApplyEvent, ToolEnded
    <3> QED
      BY <3>1 DEF ToolRuns
  <2>3. CASE type \notin ToolStarted \cup ToolEnded
    <3>1. toolRow' = toolRow
      BY <2>3 DEF ApplyEvent, ToolStarted, ToolEnded
    <3> QED
      BY <3>1 DEF SpansOK, ToolRuns
  <2> QED
    BY <2>1, <2>2, <2>3 DEF ToolStarted
<1>3. /\ Mine(AgentStarted) \in Nat /\ Mine(AgentEnded) \in Nat /\ Ever("model.started") \in Nat
      /\ Ever("model.completed") \in Nat /\ Ever("model.failed") \in Nat
  BY CountsNat
<1>4. AgentsOpen(Bit(w.agent))'
  <2>1. /\ Mine(AgentStarted)' = Mine(AgentStarted) + Bit(type \in AgentStarted)
        /\ Mine(AgentEnded)' = Mine(AgentEnded) + Bit(type \in AgentEnded)
    BY DEF AgentStarted, AgentEnded
  <2>2. CASE type \in AgentStarted
    <3>1. w.agent /\ AgentsOpen(0) /\ type \notin AgentEnded
      BY <2>2 DEF LiveFits, AgentStarted, AgentEnded
    <3> QED
      BY <1>3, <2>1, <2>2, <3>1 DEF AgentsOpen, Bit
  <2>3. CASE type \in AgentEnded
    <3>1. ~w.agent /\ AgentsOpen(1) /\ type \notin AgentStarted
      BY <2>3 DEF LiveFits, AgentStarted, AgentEnded
    <3> QED
      BY <1>3, <2>1, <2>3, <3>1 DEF AgentsOpen, Bit
  <2>4. CASE type \notin AgentStarted \cup AgentEnded
    <3>1. AgentsOpen(Bit(w.agent))
      BY <2>4 DEF LiveFits, AgentStarted
    <3> QED
      BY <1>3, <2>1, <2>4, <3>1 DEF AgentsOpen, Bit
  <2> QED
    BY <2>2, <2>3, <2>4
<1>5. Settled(w) => ModelsOpen(Bit(w.model))'
  <2> SUFFICES ASSUME Settled(worker) PROVE ModelsOpen(Bit(w.model))'
    BY <1>1
  <2>1. /\ Ever("model.started")' = Ever("model.started") + Bit(type = "model.started")
        /\ Ever("model.completed")' = Ever("model.completed") + Bit(type = "model.completed")
        /\ Ever("model.failed")' = Ever("model.failed") + Bit(type = "model.failed")
    OBVIOUS
  <2>2. CASE type = "model.started"
    <3>1. w.model /\ ModelsOpen(0)
      BY <2>2 DEF LiveFits
    <3> QED
      BY <1>3, <2>1, <2>2, <3>1 DEF ModelsOpen, Bit
  <2>3. CASE type \in ModelEnded
    <3>1. ~w.model /\ ModelsOpen(1)
      BY <2>3 DEF LiveFits
    <3> QED
      BY <1>3, <2>1, <2>3, <3>1 DEF ModelsOpen, Bit, ModelEnded
  <2>4. CASE type \notin {"model.started"} \cup ModelEnded
    <3>1. ModelsOpen(Bit(w.model))
      BY <2>4 DEF LiveFits
    <3> QED
      BY <1>3, <2>1, <2>4, <3>1 DEF ModelsOpen, Bit, ModelEnded
  <2> QED
    BY <2>2, <2>3, <2>4
<1>6. /\ At(w) \notin InBody => ~w.agent
      /\ At(w) \notin InBody \ {"executed", "merge"} => ~w.model
      /\ At(w) \in {"executed", "merge"} /\ invFailed => w.failedPhase
  BY <1>1 DEF SpansOK
<1>7. (Settled(w) => ModelsOpen(Bit(w.model)))'
  BY <1>5 DEF Settled, At
<1> QED
  BY <1>1, <1>2, <1>4, <1>6, <1>7 DEF SpansOK, At

\* The head of the queue, when the store accepts it.
LEMMA AcceptedHead ==
    ASSUME CoordInv, WholeInv, WriterApplies, NEW c, c = Head(queue), Accepts(c)
    PROVE  /\ CommandOK(c, worker) /\ c \in Commands /\ Shape(c) /\ Apply(c) /\ Answer(c, Goto(worker.next))
           /\ c.attempt = lease /\ lease \in 1..MaxAttempts /\ lease = Len(attempts) /\ status \in Leased
           /\ lease \in DOMAIN attempts
           /\ Writing(c) => WriteFits(c) /\ (Live(worker) => c.from = "worker" /\ LiveFits(c, worker))
           /\ c.target = "completed" => Whole
           /\ queue \in Seq(Commands) /\ queue # <<>> /\ queue' = Tail(queue) /\ queue[1] = c
<1>1. queue \in Seq(Commands) /\ queue # <<>> /\ queue' = Tail(queue)
  BY DEF WriterApplies, CoordInv, QueueOK
<1>2. PICK q : q = queue /\ q \in Seq(Commands) /\ q # <<>> /\ QueueFits(q, worker) /\ c = Head(q)
  BY <1>1 DEF WholeInv
<1>3. 1 \in DOMAIN q /\ q[1] = c
  BY <1>2
<1>4. CommandOK(c, worker) /\ c \in Commands
  BY <1>1, HeadOK DEF CoordInv, CommandOK
<1>5. /\ c.attempt = lease /\ status \in Leased /\ lease = Len(attempts) /\ lease \in DOMAIN attempts
      /\ Apply(c) /\ Answer(c, Goto(worker.next))
  BY DEF WriterApplies, Accepts, Fenced, CoordInv, StoreOK
<1>6. lease \in 1..MaxAttempts
  BY <1>4, <1>5 DEF Commands
<1>7. Shape(c)
  BY <1>2, <1>3 DEF QueueFits
<1>8. Writing(c) => WriteFits(c) /\ (Live(worker) => c.from = "worker" /\ LiveFits(c, worker))
  BY <1>2, <1>3 DEF QueueFits
<1>9. c.target = "completed" => Whole
  BY <1>2, <1>3, <1>5 DEF QueueFits
<1> QED
  BY <1>1, <1>2, <1>3, <1>4, <1>5, <1>6, <1>7, <1>8, <1>9

\* Where the answer leaves the task.
LEMMA AnsweredTask ==
    ASSUME CoordInv, NEW c, CommandOK(c, worker), Answer(c, Goto(worker.next))
    PROVE  \E w : /\ worker' = w
                  /\ \/ w = worker /\ c.from # "worker"
                     \/ /\ c.from = "worker" /\ w = Goto(worker.next)
                        /\ w.pc = worker.next /\ w.pc \notin Early \cup {"sent", "complete", "except"}
                        /\ w.me = worker.me /\ w.me # 0 /\ w.why = worker.why /\ w.agent = worker.agent
                        /\ w.model = worker.model /\ w.phase = worker.phase
                        /\ w.failedPhase = worker.failedPhase /\ w.recovery = worker.recovery
<1>1. CASE c.from = "worker"
  <2>1. PICK w : w = Goto(worker.next)
    OBVIOUS
  <2>2. /\ worker.next \notin Early \cup {"sent", "complete", "except"}
        /\ worker \in Worker /\ worker.me # 0
    BY <1>1, AwaitsAt DEF CoordInv, TaskOK, Worker
  <2>3. /\ w.pc = worker.next /\ w.me = worker.me /\ w.why = worker.why /\ w.agent = worker.agent
        /\ w.model = worker.model /\ w.phase = worker.phase
        /\ w.failedPhase = worker.failedPhase /\ w.recovery = worker.recovery
    BY <2>1, <2>2 DEF Goto, Worker
  <2>4. worker' = w
    BY <1>1, <2>1 DEF Answer
  <2> QED
    BY <1>1, <2>1, <2>2, <2>3, <2>4
<1>2. CASE c.from # "worker"
  BY <1>2 DEF Answer
<1> QED
  BY <1>1, <1>2

LEMMA EventWhole ==
    ASSUME CoordInv, WholeInv, WriterApplies, NEW c, c = Head(queue), Accepts(c), c.op = "event"
    PROVE  WholeInv'
<1>1. /\ CommandOK(c, worker) /\ c \in Commands /\ Shape(c) /\ Apply(c) /\ Answer(c, Goto(worker.next))
      /\ c.attempt = lease /\ lease \in 1..MaxAttempts /\ lease = Len(attempts) /\ status \in Leased
      /\ Writing(c) => WriteFits(c) /\ (Live(worker) => c.from = "worker" /\ LiveFits(c, worker))
      /\ queue \in Seq(Commands) /\ queue # <<>> /\ queue' = Tail(queue) /\ queue[1] = c
  BY AcceptedHead
<1>2. PICK type : type = c.types[1]
  OBVIOUS
<1>3. /\ c.types = <<type>> /\ type \in EventTypes \ {"phase.completed", "checkpoint.created"}
      /\ c.phase \in 0..NPhases
      /\ c.from = "api" => type = "run.cancel_requested"
  <2>1. c.types \in Seq(EventTypes) /\ c.phase \in 0..NPhases
    BY <1>1 DEF Commands
  <2>2. /\ c.types = <<type>> /\ type \notin {"phase.completed", "checkpoint.created"}
        /\ c.from = "api" => c.types = <<"run.cancel_requested">>
    BY <1>1, <1>2 DEF Shape
  <2>3. PICK s : s \in Seq(EventTypes) /\ s = <<type>>
    BY <2>1, <2>2
  <2>4. type \in EventTypes
    <3>1. Len(s) = 1 /\ s[1] = type
      BY <2>3
    <3> QED
      BY <2>3, <3>1
  <2>5. c.from = "api" => type = "run.cancel_requested"
    BY <1>2, <2>2
  <2> QED
    BY <2>1, <2>2, <2>4, <2>5
<1>4. /\ toolRow \in [Phases -> {"none", "running", "success", "interrupted"}]
      /\ log \in Seq(LogEvents)
      /\ \A p, p2 \in Phases : toolRow[p] = "running" /\ toolRow[p2] = "running" => p = p2
      /\ worker \in Worker /\ worker.agent \in BOOLEAN /\ worker.model \in BOOLEAN
  BY DEF CoordInv, StoreOK, TaskOK, WholeInv, LogOK, ToolsLogged, Worker
<1>5. ApplyEvent(c) /\ log' = Append(log, Event(type, lease, c.phase))
  <2>1. ApplyEvent(c) /\ log' = log \o Events(<<type>>, lease, c.phase)
    BY <1>1, <1>3 DEF Apply
  <2>2. Events(<<type>>, lease, c.phase) = <<Event(type, lease, c.phase)>>
    BY DEF Events
  <2>3. PICK l, e : l = log /\ e = Event(type, lease, c.phase)
    OBVIOUS
  <2>4. e \in LogEvents
    BY <1>1, <1>3, <2>3 DEF Event, LogEvents, LogTypes
  <2>5. l \o <<e>> = Append(l, e)
    BY <1>4, <2>3, <2>4
  <2> QED
    BY <2>1, <2>2, <2>3, <2>5
<1>6. type = "run.cancel_requested" \/ WriteFits(c)
  BY <1>1, <1>3 DEF Writing
<1>7. /\ LogOK' /\ PhasesLogged' /\ ToolsLogged' /\ EndsFirst(log)' /\ EndWhole'
      /\ \A types : Mine(types)' = Mine(types) + Bit(type \in types)
      /\ \A k : Ever(k)' = Ever(k) + Bit(type = k)
  BY <1>1, <1>2, <1>3, <1>4, <1>5, <1>6, EventStore
<1>8. UNCHANGED <<lease, done, invFailed>>
  BY <1>5 DEF ApplyEvent
<1>9. PICK q : q = queue /\ q \in Seq(Commands) /\ q # <<>> /\ q[1] = c /\ QueueFits(q, worker)
  BY <1>1 DEF WholeInv
<1>10. PICK t : t = Tail(q) /\ queue' = t
  BY <1>1, <1>9
<1>11. PICK w : /\ worker' = w
                /\ \/ w = worker /\ c.from # "worker"
                   \/ /\ c.from = "worker"
                      /\ w.pc = worker.next /\ w.pc \notin Early \cup {"sent", "complete", "except"}
                      /\ w.me = worker.me /\ w.why = worker.why /\ w.agent = worker.agent
                      /\ w.model = worker.model /\ w.phase = worker.phase
                      /\ w.failedPhase = worker.failedPhase /\ w.recovery = worker.recovery
  BY <1>1, AnsweredTask
<1>12. CASE Writing(c)
  <2>1. QueueFits(t, w)'
    BY <1>8, <1>9, <1>10, <1>12, BehindWrite
  <2>2. TaskFits(w)'
    <3>1. CASE c.from # "worker"
      <4>1. ~Live(worker) /\ w = worker
        BY <1>1, <1>11, <1>12, <3>1
      <4>2. ~Live(w)'
        BY <1>8, <4>1 DEF Live
      <4>3. w.pc \in Early => ~w.agent /\ ~w.model
        BY <4>1 DEF WholeInv, TaskFits
      <4> QED
        BY <4>2, <4>3 DEF TaskFits
    <3>2. CASE c.from = "worker"
      <4>1. /\ w.pc = worker.next /\ w.pc \notin Early \cup {"sent", "complete"} /\ w.me = worker.me
            /\ w.why = worker.why /\ w.agent = worker.agent
            /\ w.model = worker.model /\ w.phase = worker.phase
            /\ w.failedPhase = worker.failedPhase /\ w.recovery = worker.recovery
        BY <1>11, <3>2
      <4>2. worker.pc = "sent"
        BY <1>1, <3>2, AwaitsAt
      <4>3. Live(w)' => Live(worker)
        BY <1>8, <4>1, <4>2 DEF Live, Early
      <4>4. Live(worker) => SpansOK(worker) /\ LiveFits(c, worker) /\ WriteFits(c)
        BY <1>1, <1>12 DEF WholeInv, TaskFits
      <4>5. Live(worker) => SpansOK(w)'
        BY <1>2, <1>4, <1>5, <1>7, <4>1, <4>2, <4>4, EventSpans
      <4> QED
        BY <4>1, <4>3, <4>5 DEF TaskFits
    <3> QED
      BY <3>1, <3>2
  <2> QED
    BY <1>7, <1>10, <1>11, <2>1, <2>2 DEF WholeInv
<1>13. CASE ~Writing(c)
  <2>1. c.from = "api" /\ type = "run.cancel_requested" /\ w = worker
    BY <1>1, <1>3, <1>11, <1>13 DEF Writing
  <2>2. toolRow' = toolRow
    BY <1>2, <1>5, <2>1 DEF ApplyEvent
  <2>3. \A types : type \notin types => Mine(types)' = Mine(types)
    BY <1>4, <1>7, CountsNat DEF Bit
  <2>4. \A k : k # type => Ever(k)' = Ever(k)
    BY <1>4, <1>7, CountsNat DEF Bit
  <2>5. Same
    <3>1. \A types \in {ToolStarted, ToolEnded, AgentStarted, AgentEnded} : type \notin types
      BY <2>1 DEF ToolStarted, ToolEnded, AgentStarted, AgentEnded
    <3>2. \A k \in {"model.started"} \cup ModelEnded : k # type
      BY <2>1 DEF ModelEnded
    <3> QED
      BY <1>8, <2>2, <2>3, <2>4, <3>1, <3>2 DEF Same
  <2>6. QueueFits(t, worker) /\ TaskFits(worker)
    BY <1>9, <1>10, QueueShifts DEF WholeInv
  <2>7. QueueFits(t, w)' /\ TaskFits(w)'
    BY <2>1, <2>5, <2>6, SameFits
  <2> QED
    BY <1>7, <1>10, <1>11, <2>7 DEF WholeInv
<1> QED
  BY <1>12, <1>13

\* Two events are appended one after the other.
LEMMA TwoAppended ==
    ASSUME NEW l \in Seq(LogEvents), NEW x \in LogEvents, NEW y \in LogEvents
    PROVE  l \o <<x, y>> = Append(Append(l, x), y)
<1>1. PICK s : s = <<x, y>>
  OBVIOUS
<1>2. s \in Seq(LogEvents) /\ Len(s) = 2 /\ s[1] = x /\ s[2] = y
  BY <1>1
<1>3. PICK m : m = l \o s
  OBVIOUS
<1>4. /\ m \in Seq(LogEvents) /\ Len(m) = Len(l) + Len(s)
      /\ \A i \in 1..(Len(l) + Len(s)) : m[i] = IF i <= Len(l) THEN l[i] ELSE s[i - Len(l)]
  BY <1>2, <1>3, ConcatProperties, Zenon
<1>5. PICK k : k = Append(l, x)
  OBVIOUS
<1>6. PICK r : r = Append(k, y)
  OBVIOUS
<1>7. /\ Len(l) \in Nat /\ k \in Seq(LogEvents) /\ Len(k) = Len(l) + 1 /\ k[Len(l) + 1] = x
      /\ \A i \in 1..Len(l) : k[i] = l[i]
  BY <1>5
<1>8. /\ r \in Seq(LogEvents) /\ Len(r) = Len(l) + 2 /\ r[Len(l) + 2] = y
      /\ \A i \in 1..(Len(l) + 1) : r[i] = k[i]
  BY <1>6, <1>7
<1>9. \A i \in 1..(Len(l) + 2) : m[i] = r[i]
  <2> SUFFICES ASSUME NEW i \in 1..(Len(l) + 2) PROVE m[i] = r[i]
    OBVIOUS
  <2>1. m[i] = IF i <= Len(l) THEN l[i] ELSE s[i - Len(l)]
    BY <1>2, <1>4, <1>7
  <2>2. CASE i \in 1..Len(l)
    BY <1>7, <1>8, <2>1, <2>2
  <2>3. CASE i = Len(l) + 1
    BY <1>2, <1>7, <1>8, <2>1, <2>3
  <2>4. CASE i = Len(l) + 2
    BY <1>2, <1>7, <1>8, <2>1, <2>4
  <2> QED
    BY <1>7, <2>2, <2>3, <2>4
<1>10. m = r
  <2>1. m \in [1..(Len(l) + 2) -> LogEvents] /\ r \in [1..(Len(l) + 2) -> LogEvents]
    BY <1>2, <1>4, <1>7, <1>8
  <2> QED
    BY <1>9, <2>1
<1> QED
  BY <1>1, <1>3, <1>5, <1>6, <1>10

\* What the store becomes when a phase is committed.
LEMMA PhaseStore ==
    ASSUME WholeInv, lease \in 1..MaxAttempts, lease <= Len(attempts), status \in Leased,
           done \in 0..NPhases, NEW c, c.op = "phase", c.base = done, c.phase = done + 1,
           c.phase \in 0..NPhases, c.target \in {"none", "failed"}, WriteFits(c),
           NEW type, type = IF c.target = "failed" THEN "phase.failed" ELSE "phase.completed",
           log' = log \o Events(<<type, "checkpoint.created">>, lease, c.phase), ApplyPhase(c)
    PROVE  /\ LogOK' /\ PhasesLogged' /\ ToolsLogged' /\ EndsFirst(log)' /\ EndWhole'
           /\ \A types : type \notin types /\ "checkpoint.created" \notin types
                         => Mine(types)' = Mine(types)
           /\ \A k : k \notin {type, "checkpoint.created"} => Ever(k)' = Ever(k)
<1>1. /\ UNCHANGED <<status, lease, attempts, toolRow>>
      /\ done' = done + 1 /\ invFailed' = (c.target = "failed") /\ ~ToolRuns /\ AgentsOpen(0)
      /\ invFailed => c.target = "failed"
  BY DEF ApplyPhase, WriteFits
<1>2. PICK l : l = log /\ l \in Seq(LogEvents) /\ EndsFirst(l)
               /\ \A i \in DOMAIN l : l[i].attempt <= Len(attempts)
  BY DEF WholeInv, LogOK
<1>3. PICK x, y : x = Event(type, lease, c.phase) /\ y = Event("checkpoint.created", lease, c.phase)
  OBVIOUS
<1>4. /\ x \in LogEvents /\ x.type = type /\ x.attempt = lease /\ x.phase = done + 1
      /\ y \in LogEvents /\ y.type = "checkpoint.created" /\ y.attempt = lease /\ y.phase = done + 1
  <2>1. type \in LogTypes /\ "checkpoint.created" \in LogTypes
    BY DEF LogTypes, EventTypes
  <2> QED
    BY <1>3, <2>1 DEF Event, LogEvents
<1>5. PICK k, m : k = Append(l, x) /\ m = Append(k, y) /\ log' = m
  <2>1. Events(<<type, "checkpoint.created">>, lease, c.phase) = <<x, y>>
    BY <1>3 DEF Events
  <2>2. l \o <<x, y>> = Append(Append(l, x), y)
    BY <1>2, <1>4, TwoAppended
  <2>3. log' = l \o <<x, y>>
    BY <1>2, <2>1
  <2> QED
    BY <2>2, <2>3
<1>6. /\ k \in Seq(LogEvents) /\ m \in Seq(LogEvents)
      /\ \A i \in DOMAIN k : (i = Len(l) + 1 /\ k[i] = x) \/ (i \in DOMAIN l /\ k[i] = l[i])
      /\ \A i \in DOMAIN m : (i = Len(k) + 1 /\ m[i] = y) \/ (i \in DOMAIN k /\ m[i] = k[i])
  <2>1. /\ k \in Seq(LogEvents)
        /\ \A i \in DOMAIN k : (i = Len(l) + 1 /\ k[i] = x) \/ (i \in DOMAIN l /\ k[i] = l[i])
    BY <1>2, <1>4, <1>5, Appended
  <2> QED
    BY <1>4, <1>5, <2>1, Appended
<1>7. \A E : /\ Tally(k, E) = Tally(l, E) + Bit(x \in E)
             /\ Tally(m, E) = Tally(l, E) + Bit(x \in E) + Bit(y \in E)
  <2>1. \A E : Tally(k, E) = Tally(l, E) + Bit(x \in E)
    BY <1>2, <1>4, <1>5, TallyAppend
  <2>2. \A E : Tally(m, E) = Tally(k, E) + Bit(y \in E)
    <3>1. k \in Seq(LogEvents) /\ y \in LogEvents /\ m = Append(k, y)
      BY <1>4, <1>5, <1>6
    <3> QED
      BY <3>1, TallyAppend
  <2> QED
    BY <2>1, <2>2
<1>8. LogOK'
  <2>1. \A i \in DOMAIN m : m[i].attempt <= Len(attempts)
    BY <1>2, <1>4, <1>6
  <2> QED
    BY <1>1, <1>5, <1>6, <2>1 DEF LogOK
<1>9. PhasesLogged'
  <2> SUFFICES ASSUME NEW p \in Phases
               PROVE  /\ Tally(m, OfPhase("checkpoint.created", p)) = Bit(p <= done + 1)
                      /\ c.target # "failed" =>
                            Tally(m, OfPhase("phase.completed", p)) = Bit(p <= done + 1)
    BY <1>1, <1>5 DEF PhasesLogged
  <2>1. p \in Int /\ Bit(p <= done + 1) = Bit(p <= done) + Bit(p = done + 1)
    BY CoordinatorAssumption DEF Phases, Bit
  <2>2. Tally(m, OfPhase("checkpoint.created", p)) = Bit(p <= done + 1)
    <3>1. x \notin OfPhase("checkpoint.created", p)
      BY <1>4 DEF OfPhase
    <3>2. y \in OfPhase("checkpoint.created", p) <=> p = done + 1
      BY <1>4 DEF OfPhase
    <3>3. Tally(l, OfPhase("checkpoint.created", p)) = Bit(p <= done)
      BY <1>2 DEF WholeInv, PhasesLogged
    <3> QED
      BY <1>7, <2>1, <3>1, <3>2, <3>3 DEF Bit
  <2>3. ASSUME c.target # "failed"
        PROVE  Tally(m, OfPhase("phase.completed", p)) = Bit(p <= done + 1)
    <3>1. y \notin OfPhase("phase.completed", p)
      BY <1>4 DEF OfPhase
    <3>2. x \in OfPhase("phase.completed", p) <=> p = done + 1
      BY <1>4, <2>3 DEF OfPhase
    <3>3. Tally(l, OfPhase("phase.completed", p)) = Bit(p <= done)
      BY <1>1, <1>2, <2>3 DEF WholeInv, PhasesLogged
    <3> QED
      BY <1>7, <2>1, <3>1, <3>2, <3>3 DEF Bit
  <2> QED
    BY <2>2, <2>3
<1>10. ASSUME NEW types, type \notin types, "checkpoint.created" \notin types
       PROVE  Tally(m, OfAttempt(lease, types)) = Tally(l, OfAttempt(lease, types))
  <2>1. x \notin OfAttempt(lease, types) /\ y \notin OfAttempt(lease, types)
    BY <1>4, <1>10 DEF OfAttempt
  <2>2. Tally(l, OfAttempt(lease, types)) \in Nat
    BY <1>2, TallyNat
  <2>3. Tally(m, OfAttempt(lease, types)) = Tally(l, OfAttempt(lease, types)) + 0 + 0
    BY <1>7, <2>1 DEF Bit
  <2> QED
    BY <2>2, <2>3
<1>11. \A types : type \notin types /\ "checkpoint.created" \notin types => Mine(types)' = Mine(types)
  BY <1>1, <1>2, <1>5, <1>10 DEF Mine, OfAttempt
<1>12. \A j : j \notin {type, "checkpoint.created"} => Ever(j)' = Ever(j)
  <2> SUFFICES ASSUME NEW j, j \notin {type, "checkpoint.created"}
               PROVE  Tally(m, Of({j})) = Tally(l, Of({j}))
    BY <1>2, <1>5 DEF Ever, Of
  <2>1. x \notin Of({j}) /\ y \notin Of({j})
    BY <1>4 DEF Of
  <2>2. Tally(l, Of({j})) \in Nat
    BY <1>2, TallyNat
  <2>3. Tally(m, Of({j})) = Tally(l, Of({j})) + 0 + 0
    BY <1>7, <2>1 DEF Bit
  <2> QED
    BY <2>2, <2>3
<1>13. ToolsLogged'
  <2>1. ToolRuns' = ToolRuns
    BY <1>1 DEF ToolRuns
  <2>2. Mine(ToolStarted)' = Mine(ToolStarted) /\ Mine(ToolEnded)' = Mine(ToolEnded)
    <3>1. /\ type \notin ToolStarted /\ "checkpoint.created" \notin ToolStarted
          /\ type \notin ToolEnded /\ "checkpoint.created" \notin ToolEnded
      BY DEF ToolStarted, ToolEnded
    <3> QED
      BY <1>11, <3>1 DEF ToolStarted, ToolEnded
  <2> QED
    BY <1>1, <2>1, <2>2 DEF WholeInv, ToolsLogged, Bit
<1>14. EndsFirst(m)
  <2>1. EndsFirst(k)
    <3>1. x.type \notin AgentEnded /\ x.type # "checkpoint.created"
      BY <1>4 DEF AgentEnded
    <3> QED
      BY <1>2, <1>4, <1>5, <3>1, EndsFirstAppend
  <2>2. Tally(k, OfAttempt(lease, AgentStarted)) = Tally(k, OfAttempt(lease, AgentEnded))
    <3>1. x \notin OfAttempt(lease, AgentStarted) /\ x \notin OfAttempt(lease, AgentEnded)
      BY <1>4 DEF OfAttempt, AgentStarted, AgentEnded
    <3>2. /\ Tally(l, OfAttempt(lease, AgentStarted)) = Tally(l, OfAttempt(lease, AgentEnded)) + 0
          /\ Tally(l, OfAttempt(lease, AgentEnded)) \in Nat
          /\ Tally(l, OfAttempt(lease, AgentStarted)) \in Nat
      BY <1>1, <1>2, TallyNat DEF AgentsOpen, Mine
    <3>3. /\ Tally(k, OfAttempt(lease, AgentStarted)) = Tally(l, OfAttempt(lease, AgentStarted)) + 0
          /\ Tally(k, OfAttempt(lease, AgentEnded)) = Tally(l, OfAttempt(lease, AgentEnded)) + 0
      BY <1>7, <3>1 DEF Bit
    <3> QED
      BY <3>2, <3>3
  <2>3. y.type \notin AgentEnded
    BY <1>4 DEF AgentEnded
  <2> QED
    BY <1>4, <1>5, <1>6, <2>1, <2>2, <2>3, EndsFirstAppend
<1>15. EndsFirst(log)'
  BY <1>5, <1>14
<1>16. EndWhole'
  BY <1>1 DEF EndWhole, Leased
<1> QED
  BY <1>8, <1>9, <1>11, <1>12, <1>13, <1>15, <1>16

LEMMA PhaseWhole ==
    ASSUME CoordInv, WholeInv, WriterApplies, NEW c, c = Head(queue), Accepts(c), c.op = "phase"
    PROVE  WholeInv'
<1>1. /\ CommandOK(c, worker) /\ c \in Commands /\ Shape(c) /\ Apply(c) /\ Answer(c, Goto(worker.next))
      /\ c.attempt = lease /\ lease \in 1..MaxAttempts /\ lease = Len(attempts) /\ status \in Leased
      /\ Writing(c) => WriteFits(c) /\ (Live(worker) => c.from = "worker" /\ LiveFits(c, worker))
      /\ queue \in Seq(Commands) /\ queue # <<>> /\ queue' = Tail(queue) /\ queue[1] = c
  BY AcceptedHead
<1>2. PICK type : type = IF c.target = "failed" THEN "phase.failed" ELSE "phase.completed"
  OBVIOUS
<1>3. /\ c.types = <<type, "checkpoint.created">> /\ c.types[1] = type
      /\ c.base = done /\ c.phase = done + 1 /\ c.phase \in 0..NPhases
      /\ c.target \in {"none", "failed"} /\ done \in 0..NPhases /\ log \in Seq(LogEvents)
  <2>1. c.types = <<type, "checkpoint.created">> /\ c.target \in {"none", "failed"} /\ c.phase = c.base + 1
    BY <1>1, <1>2 DEF Shape
  <2>2. c.types[1] = type
    BY <2>1
  <2>3. c.base = done
    BY DEF Accepts
  <2>4. c.phase \in 0..NPhases
    BY <1>1 DEF Commands
  <2>5. done \in 0..NPhases /\ log \in Seq(LogEvents)
    BY DEF CoordInv, StoreOK, WholeInv, LogOK
  <2> QED
    BY <2>1, <2>2, <2>3, <2>4, <2>5
<1>4. Writing(c) /\ WriteFits(c) /\ (Live(worker) => c.from = "worker" /\ LiveFits(c, worker))
  <2>1. c.from # "api"
    BY <1>1 DEF CommandOK
  <2> QED
    BY <1>1, <2>1 DEF Writing
<1>5. ApplyPhase(c) /\ log' = log \o Events(<<type, "checkpoint.created">>, lease, c.phase)
  BY <1>1, <1>3 DEF Apply
<1>6. /\ LogOK' /\ PhasesLogged' /\ ToolsLogged' /\ EndsFirst(log)' /\ EndWhole'
      /\ \A types : type \notin types /\ "checkpoint.created" \notin types
                    => Mine(types)' = Mine(types)
      /\ \A k : k \notin {type, "checkpoint.created"} => Ever(k)' = Ever(k)
  <2>1. lease <= Len(attempts)
    BY <1>1
  <2> QED
    BY <1>1, <1>2, <1>3, <1>4, <1>5, <2>1, PhaseStore
<1>7. PICK q : q = queue /\ q \in Seq(Commands) /\ q # <<>> /\ q[1] = c /\ QueueFits(q, worker)
  BY <1>1 DEF WholeInv
<1>8. PICK t : t = Tail(q) /\ queue' = t
  BY <1>1, <1>7
<1>9. lease' = lease /\ toolRow' = toolRow
  BY <1>5 DEF ApplyPhase
<1>10. PICK w : /\ worker' = w
                /\ \/ w = worker /\ c.from # "worker"
                   \/ /\ c.from = "worker"
                      /\ w.pc = worker.next /\ w.pc \notin Early \cup {"sent", "complete", "except"}
                      /\ w.me = worker.me /\ w.why = worker.why /\ w.agent = worker.agent
                      /\ w.model = worker.model /\ w.phase = worker.phase
                      /\ w.failedPhase = worker.failedPhase /\ w.recovery = worker.recovery
  BY <1>1, AnsweredTask
<1>11. QueueFits(t, w)'
  BY <1>4, <1>7, <1>8, <1>9, BehindWrite
<1>12. TaskFits(w)'
  <2>1. CASE c.from # "worker"
    <3>1. ~Live(worker) /\ w = worker
      BY <1>4, <1>10, <2>1
    <3>2. ~Live(w)'
      BY <1>9, <3>1 DEF Live
    <3>3. w.pc \in Early => ~w.agent /\ ~w.model
      BY <3>1 DEF WholeInv, TaskFits
    <3> QED
      BY <3>2, <3>3 DEF TaskFits
  <2>2. CASE c.from = "worker"
    <3>1. worker.pc = "sent" /\ worker.next = "committed"
      BY <1>1, <2>2 DEF CommandOK, Awaited
    <3>2. /\ w.pc = "committed" /\ w.me = worker.me /\ w.why = worker.why
          /\ w.agent = worker.agent /\ w.model = worker.model
      BY <1>10, <2>2, <3>1
    <3>3. Live(w)' => Live(worker)
      BY <1>9, <3>1, <3>2 DEF Live, Early
    <3>4. ASSUME Live(worker) PROVE SpansOK(w)'
      <4>1. SpansOK(worker) /\ LiveFits(c, worker) /\ At(worker) = "committed" /\ Settled(worker)
        BY <1>4, <3>1, <3>4 DEF WholeInv, TaskFits, At, Settled
      <4>2. ~w.agent /\ ~w.model
        BY <3>2, <4>1 DEF SpansOK, InBody
      <4>3. AgentsOpen(0)'
        <5>1. AgentsOpen(0)
          BY <1>4 DEF WriteFits
        <5>2. /\ type \notin AgentStarted /\ "checkpoint.created" \notin AgentStarted
              /\ type \notin AgentEnded /\ "checkpoint.created" \notin AgentEnded
          BY <1>2 DEF AgentStarted, AgentEnded
        <5>3. Mine(AgentStarted)' = Mine(AgentStarted) /\ Mine(AgentEnded)' = Mine(AgentEnded)
          BY <1>6, <5>2 DEF AgentStarted, AgentEnded
        <5> QED
          BY <5>1, <5>3 DEF AgentsOpen
      <4>4. ModelsOpen(0)'
        <5>1. ModelsOpen(0)
          BY <1>2, <1>3, <3>2, <4>1, <4>2 DEF LiveFits, ModelEnded, Bit
        <5>2. /\ Ever("model.started")' = Ever("model.started")
              /\ Ever("model.completed")' = Ever("model.completed")
              /\ Ever("model.failed")' = Ever("model.failed")
          BY <1>2, <1>6
        <5> QED
          BY <5>1, <5>2 DEF ModelsOpen
      <4>5. ~ToolRuns'
        BY <1>4, <1>9 DEF WriteFits, ToolRuns
      <4>6. At(w) = "committed"
        BY <3>2 DEF At
      <4> QED
        BY <3>2, <4>2, <4>3, <4>4, <4>5, <4>6 DEF SpansOK, InBody, Bit
    <3> QED
      BY <3>2, <3>3, <3>4 DEF TaskFits, Early
  <2> QED
    BY <2>1, <2>2
<1> QED
  BY <1>6, <1>8, <1>10, <1>11, <1>12 DEF WholeInv

LEMMA TerminalWhole ==
    ASSUME CoordInv, WholeInv, WriterApplies, NEW c, c = Head(queue), Accepts(c), c.op = "terminal"
    PROVE  WholeInv'
<1>1. /\ CommandOK(c, worker) /\ c \in Commands /\ Shape(c) /\ Apply(c) /\ Answer(c, Goto(worker.next))
      /\ c.attempt = lease /\ lease \in 1..MaxAttempts /\ lease = Len(attempts) /\ status \in Leased
      /\ lease \in DOMAIN attempts /\ c.target = "completed" => Whole
      /\ queue \in Seq(Commands) /\ queue # <<>> /\ queue' = Tail(queue) /\ queue[1] = c
  BY AcceptedHead
<1>2. c.types \in Seq(StopTypes)
  <2>1. PICK s : s = c.types /\ s \in Seq(EventTypes) /\ \A j \in DOMAIN s : s[j] \in EndTypes
    BY <1>1 DEF Commands, Shape
  <2>2. s \in [1..Len(s) -> StopTypes] /\ Len(s) \in Nat
    BY <2>1 DEF StopTypes
  <2> QED
    BY <2>1, <2>2
<1>3. /\ c.phase \in 0..NPhases /\ c.target \in Terminal
      /\ attempts \in Seq({"running", "interrupted"} \cup Terminal)
      /\ toolRow \in [Phases -> {"none", "running", "success", "interrupted"}]
  BY <1>1 DEF Commands, CommandOK, CoordInv, StoreOK
<1>4. ApplyTerminal(c) /\ log' = log \o Events(c.types, lease, c.phase)
  BY <1>1 DEF Apply
<1>5. Len(attempts') = Len(attempts)
  <2>1. c.target \in {"running", "interrupted"} \cup Terminal /\ lease \in 1..Len(attempts)
    BY <1>1, <1>3
  <2> QED
    BY <1>1, <1>3, <1>4, <2>1, ExceptSeq DEF ApplyTerminal
<1>6. /\ status' = c.target /\ status' \notin Leased /\ lease' = 0 /\ toolRow' = StopTools
      /\ UNCHANGED <<done, invFailed>>
  BY <1>3, <1>4 DEF ApplyTerminal, Terminal, Leased
<1>7. status' = "completed" => done = NPhases /\ Whole
  BY <1>1, <1>6 DEF CommandOK
<1>8. PICK w : /\ worker' = w /\ (w.pc \in Early => ~w.agent /\ ~w.model)
               /\ (w.pc \notin Early => w.me # 0)
  <2>1. PICK w : /\ worker' = w
                 /\ \/ w = worker
                    \/ w.pc \notin Early /\ w.me # 0
    BY <1>1, AnsweredTask
  <2>2. (worker.pc \in Early => ~worker.agent /\ ~worker.model) /\ (worker.pc \notin Early => worker.me # 0)
    BY DEF WholeInv, TaskFits, CoordInv, TaskOK
  <2> QED
    BY <2>1, <2>2
<1>9. PICK q : q = queue /\ q \in Seq(Commands) /\ q # <<>> /\ QueueFits(q, worker)
  BY <1>1 DEF WholeInv
<1>10. PICK t : t = Tail(q) /\ queue' = t /\ t \in Seq(Commands) /\ \A i \in DOMAIN t : Shape(t[i])
  <2>1. QueueFits(Tail(q), worker) /\ Tail(q) \in Seq(Commands)
    BY <1>9, QueueShifts
  <2>2. PICK t : t = Tail(q) /\ QueueFits(t, worker) /\ t \in Seq(Commands)
    BY <2>1
  <2> QED
    BY <1>1, <1>9, <2>2 DEF QueueFits
<1>11. PICK n \in 1..MaxAttempts : n = lease
  BY <1>1
<1>12. log' = log \o Events(c.types, n, c.phase) /\ n <= Len(attempts)
  BY <1>1, <1>4, <1>11
<1>13. PICK types \in Seq(StopTypes) : types = c.types
  BY <1>2
<1>14. log' = log \o Events(types, n, c.phase)
  BY <1>12, <1>13
<1> QED
  BY <1>3, <1>5, <1>6, <1>7, <1>8, <1>10, <1>12, <1>14, LeaseGone

LEMMA WriterAppliesWhole == ASSUME CoordInv, WholeInv, WriterApplies PROVE WholeInv'
<1>1. PICK c : c = Head(queue)
  OBVIOUS
<1>2. CASE ~Accepts(Head(queue))
  BY <1>2, RefusedWhole
<1>3. CASE Accepts(c)
  <2>1. c \in Commands
    BY <1>1, <1>3, AcceptedHead
  <2>2. c.op \in {"event", "phase", "terminal"}
    BY <2>1 DEF Commands
  <2> QED
    BY <1>1, <1>3, <2>2, EventWhole, PhaseWhole, TerminalWhole
<1> QED
  BY <1>1, <1>2, <1>3

-----------------------------------------------------------------------------
(* The theorems about the log *)

LEMMA WholeInit == Init => WholeInv
<1> SUFFICES ASSUME Init PROVE WholeInv
  OBVIOUS
<1>1. /\ status = "created" /\ lease = 0 /\ attempts = <<>> /\ done = 0 /\ log = <<>>
      /\ worker = NoTask /\ queue = <<>> /\ toolRow = [p \in Phases |-> "none"] /\ invFailed = FALSE
  BY DEF Init
<1>2. LogOK
  BY <1>1 DEF LogOK
<1>3. PhasesLogged
  <2>1. \A E : Tally(log, E) = 0
    <3>1. log \in Seq(LogEvents) /\ DOMAIN log = {}
      BY <1>1
    <3> QED
      BY <3>1, TallyNone
  <2>2. \A p \in Phases : Bit(p <= done) = 0
    BY <1>1, CoordinatorAssumption DEF Phases, Bit
  <2> QED
    BY <2>1, <2>2 DEF PhasesLogged
<1>4. ToolsLogged
  BY <1>1 DEF ToolsLogged, ToolRuns, Leased
<1>5. EndsFirst(log)
  <2>1. PICK l : l = log /\ DOMAIN l = {}
    BY <1>1
  <2>2. EndsFirst(l)
    BY <2>1 DEF EndsFirst
  <2> QED
    BY <2>1, <2>2
<1>6. TaskFits(worker)
  BY <1>1, NoSpans DEF TaskFits, Live
<1>7. QueueFits(queue, worker)
  <2>1. DOMAIN queue = {}
    BY <1>1
  <2> QED
    BY <2>1 DEF QueueFits
<1>8. EndWhole
  BY <1>1 DEF EndWhole
<1> QED
  BY <1>2, <1>3, <1>4, <1>5, <1>6, <1>7, <1>8 DEF WholeInv

LEMMA WholeNext == CoordInv /\ WholeInv /\ [Next]_vars => WholeInv'
<1> SUFFICES ASSUME CoordInv, WholeInv, [Next]_vars PROVE WholeInv'
  OBVIOUS
<1>1. CASE ManagerStart \/ ManagerResume \/ ResumeChecks
  BY <1>1, ManagerWhole
<1>2. CASE Acquire \/ Register \/ Exit
  BY <1>2, AcquireWhole, RegisterWhole, ExitWhole
<1>3. CASE Emit \/ Reconcile \/ BeginPhase
  BY <1>3, EmitWhole, ReconcileWhole, BeginPhaseWhole
<1>4. CASE Checked("started", "executing") \/ Checked("executed", "merge")
  BY <1>4, CheckedWhole
<1>5. CASE PhaseWork \/ PhaseReturns \/ PhaseRaises
  BY <1>5, WorkWhole, PhaseEndsWhole
<1>6. CASE Merge \/ AfterCommit \/ Complete
  BY <1>6, MergeWhole, AfterCommitWhole, CompleteWhole
<1>7. CASE Handle \/ AfterCancel
  BY <1>7, HandleWhole
<1>8. CASE WriterApplies \/ WriterFails
  BY <1>8, WriterAppliesWhole, WriterFailsWhole
<1>9. CASE RequestCancel
  BY <1>9, RequestCancelWhole
<1>10. CASE HeartbeatStops \/ LeaseExpires \/ DeadlinePasses \/ Restart
  BY <1>10, ClockWhole
<1>11. CASE Audit \/ StopTask \/ Crash
  BY <1>11, AuditWhole, StopTaskWhole, CrashWhole
<1>12. CASE UNCHANGED vars
  <2>1. UNCHANGED <<status, done, invFailed, toolRow, lease, log, attempts, worker, queue>>
    BY <1>12 DEF vars, storeVars, localVars
  <2> QED
    BY <2>1, WholeRests
<1> QED
  BY <1>1, <1>2, <1>3, <1>4, <1>5, <1>6, <1>7, <1>8, <1>9, <1>10, <1>11, <1>12 DEF Next, Body

LEMMA WholeMeans == CoordInv /\ WholeInv => CompletedIsWhole /\ ChildrenEndFirst
<1> SUFFICES ASSUME CoordInv, WholeInv PROVE CompletedIsWhole /\ ChildrenEndFirst
  OBVIOUS
<1>1. log \in Seq(LogEvents)
  BY DEF WholeInv, LogOK
<1>2. CompletedIsWhole
  <2> SUFFICES ASSUME status = "completed"
               PROVE  /\ \A p \in Phases : Occurs("phase.completed", p) = 1
                                           /\ Occurs("checkpoint.created", p) = 1
                      /\ ~invFailed /\ ~Reserved /\ \A p \in Phases : toolRow[p] # "running"
    BY DEF CompletedIsWhole
  <2>1. done = NPhases /\ ~invFailed /\ ModelsOpen(0)
    BY DEF WholeInv, EndWhole, Whole
  <2>2. \A type, p : Occurs(type, p) = Tally(log, OfPhase(type, p))
    <3> SUFFICES ASSUME NEW type, NEW p PROVE Occurs(type, p) = Tally(log, OfPhase(type, p))
      OBVIOUS
    <3>1. \A i \in DOMAIN log : log[i] \in LogEvents
      BY <1>1
    <3>2. {i \in DOMAIN log : log[i].type = type /\ log[i].phase = p}
          = {j \in DOMAIN log : log[j] \in OfPhase(type, p)}
      BY <3>1 DEF OfPhase
    <3> QED
      BY <3>2 DEF Occurs, Tally
  <2>3. \A p \in Phases : Bit(p <= done) = 1
    BY <2>1, CoordinatorAssumption DEF Phases, Bit
  <2>4. \A p \in Phases : Occurs("phase.completed", p) = 1 /\ Occurs("checkpoint.created", p) = 1
    BY <2>1, <2>2, <2>3 DEF WholeInv, PhasesLogged
  <2>5. ~Reserved
    <3>1. /\ Ever("model.started") \in Nat /\ Ever("model.completed") \in Nat /\ Ever("model.failed") \in Nat
          /\ Ever("model.started") <= Ever("model.completed") + Ever("model.failed")
      BY <1>1, <2>1, CountsNat DEF ModelsOpen
    <3> QED
      BY <1>1, <3>1, CountIsEver DEF Reserved
  <2>6. \A p \in Phases : toolRow[p] # "running"
    BY DEF WholeInv, ToolsLogged, ToolRuns, Leased
  <2> QED
    BY <2>1, <2>4, <2>5, <2>6
<1>3. ChildrenEndFirst
  <2>1. EndsFirst(log)
    BY DEF WholeInv
  <2> QED
    BY <2>1 DEF EndsFirst, ChildrenEndFirst, ToolStarted, ToolEnded, AgentStarted, AgentEnded
<1> QED
  BY <1>2, <1>3

\* A completed run executed every phase: each has one completion and one
\* checkpoint in the log whatever attempts it took, every model turn has its
\* outcome and no tool call is left running (_execute_owned, _complete,
\* _reconcile_model_reservations, _persist_tool_result).
THEOREM CompletedRunsAreWhole == Spec => []CompletedIsWhole
<1>1. Init => CoordInv /\ WholeInv
  BY CoordInit, WholeInit
<1>2. CoordInv /\ WholeInv /\ [Next]_vars => (CoordInv /\ WholeInv)'
  BY CoordNext, WholeNext
<1>3. CoordInv /\ WholeInv => CompletedIsWhole
  BY WholeMeans
<1> QED
  BY <1>1, <1>2, <1>3, PTL DEF Spec

\* No agent is reported finished over a tool call that runs, and no phase is
\* committed over an agent that is open, by whatever tasks and orphaned writes
\* (_close_running_agent_tools, _close_open_phase_agents, shutdown).
THEOREM ChildrenEnd == Spec => []ChildrenEndFirst
<1>1. Init => CoordInv /\ WholeInv
  BY CoordInit, WholeInit
<1>2. CoordInv /\ WholeInv /\ [Next]_vars => (CoordInv /\ WholeInv)'
  BY CoordNext, WholeNext
<1>3. CoordInv /\ WholeInv => ChildrenEndFirst
  BY WholeMeans
<1> QED
  BY <1>1, <1>2, <1>3, PTL DEF Spec
=============================================================================

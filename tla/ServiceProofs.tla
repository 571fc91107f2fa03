---------------------------- MODULE ServiceProofs ----------------------------
(***************************************************************************)
(* Proofs about the three parts of the service that stand between a        *)
(* request and a run: the manager that starts, stops and drains the tasks, *)
(* the event stream that shows a client what its run does, and the         *)
(* admission of a run to the model it may call.                            *)
(***************************************************************************)
EXTENDS RuntimeManager, EventStream, RunAdmission, FiniteSetTheorems, SequenceTheorems, TLAPS

-----------------------------------------------------------------------------
(***************************************************************************)
(* Proofs about RuntimeManager: for any number of runs, tasks and slots,   *)
(* and whichever calls are under way, a shutdown that has finished has     *)
(* left no task behind.                                                    *)
(***************************************************************************)

-----------------------------------------------------------------------------
(* Typing *)

\* Changing one field of a task keeps the table of tasks well typed.
LEMMA StepType ==
    ASSUME ManagerTypeOK, NEW t \in DOMAIN tasks,
           NEW next \in {"waiting", "slot", "executing", "leaving", "done"}, Step(t, next)
    PROVE  tasks' \in Seq(Task) /\ Len(tasks') = Len(tasks)
<1>1. tasks \in Seq(Task) /\ tasks[t] \in Task
  BY DEF ManagerTypeOK
<1>2. [tasks[t] EXCEPT !.pc = next] \in Task
  BY <1>1 DEF Task
<1>3. tasks' = [tasks EXCEPT ![t] = [tasks[t] EXCEPT !.pc = next]]
  BY DEF Step
<1> QED
  BY <1>1, <1>2, <1>3

\* A new task is appended and registered, or the live task is kept.
LEMMA NewTaskType ==
    ASSUME ManagerTypeOK, NEW r \in Runs, NEW resume \in BOOLEAN,
           Len(tasks) < MaxTasks, NewTask(r, resume)
    PROVE  /\ tasks' \in Seq(Task) /\ Len(tasks') <= MaxTasks
           /\ table' \in [Runs -> 0..Len(tasks')]
<1> DEFINE new == [run |-> r, resume |-> resume, own |-> 0, cancelled |-> FALSE,
                   pc |-> "waiting"]
<1>1. new \in Task
  BY ManagerAssumption DEF Task
<1>2. tasks \in Seq(Task) /\ Len(tasks) \in Nat /\ table \in [Runs -> 0..Len(tasks)]
  BY DEF ManagerTypeOK
<1>3. CASE UNCHANGED <<tasks, table>>
  BY <1>2, <1>3 DEF ManagerTypeOK
<1>4. CASE tasks' = Append(tasks, new) /\ table' = [table EXCEPT ![r] = Len(tasks) + 1]
  <2> HIDE DEF new
  <2>1. tasks' \in Seq(Task) /\ Len(tasks') = Len(tasks) + 1
    BY <1>1, <1>2, <1>4
  <2>2. Len(tasks) + 1 <= MaxTasks
    BY <1>2, ManagerAssumption
  <2>3. \A n \in 0..Len(tasks) : n \in 0..(Len(tasks) + 1)
    BY <1>2
  <2> QED
    BY <1>2, <1>4, <2>1, <2>2, <2>3
<1> QED
  BY <1>3, <1>4 DEF NewTask

\* The manager's variables keep their types: no task outside the table's range, no
\* attempt beyond the bound.
THEOREM ManagerTyped == ManagerSpec => []ManagerTypeOK
<1> USE ManagerAssumption
<1>1. ManagerInit => ManagerTypeOK
  <2> SUFFICES ASSUME ManagerInit PROVE ManagerTypeOK
    OBVIOUS
  <2>1. <<>> \in Seq(Task) /\ Len(<<>>) = 0
    OBVIOUS
  <2> QED
    BY <2>1 DEF ManagerInit, ManagerTypeOK, Status, Leased
<1>2. ManagerTypeOK /\ [ManagerNext]_managerVars => ManagerTypeOK'
  <2> SUFFICES ASSUME ManagerTypeOK, [ManagerNext]_managerVars PROVE ManagerTypeOK'
    OBVIOUS
  <2>1. ASSUME NEW r \in Runs, CreateRun(r) PROVE ManagerTypeOK'
    BY <2>1 DEF CreateRun, ManagerTypeOK, Status
  <2>2. ASSUME NEW r \in Runs, Start(r) PROVE ManagerTypeOK'
    <3>1. Len(tasks) < MaxTasks /\ (NewTask(r, FALSE) \/ UNCHANGED <<tasks, table>>)
      BY <2>2 DEF Start
    <3>2. /\ tasks' \in Seq(Task) /\ Len(tasks') <= MaxTasks
          /\ table' \in [Runs -> 0..Len(tasks')]
      BY <3>1, NewTaskType DEF ManagerTypeOK
    <3> QED
      BY <2>2, <3>2 DEF Start, Answered, ManagerTypeOK
  <2>3. ASSUME NEW r \in Runs, AskResume(r) PROVE ManagerTypeOK'
    BY <2>3 DEF AskResume, ManagerTypeOK
  <2>4. ASSUME NEW r \in Runs, Resume(r) PROVE ManagerTypeOK'
    <3>1. Len(tasks) < MaxTasks /\ (NewTask(r, TRUE) \/ UNCHANGED <<tasks, table>>)
      BY <2>4 DEF Resume
    <3>2. /\ tasks' \in Seq(Task) /\ Len(tasks') <= MaxTasks
          /\ table' \in [Runs -> 0..Len(tasks')]
      BY <3>1, NewTaskType DEF ManagerTypeOK
    <3>3. attempts[r] + 1 \in 0..(MaxAttempts + 1)
      BY DEF ManagerTypeOK
    <3>4. promised' \in [Runs -> 0..(MaxAttempts + 1)]
      BY <2>4, <3>3 DEF Resume, ManagerTypeOK
    <3> QED
      BY <2>4, <3>2, <3>4 DEF Resume, Answered, ManagerTypeOK
  <2>5. ASSUME NEW r \in Runs, Cancel(r) \/ Audit(r) PROVE ManagerTypeOK'
    BY <2>5 DEF Cancel, Audit, ManagerTypeOK, Status, Leased
  <2>6. ASSUME NEW t \in DOMAIN tasks, TakeSlot(t) \/ CancelledWaiting(t)
        PROVE  ManagerTypeOK'
    BY <2>6, StepType DEF TakeSlot, CancelledWaiting, TaskKept, ManagerTypeOK
  <2>7. ASSUME NEW t \in DOMAIN tasks, TakeLease(t) PROVE ManagerTypeOK'
    <3>1. tasks \in Seq(Task) /\ tasks[t] \in Task /\ tasks[t].run \in Runs
      <4>1. tasks \in Seq(Task)
        BY DEF ManagerTypeOK
      <4>2. tasks[t] \in Task
        BY <4>1
      <4> QED
        BY <4>1, <4>2 DEF Task
    <3>2. CASE Step(t, "leaving") /\ UNCHANGED <<status, attempts>>
      BY <2>7, <3>2, StepType DEF TakeLease, ManagerTypeOK
    <3>3. CASE /\ attempts[tasks[t].run] < MaxAttempts
               /\ status' = [status EXCEPT ![tasks[t].run] = "running"]
               /\ attempts' = [attempts EXCEPT ![tasks[t].run] = @ + 1]
               /\ tasks' = [tasks EXCEPT ![t].pc = "executing",
                                         ![t].own = attempts[tasks[t].run] + 1]
      <4>1. attempts[tasks[t].run] + 1 \in 0..MaxAttempts
        BY <3>1, <3>3 DEF ManagerTypeOK
      <4> DEFINE new == [tasks[t] EXCEPT !.pc = "executing",
                                         !.own = attempts[tasks[t].run] + 1]
      <4>2. new \in Task
        BY <3>1, <4>1 DEF Task
      <4>3. tasks' = [tasks EXCEPT ![t] = new]
        BY <3>1, <3>3 DEF Task
      <4> HIDE DEF new
      <4>4. tasks' \in Seq(Task) /\ Len(tasks') = Len(tasks)
        BY <3>1, <4>2, <4>3
      <4>5. "running" \in Status
        BY DEF Status, Leased
      <4> QED
        BY <2>7, <3>1, <3>3, <4>1, <4>4, <4>5 DEF TakeLease, ManagerTypeOK
    <3> QED
      BY <2>7, <3>2, <3>3 DEF TakeLease
  <2>8. ASSUME NEW t \in DOMAIN tasks, Returns(t) PROVE ManagerTypeOK'
    <3>1. status' \in [Runs -> Status]
      BY <2>8 DEF Returns, ManagerTypeOK, Status
    <3> QED
      BY <2>8, <3>1, StepType DEF Returns, ManagerTypeOK
  <2>9. ASSUME NEW t \in DOMAIN tasks, Forget(t) PROVE ManagerTypeOK'
    <3>1. tasks' \in Seq(Task) /\ Len(tasks') = Len(tasks) /\ Len(tasks) \in Nat
      BY <2>9, StepType DEF Forget, ManagerTypeOK
    <3>2. table \in [Runs -> 0..Len(tasks)] /\ 0 \in 0..Len(tasks)
      BY <3>1 DEF ManagerTypeOK
    <3>3. table' \in [Runs -> 0..Len(tasks)]
      BY <2>9, <3>2 DEF Forget
    <3> QED
      BY <2>9, <3>1, <3>3 DEF Forget, ManagerTypeOK
  <2>10. CASE BeginStop
    BY <2>10 DEF BeginStop, ManagerTypeOK
  <2>11. CASE StopWaited
    <3>1. tasks \in Seq(Task) /\ DOMAIN tasks = 1..Len(tasks) /\ Len(tasks) \in Nat
      BY DEF ManagerTypeOK
    <3>2. ASSUME NEW t \in DOMAIN tasks
          PROVE  tasks[t] \in Task /\ [tasks[t] EXCEPT !.cancelled = TRUE] \in Task
      <4>1. tasks[t] \in Task
        BY <3>1
      <4> QED
        BY <4>1 DEF Task
    <3>3. tasks' \in [1..Len(tasks) -> Task]
      BY <2>11, <3>1, <3>2 DEF StopWaited
    <3>4. tasks' \in Seq(Task) /\ Len(tasks') = Len(tasks)
      BY <3>1, <3>3
    <3> QED
      BY <2>11, <3>4 DEF StopWaited, ManagerTypeOK
  <2>12. CASE EndStop
    <3>1. Len(tasks) \in Nat
      BY DEF ManagerTypeOK
    <3> QED
      BY <2>12, <3>1 DEF EndStop, ManagerTypeOK
  <2>13. CASE UNCHANGED managerVars
    BY <2>13 DEF managerVars, ManagerTypeOK
  <2> QED
    BY <2>1, <2>2, <2>3, <2>4, <2>5, <2>6, <2>7, <2>8, <2>9, <2>10, <2>11, <2>12, <2>13
       DEF ManagerNext, TaskStep
<1> QED
  BY <1>1, <1>2, PTL DEF ManagerSpec

-----------------------------------------------------------------------------
(* Shutdown *)

\* No task is created once the shutdown began.
StoppedAcceptsNothing == accepting <=> stopping = "off"

\* A task that is alive is the one registered for its run: shutdown, which sees
\* registered tasks only, sees them all.
AliveIsRegistered ==
    stopping # "done" => \A t \in DOMAIN tasks : Alive(t) => table[tasks[t].run] = t

\* Once the wait is over, every task that is still alive has been cancelled.
AliveIsCancelled ==
    stopping = "gather" => \A t \in DOMAIN tasks : Alive(t) => tasks[t].cancelled

StopInv ==
    StoppedAcceptsNothing /\ AliveIsRegistered /\ AliveIsCancelled /\ StopLeavesNoTask

\* A step that creates no task and no entry, revives none and stays in its phase
\* keeps the invariant; it may drop the entry of a task that is done.
LEMMA StopFrame ==
    ASSUME StopInv, UNCHANGED <<accepting, stopping>>,
           DOMAIN tasks' = DOMAIN tasks,
           \A t \in DOMAIN tasks :
               Alive(t)' => /\ Alive(t)
                            /\ tasks'[t].run = tasks[t].run
                            /\ tasks'[t].cancelled = tasks[t].cancelled
                            /\ table'[tasks[t].run] = table[tasks[t].run]
    PROVE  StopInv'
BY DEF StopInv, StoppedAcceptsNothing, AliveIsRegistered, AliveIsCancelled, StopLeavesNoTask

\* What a step of one task does to the tasks.
LEMMA StepFields ==
    ASSUME ManagerTypeOK, NEW t \in DOMAIN tasks, NEW next, Step(t, next)
    PROVE  /\ DOMAIN tasks' = DOMAIN tasks
           /\ tasks'[t].pc = next
           /\ tasks'[t].run = tasks[t].run /\ tasks'[t].cancelled = tasks[t].cancelled
           /\ \A u \in DOMAIN tasks : u # t => tasks'[u] = tasks[u]
<1>1. tasks[t] \in Task
  BY DEF ManagerTypeOK
<1> QED
  BY <1>1 DEF Step, Task, ManagerTypeOK

\* A new task finds the shutdown not begun and replaces no live task.
LEMMA StopNewTask ==
    ASSUME ManagerTypeOK, StopInv, accepting, NEW r \in Runs, NEW resume \in BOOLEAN,
           NewTask(r, resume), UNCHANGED <<accepting, stopping>>
    PROVE  StopInv'
<1>1. stopping = "off"
  BY DEF StopInv, StoppedAcceptsNothing
<1>2. StoppedAcceptsNothing' /\ AliveIsCancelled' /\ StopLeavesNoTask'
  BY <1>1 DEF StopInv, StoppedAcceptsNothing, AliveIsCancelled, StopLeavesNoTask
<1>3. tasks \in Seq(Task) /\ table \in [Runs -> 0..Len(tasks)] /\ Len(tasks) \in Nat
  BY DEF ManagerTypeOK
<1>4. CASE UNCHANGED <<tasks, table>>
  BY <1>2, <1>4 DEF StopInv, AliveIsRegistered, Alive
<1>5. CASE /\ ~(table[r] # 0 /\ Alive(table[r]))
           /\ tasks' = Append(tasks, [run |-> r, resume |-> resume, own |-> 0,
                                      cancelled |-> FALSE, pc |-> "waiting"])
           /\ table' = [table EXCEPT ![r] = Len(tasks) + 1]
  <2> DEFINE new == [run |-> r, resume |-> resume, own |-> 0, cancelled |-> FALSE,
                     pc |-> "waiting"]
             n   == Len(tasks) + 1
  <2>1. new.run = r
    OBVIOUS
  <2> HIDE DEF new
  <2>2. /\ DOMAIN tasks = 1..Len(tasks) /\ DOMAIN tasks' = 1..n
        /\ \A t \in 1..Len(tasks) : tasks'[t] = tasks[t]
        /\ tasks'[n] = new
    BY <1>3, <1>5 DEF new
  <2>3. \A t \in 1..n : t \in 1..Len(tasks) \/ t = n
    BY <1>3
  <2>4. table'[r] = n /\ \A q \in Runs \ {r} : table'[q] = table[q]
    BY <1>3, <1>5
  <2>5. ASSUME NEW t \in 1..Len(tasks), Alive(t)'
        PROVE  table'[tasks'[t].run] = t
    <3>1. Alive(t) /\ tasks'[t].run = tasks[t].run /\ tasks[t].run \in Runs
      <4>1. tasks[t] \in Task
        BY <1>3
      <4> QED
        BY <2>2, <2>5, <4>1 DEF Alive, Task
    <3>2. table[tasks[t].run] = t
      BY <1>1, <2>2, <3>1 DEF StopInv, AliveIsRegistered
    <3>3. tasks[t].run # r
      BY <1>3, <1>5, <3>1, <3>2
    <3> QED
      BY <2>4, <3>1, <3>2, <3>3
  <2>6. AliveIsRegistered'
    BY <2>1, <2>2, <2>3, <2>4, <2>5 DEF AliveIsRegistered
  <2> QED
    BY <1>2, <2>6 DEF StopInv
<1> QED
  BY <1>4, <1>5 DEF NewTask

\* The end of the wait cancels every task that is alive: they are all registered.
LEMMA StopCancels ==
    ASSUME ManagerTypeOK, StopInv, StopWaited
    PROVE  StopInv'
<1>1. /\ stopping = "wait" /\ stopping' = "gather"
      /\ UNCHANGED <<accepting, table>>
      /\ DOMAIN tasks' = DOMAIN tasks
      /\ \A t \in DOMAIN tasks : tasks'[t] =
            IF t \in Registered /\ Alive(t) THEN [tasks[t] EXCEPT !.cancelled = TRUE] ELSE tasks[t]
  BY DEF StopWaited
<1>2. ASSUME NEW t \in DOMAIN tasks, Alive(t)'
      PROVE  Alive(t) /\ tasks'[t].run = tasks[t].run /\ tasks'[t].cancelled
  <2>1. tasks[t] \in Task
    BY DEF ManagerTypeOK
  <2>2. Alive(t) /\ tasks'[t].run = tasks[t].run
    BY <1>1, <1>2, <2>1 DEF Alive, Task
  <2>3. table[tasks[t].run] = t /\ tasks[t].run \in Runs
    BY <1>1, <2>1, <2>2 DEF StopInv, AliveIsRegistered, Task
  <2>4. t \in Registered
    BY <2>3 DEF Registered
  <2> QED
    BY <1>1, <2>1, <2>2, <2>4 DEF Task
<1> QED
  BY <1>1, <1>2
     DEF StopInv, StoppedAcceptsNothing, AliveIsRegistered, AliveIsCancelled, StopLeavesNoTask

\* Every step of the scheduler keeps the invariant.
LEMMA StopStep ==
    ASSUME ManagerTypeOK, StopInv, [ManagerNext]_managerVars
    PROVE  StopInv'
<1>0. ASSUME NEW t \in DOMAIN tasks PROVE tasks[t] \in Task
  BY DEF ManagerTypeOK
<1>1. ASSUME UNCHANGED <<tasks, table, accepting, stopping>> PROVE StopInv'
  BY <1>1, StopFrame DEF Alive
<1>2. ASSUME NEW r \in Runs, CreateRun(r) \/ AskResume(r) \/ Cancel(r) \/ Audit(r)
      PROVE  StopInv'
  BY <1>1, <1>2 DEF CreateRun, AskResume, Cancel, Audit
<1>3. ASSUME NEW r \in Runs, Start(r) PROVE StopInv'
  <2>1. CASE accepting
    BY <1>3, <2>1, StopNewTask DEF Start
  <2>2. CASE ~accepting
    BY <1>1, <1>3, <2>2 DEF Start
  <2> QED
    BY <2>1, <2>2
<1>4. ASSUME NEW r \in Runs, Resume(r) PROVE StopInv'
  <2>1. CASE accepting
    BY <1>4, <2>1, StopNewTask DEF Resume
  <2>2. CASE ~accepting
    BY <1>1, <1>4, <2>2 DEF Resume
  <2> QED
    BY <2>1, <2>2
<1>5. ASSUME NEW t \in DOMAIN tasks, NEW next, Step(t, next), Alive(t),
             UNCHANGED <<table, accepting, stopping>>
      PROVE  StopInv'
  BY <1>5, StepFields, StopFrame DEF Alive
<1>6. ASSUME NEW t \in DOMAIN tasks, TakeSlot(t) \/ CancelledWaiting(t) \/ Returns(t)
      PROVE  StopInv'
  BY <1>5, <1>6 DEF TakeSlot, CancelledWaiting, Returns, TaskKept, Alive
<1>7. ASSUME NEW t \in DOMAIN tasks, TakeLease(t) PROVE StopInv'
  <2>1. tasks[t].pc = "slot" /\ Alive(t) /\ UNCHANGED <<table, accepting, stopping>>
    BY <1>7 DEF TakeLease, Alive
  <2>2. CASE Step(t, "leaving")
    BY <1>5, <2>1, <2>2
  <2>3. CASE tasks' = [tasks EXCEPT ![t].pc = "executing",
                                    ![t].own = attempts[tasks[t].run] + 1]
    <3>1. /\ DOMAIN tasks' = DOMAIN tasks
          /\ tasks'[t].run = tasks[t].run /\ tasks'[t].cancelled = tasks[t].cancelled
          /\ \A u \in DOMAIN tasks : u # t => tasks'[u] = tasks[u]
      BY <1>0, <2>3 DEF ManagerTypeOK, Task
    <3> QED
      BY <2>1, <3>1, StopFrame DEF Alive
  <2> QED
    BY <1>7, <2>2, <2>3 DEF TakeLease
<1>8. ASSUME NEW t \in DOMAIN tasks, Forget(t) PROVE StopInv'
  <2>1. /\ DOMAIN tasks' = DOMAIN tasks /\ tasks'[t].pc = "done"
        /\ \A u \in DOMAIN tasks : u # t => tasks'[u] = tasks[u]
        /\ UNCHANGED <<accepting, stopping>>
    BY <1>8, StepFields DEF Forget
  <2>2. \A r \in Runs : table[r] # t => table'[r] = table[r]
    BY <1>8 DEF Forget, ManagerTypeOK
  <2>3. ASSUME NEW u \in DOMAIN tasks, Alive(u)'
        PROVE  /\ Alive(u) /\ tasks'[u].run = tasks[u].run
               /\ tasks'[u].cancelled = tasks[u].cancelled
               /\ table'[tasks[u].run] = table[tasks[u].run]
    <3>1. u # t /\ Alive(u) /\ tasks'[u] = tasks[u]
      BY <2>1, <2>3 DEF Alive
    <3>2. stopping # "done"
      BY <3>1 DEF StopInv, StopLeavesNoTask
    <3>3. table[tasks[u].run] = u /\ tasks[u].run \in Runs
      BY <1>0, <3>1, <3>2 DEF StopInv, AliveIsRegistered, Task
    <3> QED
      BY <2>2, <3>1, <3>3
  <2> QED
    BY <2>1, <2>3, StopFrame
<1>9. CASE BeginStop
  BY <1>9 DEF BeginStop, StopInv, StoppedAcceptsNothing, AliveIsRegistered, AliveIsCancelled,
              StopLeavesNoTask, Alive
<1>10. CASE StopWaited
  BY <1>10, StopCancels
<1>11. CASE EndStop
  BY <1>11 DEF EndStop, StopInv, StoppedAcceptsNothing, AliveIsRegistered, AliveIsCancelled,
               StopLeavesNoTask, Alive
<1>12. CASE UNCHANGED managerVars
  BY <1>1, <1>12 DEF managerVars
<1> QED
  BY <1>2, <1>3, <1>4, <1>6, <1>7, <1>8, <1>9, <1>10, <1>11, <1>12
     DEF ManagerNext, TaskStep

\* A finished shutdown leaves no task behind, and the scheduler's tables stay well
\* formed: calls that were under way when the shutdown began find it closed, tasks
\* it did not wait for were registered and cancelled, and it ends after all of them.
THEOREM StopIsComplete == ManagerSpec => []ManagerConsistent
<1>1. ManagerInit => StopInv
  BY DEF ManagerInit, StopInv, StoppedAcceptsNothing, AliveIsRegistered, AliveIsCancelled,
         StopLeavesNoTask
<1>2. ManagerTypeOK /\ StopInv /\ [ManagerNext]_managerVars => StopInv'
  BY StopStep
<1>3. ManagerTypeOK /\ StopInv => ManagerConsistent
  BY DEF ManagerConsistent, StopInv
<1> QED
  BY <1>1, <1>2, <1>3, ManagerTyped, PTL DEF ManagerSpec
-----------------------------------------------------------------------------
(***************************************************************************)
(* Proofs about EventStream: for any number of clients and events and any  *)
(* queue, a client gets every event once and in order, over lost           *)
(* deliveries, full queues and reconnects, and a stream that waits has     *)
(* sent all there is.                                                      *)
(*                                                                         *)
(* The argument: a delivery waiting on the loop stands for an event that   *)
(* was committed, so a stream nothing is on its way to has looked at the   *)
(* log after the last commit.                                              *)
(***************************************************************************)

-----------------------------------------------------------------------------
(* The live feed: the inductive strengthening *)

Streams == {"off", "query", "send", "live", "ended"}

\* The domains of the variables, as functions of the client.
FeedTyped ==
    /\ committed \in 0..MaxEvents /\ unpublished \subseteq 1..committed
    /\ calls \in [Clients -> Nat] /\ open \in [Clients -> BOOLEAN]
    /\ queue \in [Clients -> 0..QueueSize] /\ pc \in [Clients -> Streams]
    /\ last \in [Clients -> 0..committed] /\ page \in [Clients -> 0..committed]
    /\ full \in [Clients -> BOOLEAN] /\ received \in [Clients -> Seq(1..committed)]
    /\ connects \in [Clients -> Nat]

\* Every delivery that waits on the loop stands for one event that was published.
CallsAreCommits ==
    \A c \in Clients : calls[c] + Cardinality(unpublished) <= committed

\* What a stream believes to have sent is what its client got.
LastIsReceived == \A c \in Clients : last[c] = Len(received[c])

\* Nothing is on its way that would wake the stream.
Quiet(c) == open[c] /\ queue[c] = 0 /\ calls[c] = 0 /\ unpublished = {}

\* A page lies ahead, and a short one reaches the end of the log unless something
\* committed since is on its way to the stream.
PageIsCurrent ==
    \A c \in Clients : pc[c] = "send" =>
        /\ last[c] <= page[c]
        /\ Quiet(c) /\ ~full[c] => page[c] = committed

FeedInv ==
    /\ FeedTyped /\ CallsAreCommits /\ LastIsReceived /\ PageIsCurrent
    /\ InOrderOnce /\ WaitingIsUpToDate

\* A set of events below n, without one of its members and with the next event.
LEMMA EventSets ==
    ASSUME NEW n \in Nat, NEW S \in SUBSET (1..n)
    PROVE  /\ Cardinality(S) \in Nat /\ IsFiniteSet(S)
           /\ Cardinality(S \cup {n + 1}) = Cardinality(S) + 1
           /\ \A x \in S : Cardinality(S \ {x}) = Cardinality(S) - 1
<1>1. IsFiniteSet(S)
  <2>1. IsFiniteSet(1..n)
    BY FS_Interval
  <2> QED
    BY <2>1, FS_Subset
<1>2. n + 1 \notin S
  OBVIOUS
<1> QED
  BY <1>1, <1>2, FS_CardinalityType, FS_AddElement, FS_RemoveElement

\* A log stays a log when the domain of its events grows.
LEMMA LongerLog ==
    ASSUME NEW n \in Nat, NEW m \in Nat, n <= m, NEW log \in Seq(1..n)
    PROVE  log \in Seq(1..m)
<1>1. /\ Len(log) \in Nat /\ log \in [1..Len(log) -> 1..n] /\ 1..n \subseteq 1..m
  OBVIOUS
<1>2. log \in [1..Len(log) -> 1..m]
  BY <1>1
<1> QED
  BY <1>1, <1>2, SeqDef

\* The strengthening contains the stated invariant.
LEMMA FeedIsConsistent == FeedInv => StreamConsistent
<1> SUFFICES ASSUME FeedInv PROVE StreamConsistent
  OBVIOUS
<1>1. FeedTyped /\ CallsAreCommits
  BY DEF FeedInv
<1>2. Cardinality(unpublished) \in Nat
  <2>1. committed \in Nat /\ unpublished \subseteq 1..committed
    BY <1>1, StreamAssumption DEF FeedTyped
  <2> QED
    BY <2>1, EventSets
<1>3. \A c \in Clients : calls[c] \in 0..MaxEvents
  BY <1>1, <1>2, StreamAssumption DEF FeedTyped, CallsAreCommits
<1>4. StreamTypeOK
  BY <1>1, <1>3 DEF FeedTyped, StreamTypeOK, Streams
<1> QED
  BY <1>4 DEF FeedInv, StreamConsistent

-----------------------------------------------------------------------------
(* The live feed: one lemma per operation *)

LEMMA CommitKeeps == ASSUME FeedInv, Commit PROVE FeedInv'
<1>1. /\ committed \in Nat /\ committed' = committed + 1 /\ committed' \in 0..MaxEvents
      /\ unpublished \in SUBSET (1..committed)
      /\ unpublished' = unpublished \cup {committed + 1}
      /\ UNCHANGED <<calls, open, queue, pc, last, page, full, received, connects>>
  BY StreamAssumption DEF Commit, FeedInv, FeedTyped
<1>2. FeedTyped'
  <2>1. 0..committed \subseteq 0..committed' /\ 1..committed \subseteq 1..committed'
    BY <1>1
  <2>2. received' \in [Clients -> Seq(1..committed')]
    <3> SUFFICES ASSUME NEW c \in Clients PROVE received[c] \in Seq(1..committed')
      BY <1>1 DEF FeedInv, FeedTyped
    <3>1. received[c] \in Seq(1..committed)
      BY DEF FeedInv, FeedTyped
    <3> QED
      BY <1>1, <3>1, LongerLog
  <2> QED
    BY <1>1, <2>1, <2>2 DEF FeedInv, FeedTyped
<1>3. CallsAreCommits'
  <2>1. Cardinality(unpublished') = Cardinality(unpublished) + 1 /\ Cardinality(unpublished) \in Nat
    BY <1>1, EventSets
  <2> QED
    BY <1>1, <2>1 DEF FeedInv, FeedTyped, CallsAreCommits
<1>4. \A c \in Clients : ~Quiet(c)'
  BY <1>1 DEF Quiet
<1> QED
  BY <1>1, <1>2, <1>3, <1>4
     DEF FeedInv, LastIsReceived, PageIsCurrent, InOrderOnce, WaitingIsUpToDate, Quiet

\* A published event is on its way to every subscription that is open.
LEMMA PublishKeeps == ASSUME FeedInv, NEW n \in unpublished, Publish(n) PROVE FeedInv'
<1>1. /\ committed \in Nat /\ unpublished \in SUBSET (1..committed)
      /\ unpublished' = unpublished \ {n}
      /\ calls \in [Clients -> Nat]
      /\ calls' = [c \in Clients |-> IF open[c] THEN calls[c] + 1 ELSE calls[c]]
      /\ UNCHANGED <<committed, open, queue, pc, last, page, full, received, connects>>
  BY StreamAssumption DEF Publish, FeedInv, FeedTyped
<1>2. FeedTyped'
  BY <1>1 DEF FeedInv, FeedTyped
<1>3. CallsAreCommits'
  <2>1. Cardinality(unpublished') = Cardinality(unpublished) - 1 /\ Cardinality(unpublished) \in Nat
    BY <1>1, EventSets
  <2> QED
    BY <1>1, <2>1 DEF FeedInv, FeedTyped, CallsAreCommits
<1>4. \A c \in Clients : ~Quiet(c)'
  BY <1>1 DEF Quiet
<1> QED
  BY <1>1, <1>2, <1>3, <1>4
     DEF FeedInv, LastIsReceived, PageIsCurrent, InOrderOnce, WaitingIsUpToDate, Quiet

\* A delivery becomes a notification that waits, or closes the subscription.
LEMMA DeliverKeeps == ASSUME FeedInv, NEW c \in Clients, Deliver(c) PROVE FeedInv'
<1>1. /\ calls \in [Clients -> Nat] /\ open \in [Clients -> BOOLEAN]
      /\ queue \in [Clients -> 0..QueueSize]
      /\ calls[c] > 0 /\ calls' = [calls EXCEPT ![c] = @ - 1]
      /\ UNCHANGED <<hub, pc, last, page, full, received, connects>>
  BY DEF Deliver, FeedInv, FeedTyped
<1>2. /\ open' \in [Clients -> BOOLEAN] /\ queue' \in [Clients -> 0..QueueSize]
      /\ open'[c] => queue'[c] > 0
      /\ \A d \in Clients \ {c} : open'[d] = open[d] /\ queue'[d] = queue[d]
  <2>1. CASE ~open[c] \/ ~(queue[c] < QueueSize)
    BY <1>1, <2>1, StreamAssumption DEF Deliver
  <2>2. CASE open[c] /\ queue[c] < QueueSize
    <3>1. queue' = [queue EXCEPT ![c] = queue[c] + 1] /\ open' = open
      BY <2>2 DEF Deliver
    <3>2. queue[c] + 1 \in 0..QueueSize /\ queue[c] + 1 > 0
      BY <1>1, <2>2, StreamAssumption
    <3> QED
      BY <1>1, <3>1, <3>2
  <2> QED
    BY <2>1, <2>2
<1>3. /\ calls' \in [Clients -> Nat] /\ calls'[c] <= calls[c]
      /\ \A d \in Clients \ {c} : calls'[d] = calls[d]
  BY <1>1
<1>4. FeedTyped'
  BY <1>1, <1>2, <1>3 DEF FeedInv, FeedTyped, hub
<1>5. CallsAreCommits'
  <2>0. committed \in Nat /\ unpublished \in SUBSET (1..committed)
    BY StreamAssumption DEF FeedInv, FeedTyped
  <2>1. committed \in Nat /\ Cardinality(unpublished) \in Nat
    BY <2>0, EventSets
  <2> QED
    BY <1>1, <1>3, <2>1 DEF FeedInv, CallsAreCommits, hub
<1>6. ~Quiet(c)' /\ \A d \in Clients \ {c} : Quiet(d)' <=> Quiet(d)
  BY <1>1, <1>2, <1>3 DEF Quiet, hub
<1> QED
  BY <1>1, <1>4, <1>5, <1>6
     DEF FeedInv, LastIsReceived, PageIsCurrent, InOrderOnce, WaitingIsUpToDate, Quiet, hub

\* The steps of one stream leave the log and the other streams alone.
Only(c) ==
    /\ UNCHANGED hub
    /\ \A d \in Clients \ {c} :
          /\ calls'[d] = calls[d] /\ open'[d] = open[d] /\ queue'[d] = queue[d] /\ pc'[d] = pc[d]
          /\ last'[d] = last[d] /\ page'[d] = page[d] /\ full'[d] = full[d]
          /\ received'[d] = received[d]

\* What such a step has to leave true of its own stream.
LEMMA OwnStream ==
    ASSUME FeedInv, NEW c \in Clients, Only(c), FeedTyped',
           calls'[c] <= calls[c], last'[c] = Len(received'[c]),
           \A i \in DOMAIN received'[c] : received'[c][i] = i,
           pc'[c] = "send" => /\ last'[c] <= page'[c]
                              /\ Quiet(c)' /\ ~full'[c] => page'[c] = committed,
           pc'[c] = "live" /\ Quiet(c)' => last'[c] = committed
    PROVE  FeedInv'
<1>1. /\ UNCHANGED hub /\ committed' = committed
      /\ \A d \in Clients \ {c} : Quiet(d)' <=> Quiet(d)
  BY DEF Only, Quiet, hub
<1>2. CallsAreCommits'
  <2>0. committed \in Nat /\ unpublished \in SUBSET (1..committed)
    BY StreamAssumption DEF FeedInv, FeedTyped
  <2>1. committed \in Nat /\ Cardinality(unpublished) \in Nat
    BY <2>0, EventSets
  <2>2. \A d \in Clients : calls[d] \in Nat /\ calls'[d] \in Nat /\ calls'[d] <= calls[d]
    <3>1. calls \in [Clients -> Nat] /\ calls' \in [Clients -> Nat]
      BY DEF FeedInv, FeedTyped
    <3> QED
      BY <3>1 DEF Only
  <2> QED
    BY <1>1, <2>1, <2>2 DEF FeedInv, CallsAreCommits, hub
<1>3. LastIsReceived' /\ InOrderOnce'
  BY DEF FeedInv, LastIsReceived, InOrderOnce, Only
<1>4. PageIsCurrent' /\ WaitingIsUpToDate'
  <2> SUFFICES ASSUME NEW d \in Clients
      PROVE  /\ pc'[d] = "send" => /\ last'[d] <= page'[d]
                                   /\ Quiet(d)' /\ ~full'[d] => page'[d] = committed
             /\ pc'[d] = "live" /\ Quiet(d)' => last'[d] = committed
    BY <1>1 DEF PageIsCurrent, WaitingIsUpToDate, Quiet
  <2>1. CASE d = c
    BY <2>1
  <2>2. CASE d # c
    BY <1>1, <2>2 DEF Only, FeedInv, PageIsCurrent, WaitingIsUpToDate, Quiet
  <2> QED
    BY <2>1, <2>2
<1> QED
  BY <1>2, <1>3, <1>4 DEF FeedInv

LEMMA ConnectKeeps == ASSUME FeedInv, NEW c \in Clients, Connect(c) PROVE FeedInv'
<1>1. /\ FeedTyped /\ received[c] \in Seq(1..committed) /\ last[c] = Len(received[c])
      /\ last[c] \in 0..committed
  BY DEF FeedInv, FeedTyped, LastIsReceived
<1>2. FeedTyped'
  BY <1>1, StreamAssumption DEF Connect, FeedTyped, Streams, hub
<1>3. Only(c)
  BY <1>1 DEF Connect, Only, FeedTyped
<1>4. /\ calls'[c] = 0 /\ calls[c] \in Nat /\ last'[c] = Len(received'[c]) /\ pc'[c] = "query"
      /\ received'[c] = received[c]
  BY <1>1 DEF Connect, FeedTyped
<1> QED
  BY <1>2, <1>3, <1>4, OwnStream DEF FeedInv, InOrderOnce

LEMMA QueryKeeps == ASSUME FeedInv, NEW c \in Clients, Query(c) PROVE FeedInv'
<1>1. /\ FeedTyped /\ last[c] \in 0..committed /\ committed \in Nat /\ Batch \in Nat \ {0}
      /\ calls[c] \in Nat
  BY StreamAssumption DEF FeedInv, FeedTyped
<1>2. /\ AtMost(committed, last[c] + Batch) \in 0..committed
      /\ last[c] <= AtMost(committed, last[c] + Batch)
      /\ ~(committed >= last[c] + Batch) => AtMost(committed, last[c] + Batch) = committed
  BY <1>1 DEF AtMost
<1>3. FeedTyped'
  BY <1>1, <1>2 DEF Query, FeedTyped, Streams, hub
<1>4. Only(c)
  BY <1>1 DEF Query, Only, FeedTyped
<1>5. /\ calls'[c] = calls[c] /\ last'[c] = last[c] /\ received'[c] = received[c]
      /\ pc'[c] = "send" /\ page'[c] = AtMost(committed, last[c] + Batch)
      /\ full'[c] <=> committed >= last[c] + Batch
  BY <1>1 DEF Query, FeedTyped
<1> QED
  BY <1>1, <1>2, <1>3, <1>4, <1>5, OwnStream DEF FeedInv, InOrderOnce, LastIsReceived

\* The next event of the page is sent, or the page is done.
LEMMA SendKeeps == ASSUME FeedInv, NEW c \in Clients, Send(c) PROVE FeedInv'
<1>1. /\ FeedTyped /\ last[c] \in Nat /\ page[c] \in 0..committed /\ committed \in Nat
      /\ calls[c] \in Nat /\ received[c] \in Seq(1..committed) /\ last[c] = Len(received[c])
      /\ pc[c] = "send" /\ last[c] <= page[c]
      /\ Quiet(c) /\ ~full[c] => page[c] = committed
  BY StreamAssumption DEF Send, FeedInv, FeedTyped, LastIsReceived, PageIsCurrent
<1>2. /\ Only(c) /\ calls'[c] = calls[c] /\ page'[c] = page[c] /\ full'[c] = full[c]
      /\ Quiet(c)' <=> Quiet(c)
  BY <1>1 DEF Send, Only, FeedTyped, hub, Quiet
<1>3. CASE last[c] < page[c]
  <2>1. /\ last' = [last EXCEPT ![c] = last[c] + 1]
        /\ received' = [received EXCEPT ![c] = Append(received[c], last[c] + 1)]
        /\ last[c] + 1 \in 1..committed /\ pc' = pc
    BY <1>1, <1>3 DEF Send
  <2>2. Append(received[c], last[c] + 1) \in Seq(1..committed)
    BY <1>1, <2>1
  <2>3. FeedTyped'
    BY <1>1, <2>1, <2>2 DEF Send, FeedTyped, hub
  <2>4. /\ received'[c] = Append(received[c], last[c] + 1) /\ last'[c] = last[c] + 1
        /\ pc'[c] = "send"
    BY <1>1, <2>1 DEF FeedTyped
  <2>5. /\ last'[c] = Len(received'[c])
        /\ \A i \in DOMAIN received'[c] : received'[c][i] = i
    BY <1>1, <2>4 DEF FeedInv, InOrderOnce
  <2> QED
    BY <1>1, <1>2, <1>3, <2>1, <2>3, <2>4, <2>5, OwnStream
<1>4. CASE ~(last[c] < page[c])
  <2>1. /\ pc' = [pc EXCEPT ![c] = IF full[c] THEN "query" ELSE "live"]
        /\ UNCHANGED <<last, received>>
    BY <1>4 DEF Send
  <2>2. FeedTyped'
    BY <1>1, <2>1 DEF Send, FeedTyped, hub, Streams
  <2>3. pc'[c] # "send" /\ (pc'[c] = "live" => ~full[c])
    BY <1>1, <2>1 DEF FeedTyped
  <2>4. last[c] = page[c]
    BY <1>1, <1>4
  <2> QED
    <3>1. pc'[c] = "live" /\ Quiet(c)' => last'[c] = committed
      BY <1>1, <1>2, <2>1, <2>3, <2>4
    <3>2. /\ last'[c] = last[c] /\ received'[c] = received[c] /\ calls'[c] <= calls[c]
          /\ \A i \in DOMAIN received[c] : received[c][i] = i
      BY <1>1, <1>2, <2>1 DEF FeedInv, InOrderOnce
    <3> QED
      BY <1>1, <1>2, <2>2, <2>3, <3>1, <3>2, OwnStream
<1> QED
  BY <1>3, <1>4

LEMMA WakeKeeps == ASSUME FeedInv, NEW c \in Clients, Wake(c) PROVE FeedInv'
<1>1. FeedTyped /\ last[c] = Len(received[c]) /\ calls[c] \in Nat /\ queue[c] - 1 \in 0..QueueSize
  BY StreamAssumption DEF FeedInv, FeedTyped, LastIsReceived, Wake
<1>2. FeedTyped'
  BY <1>1 DEF Wake, FeedTyped, Streams, hub
<1>3. /\ Only(c) /\ calls'[c] = calls[c] /\ last'[c] = last[c] /\ received'[c] = received[c]
      /\ pc'[c] = "query"
  BY <1>1 DEF Wake, Only, FeedTyped
<1> QED
  BY <1>1, <1>2, <1>3, OwnStream DEF FeedInv, InOrderOnce

LEMMA LeaveKeeps == ASSUME FeedInv, NEW c \in Clients, Overflow(c) \/ Disconnect(c) PROVE FeedInv'
<1>1. FeedTyped /\ last[c] = Len(received[c]) /\ calls[c] \in Nat
  BY DEF FeedInv, FeedTyped, LastIsReceived
<1>2. FeedTyped'
  BY <1>1 DEF Overflow, Disconnect, FeedTyped, Streams, hub
<1>3. /\ Only(c) /\ calls'[c] = calls[c] /\ last'[c] = last[c] /\ received'[c] = received[c]
      /\ pc'[c] \in {"ended", "off"}
  BY <1>1 DEF Overflow, Disconnect, Only, FeedTyped
<1> QED
  BY <1>1, <1>2, <1>3, OwnStream DEF FeedInv, InOrderOnce

-----------------------------------------------------------------------------
\* Whatever the order of commits, publications, deliveries and queries, for any
\* number of clients, page size and queue size: a client sees the log from its
\* beginning, in order, each event once, and a stream that waits without anything
\* on its way to wake it has sent everything.
THEOREM FeedIsComplete == StreamSpec => []StreamConsistent
<1>1. StreamInit => FeedInv
  <2> SUFFICES ASSUME StreamInit PROVE FeedInv
    OBVIOUS
  <2>1. FeedTyped
    <3>1. <<>> \in Seq(1..0)
      OBVIOUS
    <3> QED
      BY <3>1, StreamAssumption DEF StreamInit, FeedTyped, Streams
  <2>2. CallsAreCommits
    BY FS_EmptySet DEF StreamInit, CallsAreCommits
  <2> QED
    BY <2>1, <2>2 DEF StreamInit, FeedInv, LastIsReceived, PageIsCurrent, InOrderOnce,
                      WaitingIsUpToDate
<1>2. FeedInv /\ [StreamNext]_streamVars => FeedInv'
  <2> SUFFICES ASSUME FeedInv, [StreamNext]_streamVars PROVE FeedInv'
    OBVIOUS
  <2>1. CASE UNCHANGED streamVars
    BY <2>1 DEF streamVars, FeedInv, FeedTyped, CallsAreCommits, LastIsReceived, PageIsCurrent,
                InOrderOnce, WaitingIsUpToDate, Quiet
  <2> QED
    BY <2>1, CommitKeeps, PublishKeeps, DeliverKeeps, ConnectKeeps, QueryKeeps, SendKeeps,
       WakeKeeps, LeaveKeeps DEF StreamNext, StreamStep
<1> QED
  BY <1>1, <1>2, FeedIsConsistent, PTL DEF StreamSpec

-----------------------------------------------------------------------------
(***************************************************************************)
(* Proofs about RunAdmission: for any endpoints, certification commands,   *)
(* investigations and runs, whatever the source tree and the configuration *)
(* of the service become.                                                  *)
(***************************************************************************)

\* What a certification has sealed, wherever it is kept.
Sound(a, e) ==
    /\ a.endpoint = e /\ a.transport = Transport(a.seen)
    /\ ~a.source.dirty => a.source.manifest = a.source.revision

FilesTyped ==
    /\ tree \in [text : 0..MaxEdits, head : 0..MaxEdits, build : 0..MaxEdits]
    /\ certifier \in [Certifiers -> Certifying]
    /\ temp \in [Generic -> Files] /\ slot \in [Generic -> Files]

\* A mixed file is not an artifact; everything else was sealed for its endpoint.
FilesSound ==
    /\ tree.build <= tree.text
    /\ \A c \in Certifiers :
          /\ certifier[c].step # "idle" => certifier[c].endpoint \in Generic
          /\ certifier[c].art # None => Sound(certifier[c].art, certifier[c].endpoint)
    /\ \A e \in Generic :
          /\ temp[e] \notin {None, Torn} => Sound(temp[e], e)
          /\ slot[e] \notin {None, Torn} => Sound(slot[e], e)

FilesInv == FilesTyped /\ FilesSound

\* Only a service without a model of its own is without a base URL of its own.
ServerInv ==
    /\ server \in [up : BOOLEAN, provider : Providers,
                   base : Generic \cup {DeepSeekUrl, None}, build : 0..MaxEdits]
    /\ server.provider = "openai_compatible" => server.base \in Generic
    /\ server.provider = "deepseek" => server.base = DeepSeekUrl

\* A running run was bound by the process that is up.
Bound(run) ==
    /\ server.up
    /\ Certified(run) => server.provider \in {"none", "openai"} \/ server.base = run.endpoint

RunsInv ==
    /\ runs \in [RunIds -> RunRecord]
    /\ \A r \in RunIds : runs[r].status = "absent" => runs[r].on = None
    /\ \A r \in RunIds : runs[r].status # "absent" => runs[r].on \in Records
    /\ \A r \in RunIds : runs[r].status = "running" => Bound(runs[r])
    /\ AdmittedOnProof /\ CertifiedStaysPut

\* An unsettled run has its investigation for itself, and that is one of its kind.
PlacesInv ==
    /\ recs \in [Records -> Record]
    /\ \A r, q \in RunIds : runs[r].status \in Unsettled /\ runs[q].status \in Unsettled
                              /\ runs[r].on = runs[q].on => r = q
    /\ \A i \in Records : recs[i].legacy => recs[i].owner = None /\ recs[i].state = "touched"
    /\ \A r \in RunIds : runs[r].status \in Unsettled =>
          /\ recs[runs[r].on].state # "absent"
          /\ IF runs[r].version = "v11" THEN ~recs[runs[r].on].legacy
                                        ELSE recs[runs[r].on].owner = None
    /\ NothingOrphaned

AdmissionInv == FilesInv /\ ServerInv /\ RunsInv /\ PlacesInv

-----------------------------------------------------------------------------
(* The files of the certification *)

\* The identity that is stamped into an artifact.
LEMMA SourceType == FilesTyped => SourceIdentity \in Sources
BY DEF FilesTyped, SourceIdentity, Sources

\* What certify_endpoint_async seals is an artifact of its endpoint.
LEMMA ArtifactSound ==
    ASSUME FilesTyped, NEW e \in Generic, NEW o \in Probed, NEW build \in 0..MaxEdits
    PROVE  /\ Artifact(e, o, build, SourceIdentity) \in Artifacts
           /\ Sound(Artifact(e, o, build, SourceIdentity), e)
<1>1. o \in Observations /\ o.native \in BOOLEAN /\ o.strict \in BOOLEAN /\ o.common \in BOOLEAN
  BY DEF Probed, Observations
<1>2. Transport(o) \in Transports
  BY DEF Transport, Transports
<1>3. (o.common /\ Supports(o, Transport(o))) \in BOOLEAN
  BY <1>1 DEF Supports
<1>4. SourceIdentity \in Sources
  BY SourceType
<1>5. ~SourceIdentity.dirty => SourceIdentity.manifest = SourceIdentity.revision
  BY DEF SourceIdentity
<1> QED
  BY <1>1, <1>2, <1>3, <1>4, <1>5 DEF Artifact, Artifacts, Sound

\* Moving one command to another step, endpoint, artifact or file.
LEMMA CommandMoves ==
    ASSUME FilesInv, NEW c \in Certifiers, NEW new \in Certifying,
           new.step # "idle" => new.endpoint \in Generic,
           new.art # None => Sound(new.art, new.endpoint),
           certifier' = [certifier EXCEPT ![c] = new], UNCHANGED tree,
           temp' \in [Generic -> Files], slot' \in [Generic -> Files],
           \A e \in Generic : /\ temp'[e] \notin {None, Torn} => Sound(temp'[e], e)
                              /\ slot'[e] \notin {None, Torn} => Sound(slot'[e], e)
    PROVE  FilesInv'
<1>1. FilesTyped'
  BY DEF FilesInv, FilesTyped
<1>2. \A d \in Certifiers : certifier'[d] = IF d = c THEN new ELSE certifier[d]
  BY DEF FilesInv, FilesTyped
<1>3. FilesSound'
  BY <1>2 DEF FilesInv, FilesSound, Sound, Transport
<1> QED
  BY <1>1, <1>3 DEF FilesInv

\* A step that leaves both files of an endpoint alone.
LEMMA KeptFiles ==
    ASSUME FilesInv, UNCHANGED temp, UNCHANGED slot
    PROVE  /\ temp' \in [Generic -> Files] /\ slot' \in [Generic -> Files]
           /\ \A e \in Generic : /\ temp'[e] \notin {None, Torn} => Sound(temp'[e], e)
                                 /\ slot'[e] \notin {None, Torn} => Sound(slot'[e], e)
BY DEF FilesInv, FilesTyped, FilesSound

\* The certification commands and the source tree keep the files sound.
LEMMA CertifierKeepsFiles ==
    ASSUME FilesInv, NEW c \in Certifiers, CertifierStep(c)
    PROVE  FilesInv'
<1> DEFINE me == certifier[c]
<1>1. /\ me \in Certifying
      /\ me.step # "idle" => me.endpoint \in Generic
      /\ me.art # None => Sound(me.art, me.endpoint)
  BY DEF FilesInv, FilesTyped, FilesSound
<1>2. NotCalled \in Certifying /\ NotCalled.step = "idle" /\ NotCalled.art = None
  BY RunAdmissionAssumption DEF NotCalled, Certifying
<1>3. certifier \in [Certifiers -> Certifying]
  BY DEF FilesInv, FilesTyped
<1>4. CASE \E e \in Generic : Probe(c, e)
  <2>1. PICK e \in Generic : Probe(c, e)
    BY <1>4
  <2>2. PICK new : /\ new = [NotCalled EXCEPT !.step = "probing", !.endpoint = e, !.build = tree.build]
                   /\ certifier' = [certifier EXCEPT ![c] = new]
    BY <2>1 DEF Probe
  <2>3. tree.build \in 0..MaxEdits
    BY DEF FilesInv, FilesTyped
  <2>4. new \in Certifying /\ new.endpoint = e /\ new.art = None
    BY <2>2, <2>3 DEF NotCalled, Certifying
  <2> QED
    BY <2>1, <2>2, <2>4, KeptFiles, CommandMoves DEF Probe
<1>5. CASE Seal(c)
  <2>1. PICK o \in Probed : certifier' = [certifier EXCEPT
              ![c].step = "sealed",
              ![c].art = Artifact(certifier[c].endpoint, o, certifier[c].build, SourceIdentity)]
    BY <1>5 DEF Seal
  <2>2. me.endpoint \in Generic /\ me.build \in 0..MaxEdits
    BY <1>1, <1>5 DEF Seal, Certifying
  <2>3. PICK a : a = Artifact(me.endpoint, o, me.build, SourceIdentity)
    OBVIOUS
  <2>4. a \in Artifacts /\ Sound(a, me.endpoint)
    BY <2>2, <2>3, ArtifactSound DEF FilesInv
  <2>5. PICK new : new = [me EXCEPT !.step = "sealed", !.art = a]
    OBVIOUS
  <2>6. certifier' = [certifier EXCEPT ![c] = new]
    BY <2>1, <2>3, <2>5, <1>3
  <2>7. new \in Certifying /\ new.endpoint = me.endpoint /\ new.art = a
    BY <1>1, <2>4, <2>5 DEF Certifying
  <2> QED
    BY <1>5, <2>2, <2>4, <2>6, <2>7, KeptFiles, CommandMoves DEF Seal
<1>6. CASE OpenTemp(c)
  <2>1. PICK new : /\ new = [me EXCEPT !.step = "open", !.file = "temp"]
                   /\ certifier' = [certifier EXCEPT ![c] = new]
    BY <1>3, <1>6 DEF OpenTemp
  <2>2. new \in Certifying /\ new.endpoint = me.endpoint /\ new.art = me.art
    BY <1>1, <2>1 DEF Certifying
  <2>3. Torn \in Files /\ UNCHANGED <<tree, slot>> /\ temp' = [temp EXCEPT ![me.endpoint] = Torn]
    BY <1>6 DEF OpenTemp, Files
  <2>4. temp' \in [Generic -> Files] /\ slot' \in [Generic -> Files]
    BY <2>3 DEF FilesInv, FilesTyped
  <2>5. \A e \in Generic : /\ temp'[e] \notin {None, Torn} => Sound(temp'[e], e)
                           /\ slot'[e] \notin {None, Torn} => Sound(slot'[e], e)
    BY <2>3 DEF FilesInv, FilesTyped, FilesSound
  <2>6. me.endpoint \in Generic
    BY <1>1, <1>6 DEF OpenTemp
  <2> QED
    BY <1>1, <2>1, <2>2, <2>3, <2>4, <2>5, <2>6, CommandMoves
<1>7. CASE FillTemp(c)
  <2>1. PICK new : /\ new = [me EXCEPT !.step = "full"]
                   /\ certifier' = [certifier EXCEPT ![c] = new]
    BY <1>3, <1>7 DEF FillTemp
  <2>2. new \in Certifying /\ new.endpoint = me.endpoint /\ new.art = me.art
    BY <1>1, <2>1 DEF Certifying
  <2>3. me.endpoint \in Generic
    BY <1>1, <1>7 DEF FillTemp
  <2>4. me.art \in Files /\ Torn \in Files
    BY <1>1 DEF Certifying, Files
  <2>5. UNCHANGED tree
    BY <1>7 DEF FillTemp
  <2>6. CASE \E file \in {me.art, Torn} : temp' = [temp EXCEPT ![me.endpoint] = file] /\ UNCHANGED slot
    <3>1. PICK file \in {me.art, Torn} : temp' = [temp EXCEPT ![me.endpoint] = file]
      BY <2>6
    <3>2. temp' \in [Generic -> Files] /\ slot' \in [Generic -> Files]
      BY <2>4, <2>6, <3>1 DEF FilesInv, FilesTyped
    <3>3. \A e \in Generic : /\ temp'[e] \notin {None, Torn} => Sound(temp'[e], e)
                             /\ slot'[e] \notin {None, Torn} => Sound(slot'[e], e)
      BY <1>1, <2>6, <3>1 DEF FilesInv, FilesTyped, FilesSound
    <3> QED
      BY <1>1, <2>1, <2>2, <2>3, <2>5, <3>2, <3>3, CommandMoves
  <2>7. CASE \E file \in {me.art, Torn} : slot' = [slot EXCEPT ![me.endpoint] = file] /\ UNCHANGED temp
    <3>1. PICK file \in {me.art, Torn} : slot' = [slot EXCEPT ![me.endpoint] = file]
      BY <2>7
    <3>2. temp' \in [Generic -> Files] /\ slot' \in [Generic -> Files]
      BY <2>4, <2>7, <3>1 DEF FilesInv, FilesTyped
    <3>3. \A e \in Generic : /\ temp'[e] \notin {None, Torn} => Sound(temp'[e], e)
                             /\ slot'[e] \notin {None, Torn} => Sound(slot'[e], e)
      BY <1>1, <2>7, <3>1 DEF FilesInv, FilesTyped, FilesSound
    <3> QED
      BY <1>1, <2>1, <2>2, <2>3, <2>5, <3>2, <3>3, CommandMoves
  <2>8. CASE UNCHANGED temp /\ UNCHANGED slot
    BY <1>1, <2>1, <2>2, <2>3, <2>5, <2>8, KeptFiles, CommandMoves
  <2> QED
    BY <1>7, <2>6, <2>7, <2>8 DEF FillTemp
<1>8. CASE ReplaceArtifact(c)
  <2>1. me.endpoint \in Generic /\ UNCHANGED tree
    BY <1>1, <1>8 DEF ReplaceArtifact
  <2>2. CASE temp[me.endpoint] = None
    <3>1. certifier' = [certifier EXCEPT ![c] = NotCalled] /\ UNCHANGED temp /\ UNCHANGED slot
      BY <1>8, <2>2 DEF ReplaceArtifact
    <3> QED
      BY <1>2, <2>1, <3>1, KeptFiles, CommandMoves
  <2>3. CASE temp[me.endpoint] # None
    <3>1. /\ slot' = [slot EXCEPT ![me.endpoint] = temp[me.endpoint]]
          /\ temp' = [temp EXCEPT ![me.endpoint] = None]
          /\ certifier' = [d \in Certifiers |->
                 IF d = c THEN NotCalled ELSE [certifier[d] EXCEPT !.file = FileAfter(c, d)]]
      BY <1>8, <2>3 DEF ReplaceArtifact
    <3>2. \A d \in Certifiers : FileAfter(c, d) \in {"none", "temp", "slot", "gone"}
      BY <1>3 DEF FileAfter, Certifying
    <3>3. \A d \in Certifiers :
            /\ certifier'[d] \in Certifying
            /\ \/ certifier'[d] = NotCalled
               \/ /\ certifier'[d].step = certifier[d].step
                  /\ certifier'[d].endpoint = certifier[d].endpoint
                  /\ certifier'[d].art = certifier[d].art
      BY <1>2, <1>3, <3>1, <3>2 DEF Certifying
    <3>4. certifier' \in [Certifiers -> Certifying]
      BY <3>1, <3>3
    <3>5. temp' \in [Generic -> Files] /\ slot' \in [Generic -> Files]
      BY <2>1, <3>1 DEF FilesInv, FilesTyped, Files
    <3>6. FilesTyped'
      BY <2>1, <3>4, <3>5 DEF FilesInv, FilesTyped
    <3>7. \A d \in Certifiers :
            /\ certifier'[d].step # "idle" => certifier'[d].endpoint \in Generic
            /\ certifier'[d].art # None => Sound(certifier'[d].art, certifier'[d].endpoint)
      BY <1>2, <3>3 DEF FilesInv, FilesSound
    <3>8. \A e \in Generic : /\ temp'[e] \notin {None, Torn} => Sound(temp'[e], e)
                             /\ slot'[e] \notin {None, Torn} => Sound(slot'[e], e)
      BY <3>1 DEF FilesInv, FilesTyped, FilesSound
    <3> QED
      BY <2>1, <3>6, <3>7, <3>8 DEF FilesInv, FilesSound, Sound, Transport
  <2> QED
    BY <2>2, <2>3
<1>9. CASE KillCertifier(c)
  BY <1>2, <1>9, KeptFiles, CommandMoves DEF KillCertifier
<1> QED
  BY <1>4, <1>5, <1>6, <1>7, <1>8, <1>9 DEF CertifierStep

\* A change of the source tree never outruns its own count of builds.
LEMMA EditsKeepFiles == FilesInv /\ (Edit \/ CommitEdits) => FilesInv'
<1> SUFFICES ASSUME FilesInv, Edit \/ CommitEdits PROVE FilesInv'
  OBVIOUS
<1>1. UNCHANGED <<certifier, temp, slot>>
  BY DEF Edit, CommitEdits
<1>2. /\ tree.text \in 0..MaxEdits /\ tree.head \in 0..MaxEdits /\ tree.build \in 0..MaxEdits
      /\ tree.build <= tree.text
  BY DEF FilesInv, FilesTyped, FilesSound
<1>3. /\ tree' \in [text : 0..MaxEdits, head : 0..MaxEdits, build : 0..MaxEdits]
      /\ tree'.build <= tree'.text
  <2>1. CASE Edit
    <3>1. PICK build \in {tree.build, tree.build + 1} : tree' = [tree EXCEPT !.text = @ + 1, !.build = build]
      BY <2>1 DEF Edit
    <3>2. tree.text + 1 \in 0..MaxEdits /\ build \in 0..MaxEdits /\ build <= tree.text + 1
      BY <1>2, <2>1, <3>1, RunAdmissionAssumption DEF Edit
    <3> QED
      BY <3>1, <3>2 DEF FilesInv, FilesTyped
  <2>2. CASE CommitEdits
    BY <1>2, <2>2 DEF CommitEdits, FilesInv, FilesTyped
  <2> QED
    BY <2>1, <2>2
<1> QED
  BY <1>1, <1>3 DEF FilesInv, FilesTyped, FilesSound, Sound, Transport

-----------------------------------------------------------------------------
(* The service and the contracts of its runs *)

\* A restart takes the base URL that belongs to the provider, a crash keeps it.
LEMMA ServerStep ==
    ASSUME FilesInv, ServerInv, AdmissionNext
    PROVE  ServerInv'
<1>1. CASE \E provider \in Providers, e \in Generic : StartServer(provider, e)
  <2>1. PICK provider \in Providers, e \in Generic : StartServer(provider, e)
    BY <1>1
  <2>2. tree.build \in 0..MaxEdits
    BY DEF FilesInv, FilesTyped
  <2>3. server' = [up |-> TRUE, provider |-> provider, base |-> AdapterAt(provider, e), build |-> tree.build]
    BY <2>1 DEF StartServer
  <2>4. /\ AdapterAt(provider, e) \in Generic \cup {DeepSeekUrl, None}
        /\ provider = "openai_compatible" => AdapterAt(provider, e) = e
        /\ provider = "deepseek" => AdapterAt(provider, e) = DeepSeekUrl
    BY DEF AdapterAt
  <2> QED
    BY <2>2, <2>3, <2>4 DEF ServerInv
<1>2. CASE UNCHANGED server
  BY <1>2 DEF ServerInv
<1>3. CASE server' = [server EXCEPT !.up = FALSE]
  BY <1>3 DEF ServerInv
<1>4. \/ \E provider \in Providers, e \in Generic : StartServer(provider, e)
      \/ UNCHANGED server
      \/ server' = [server EXCEPT !.up = FALSE]
  <2>1. \A c \in Certifiers : CertifierStep(c) => UNCHANGED server
    BY DEF CertifierStep, Probe, Seal, OpenTemp, FillTemp, ReplaceArtifact,
            KillCertifier
  <2>2. Edit \/ CommitEdits => UNCHANGED server
    BY DEF Edit, CommitEdits
  <2>3. ServiceStep => \/ \E provider \in Providers, e \in Generic : StartServer(provider, e)
                       \/ UNCHANGED server
                       \/ server' = [server EXCEPT !.up = FALSE]
    BY DEF ServiceStep, CrashServer, RefuseRun, DieCreating, CreateRuntimeRun, Execute,
           CallModel, EndRun, CancelUnstarted
  <2> QED
    BY <2>1, <2>2, <2>3 DEF AdmissionNext
<1> QED
  BY <1>1, <1>2, <1>3, <1>4

\* What AdmittedOnProof says of the artifact of a run.
Proved(a, e, transport) ==
    /\ a # None /\ a.endpoint = e /\ a.transport = transport
    /\ a.seen.common /\ Supports(a.seen, a.transport)
    /\ a.seen.via = transport
    /\ ~a.source.dirty /\ a.source.manifest = a.source.revision

\* The roles were probed over the transport that was chosen.
LEMMA ViaTransport ==
    ASSUME NEW o \in Observations, Supports(o, Transport(o))
    PROVE  o.via = Transport(o)
<1>1. PICK n \in BOOLEAN, x \in BOOLEAN, c \in BOOLEAN :
        o = [native |-> n, strict |-> x, common |-> c,
             via |-> IF n THEN "native_json_schema" ELSE IF x THEN "strict_output_tool" ELSE "none"]
  BY DEF Observations
<1> QED
  BY <1>1 DEF Supports, Transport

\* An identity a V11 run is admitted with; over a compatible endpoint it is proved.
LEMMA IdentitySound ==
    ASSUME FilesInv, ServerInv, NEW id \in ModelIdentity
    PROVE  /\ id.endpoint \in Endpoints \cup {None} /\ id.transport \in Transports
           /\ id.cap \in Artifacts \cup {None}
           /\ server.provider = "openai_compatible" => Proved(id.cap, id.endpoint, id.transport)
<1>1. CASE server.provider = "openai_compatible"
  <2>1. server.base \in Generic
    BY <1>1 DEF ServerInv
  <2>2. /\ Valid(slot[server.base])
        /\ id = [endpoint |-> server.base, cap |-> slot[server.base],
                 transport |-> slot[server.base].transport]
    BY <1>1 DEF ModelIdentity
  <2>3. PICK a : a = slot[server.base]
    OBVIOUS
  <2>4. a \in Artifacts /\ a # None /\ Sound(a, server.base)
    BY <2>1, <2>2, <2>3 DEF FilesInv, FilesTyped, FilesSound, Files, Valid
  <2>5. /\ a.seen \in Observations /\ a.transport \in Transports
        /\ a.seen.common /\ Supports(a.seen, a.transport) /\ ~a.source.dirty
    BY <2>2, <2>3, <2>4 DEF Valid, Artifacts
  <2>6. Proved(a, server.base, a.transport)
    BY <2>4, <2>5, ViaTransport DEF Proved, Sound
  <2> QED
    BY <2>1, <2>2, <2>3, <2>4, <2>5, <2>6 DEF Endpoints
<1>2. CASE server.provider # "openai_compatible"
  BY <1>2 DEF ModelIdentity, Endpoints, Transports
<1> QED
  BY <1>1, <1>2

\* The record of one run changes while the service stays as it is.
LEMMA OneRun ==
    ASSUME RunsInv, UNCHANGED server, NEW r \in RunIds, NEW new \in RunRecord,
           new.status = "absent" => new.on = None,
           new.status # "absent" => new.on \in Records,
           new.status = "running" => Bound(new),
           Certified(new) => /\ Proved(new.cap, new.endpoint, new.transport)
                             /\ new.calls \subseteq {<<new.endpoint, new.transport>>},
           runs' = [runs EXCEPT ![r] = new]
    PROVE  RunsInv'
<1>1. /\ runs \in [RunIds -> RunRecord]
      /\ \A q \in RunIds : /\ runs[q].status = "absent" => runs[q].on = None
                           /\ runs[q].status # "absent" => runs[q].on \in Records
                           /\ runs[q].status = "running" => Bound(runs[q])
                           /\ Certified(runs[q]) => Proved(runs[q].cap, runs[q].endpoint, runs[q].transport)
                           /\ Certified(runs[q]) => runs[q].calls \subseteq {<<runs[q].endpoint, runs[q].transport>>}
  BY DEF RunsInv, AdmittedOnProof, CertifiedStaysPut, Proved
<1>2. /\ runs' \in [RunIds -> RunRecord]
      /\ \A q \in RunIds : runs'[q] = IF q = r THEN new ELSE runs[q]
  BY <1>1
<1>3. \A q \in RunIds : runs'[q].status = "running" =>
        /\ server'.up
        /\ Certified(runs'[q]) => \/ server'.provider \in {"none", "openai"}
                                 \/ server'.base = runs'[q].endpoint
  BY <1>1, <1>2 DEF Bound
<1>4. \A q \in RunIds : Certified(runs'[q]) =>
        /\ Proved(runs'[q].cap, runs'[q].endpoint, runs'[q].transport)
        /\ runs'[q].calls \subseteq {<<runs'[q].endpoint, runs'[q].transport>>}
  BY <1>1, <1>2
<1>5. \A q \in RunIds : /\ runs'[q].status = "absent" => runs'[q].on = None
                        /\ runs'[q].status # "absent" => runs'[q].on \in Records
  BY <1>1, <1>2
<1>6. AdmittedOnProof' /\ CertifiedStaysPut'
  BY <1>4 DEF AdmittedOnProof, CertifiedStaysPut, Certified, Proved, Supports
<1> QED
  BY <1>2, <1>3, <1>5, <1>6 DEF RunsInv, Bound, Certified

\* The service dies: nothing is running any more, and nothing else changes.
LEMMA StrandedRuns ==
    ASSUME RunsInv, runs' = Stranded
    PROVE  /\ RunsInv'
           /\ \A q \in RunIds : /\ runs'[q].on = runs[q].on /\ runs'[q].version = runs[q].version
                                /\ runs'[q].status \in Unsettled <=> runs[q].status \in Unsettled
<1>1. /\ runs \in [RunIds -> RunRecord]
      /\ \A q \in RunIds : /\ runs[q].status = "absent" => runs[q].on = None
                           /\ runs[q].status # "absent" => runs[q].on \in Records
  BY DEF RunsInv
<1>2. \A q \in RunIds : \/ /\ runs[q].status = "created"
                           /\ runs'[q] = [runs[q] EXCEPT !.status = "stranded"]
                        \/ /\ runs[q].status = "running"
                           /\ runs'[q] = [runs[q] EXCEPT !.status = "interrupted"]
                        \/ /\ runs[q].status \notin {"created", "running"}
                           /\ runs'[q] = runs[q]
  BY DEF Stranded
<1>3. \A q \in RunIds :
        /\ runs'[q] \in RunRecord
        /\ runs'[q].on = runs[q].on /\ runs'[q].version = runs[q].version
        /\ runs'[q].provider = runs[q].provider /\ runs'[q].endpoint = runs[q].endpoint
        /\ runs'[q].transport = runs[q].transport /\ runs'[q].cap = runs[q].cap
        /\ runs'[q].calls = runs[q].calls
        /\ runs'[q].status # "running"
        /\ runs'[q].status = "absent" <=> runs[q].status = "absent"
        /\ runs'[q].status \in Unsettled <=> runs[q].status \in Unsettled
  <2> SUFFICES ASSUME NEW q \in RunIds
      PROVE  /\ runs'[q] \in RunRecord
             /\ runs'[q].on = runs[q].on /\ runs'[q].version = runs[q].version
             /\ runs'[q].provider = runs[q].provider /\ runs'[q].endpoint = runs[q].endpoint
             /\ runs'[q].transport = runs[q].transport /\ runs'[q].cap = runs[q].cap
             /\ runs'[q].calls = runs[q].calls
             /\ runs'[q].status # "running"
             /\ runs'[q].status = "absent" <=> runs[q].status = "absent"
             /\ runs'[q].status \in Unsettled <=> runs[q].status \in Unsettled
    OBVIOUS
  <2>1. runs[q] \in RunRecord
    BY <1>1
  <2>2. CASE runs[q].status \in {"created", "running"}
    <3>1. PICK new \in {"stranded", "interrupted"} : runs'[q] = [runs[q] EXCEPT !.status = new]
      BY <1>2, <2>2
    <3>2. runs'[q].status = new
      BY <2>1, <3>1 DEF RunRecord
    <3>3. /\ runs'[q].on = runs[q].on /\ runs'[q].version = runs[q].version
          /\ runs'[q].provider = runs[q].provider /\ runs'[q].endpoint = runs[q].endpoint
          /\ runs'[q].transport = runs[q].transport /\ runs'[q].cap = runs[q].cap
          /\ runs'[q].calls = runs[q].calls
      BY <2>1, <3>1 DEF RunRecord
    <3>4. runs'[q] \in RunRecord
      BY <2>1, <3>1 DEF RunRecord, Unsettled
    <3> QED
      BY <2>2, <3>2, <3>3, <3>4 DEF Unsettled
  <2>3. CASE runs[q].status \notin {"created", "running"}
    <3>1. runs'[q] = runs[q]
      BY <1>2, <2>3
    <3> QED
      BY <2>1, <2>3, <3>1
  <2> QED
    BY <2>2, <2>3
<1>4. runs' \in [RunIds -> RunRecord]
  BY <1>3 DEF Stranded
<1>5. AdmittedOnProof' /\ CertifiedStaysPut'
  BY <1>3 DEF RunsInv, AdmittedOnProof, CertifiedStaysPut, Certified, Supports
<1> QED
  BY <1>1, <1>3, <1>4, <1>5 DEF RunsInv

\* Where a run is placed: an investigation of its own kind, or one made for it.
LEMMA PlacedSound ==
    ASSUME PlacesInv, NEW i \in Records, NEW v \in {"v10", "v11"}, NEW p \in Placed(i, v)
    PROVE  /\ p.on \in Records
           /\ \E new \in Record :
                 /\ p.recs = [recs EXCEPT ![p.on] = new]
                 /\ new.state # "absent"
                 /\ \/ new = recs[p.on]
                    \/ recs[p.on].state = "absent" /\ ~new.legacy /\ new.owner = None
                       /\ new.by = v /\ new.state = "pending"
                 /\ v = "v11" => ~new.legacy
<1>1. \A w \in {"v10", "v11"} : Blank(w) \in Record /\ ~Blank(w).legacy /\ Blank(w).owner = None
                                /\ Blank(w).by = w /\ Blank(w).state = "pending"
  BY DEF Blank, Record
<1>2. recs \in [Records -> Record]
  BY DEF PlacesInv
<1>3. CASE NeedsCopy(i, v)
  <2>1. PICK j \in Records : /\ recs[j].state = "absent"
                             /\ p = [on |-> j, recs |-> [recs EXCEPT ![j] = Linked(i)]]
    BY <1>3 DEF Placed
  <2>2. Linked(i) \in Record /\ ~Linked(i).legacy /\ Linked(i).owner = None
        /\ Linked(i).by = "v11" /\ Linked(i).state = "pending"
    BY DEF Linked, Blank, Record
  <2> QED
    BY <1>3, <2>1, <2>2 DEF NeedsCopy
<1>4. CASE ~NeedsCopy(i, v)
  <2>1. p = [on |-> i, recs |-> Arrived(i, v)]
    BY <1>4 DEF Placed
  <2>2. CASE recs[i].state = "absent"
    BY <1>1, <2>1, <2>2 DEF Arrived
  <2>3. CASE recs[i].state # "absent"
    <3>1. p.recs = [recs EXCEPT ![i] = recs[i]]
      BY <1>2, <2>1, <2>3 DEF Arrived
    <3>2. v = "v11" => ~recs[i].legacy
      BY <1>4 DEF NeedsCopy, PlacesInv
    <3> QED
      BY <1>2, <2>1, <2>3, <3>1, <3>2
  <2> QED
    BY <2>2, <2>3
<1> QED
  BY <1>3, <1>4

\* A run is placed at an investigation of the system.
LEMMA PlacedSomewhere ==
    ASSUME NEW i \in Records, NEW v \in {"v10", "v11"}, NEW p \in Placed(i, v)
    PROVE  p.on \in Records
<1>1. CASE NeedsCopy(i, v)
  BY <1>1 DEF Placed
<1>2. CASE ~NeedsCopy(i, v)
  BY <1>2 DEF Placed
<1> QED
  BY <1>1, <1>2

\* A run that is created rests on what its identity proves.
LEMMA ContractSound ==
    ASSUME FilesInv, ServerInv, NEW i \in Records, NEW v \in {"v10", "v11"}, NEW j \in Records,
           NEW id \in Identities(i, v)
    PROVE  LET new == Contract(i, v, j, id) IN
           /\ new \in RunRecord /\ new.status = "created" /\ new.on = j /\ new.version = v
           /\ new.calls = {}
           /\ Certified(new) => Proved(new.cap, new.endpoint, new.transport)
<1>1. /\ id.endpoint \in Endpoints \cup {None} /\ id.transport \in Transports
      /\ id.cap \in Artifacts \cup {None}
      /\ v = "v11" /\ server.provider = "openai_compatible" => Proved(id.cap, id.endpoint, id.transport)
  <2>1. CASE v = "v11"
    BY <2>1, IdentitySound DEF Identities
  <2>2. CASE v = "v10"
    BY <2>2 DEF Identities, Transports
  <2> QED
    BY <2>1, <2>2
<1>2. PICK new : new = Contract(i, v, j, id)
  OBVIOUS
<1>3. /\ new.status = "created" /\ new.version = v /\ new.on = j /\ new.calls = {}
      /\ new.provider = server.provider /\ new.endpoint = id.endpoint
      /\ new.transport = id.transport /\ new.cap = id.cap
  BY <1>2 DEF Contract, NoRunYet
<1>4. server.provider \in Providers
  BY DEF ServerInv
<1>5. new \in RunRecord
  BY <1>1, <1>2, <1>4 DEF Contract, NoRunYet, RunRecord, Unsettled
<1> QED
  BY <1>1, <1>2, <1>3, <1>5 DEF Certified

\* Every step keeps contracts proved, calls where they belong and running runs bound.
LEMMA RunsStep ==
    ASSUME FilesInv, ServerInv, RunsInv, PlacesInv, AdmissionNext
    PROVE  RunsInv'
<1>1. runs \in [RunIds -> RunRecord]
  BY DEF RunsInv
<1>2. CASE UNCHANGED runs /\ UNCHANGED server
  BY <1>2 DEF RunsInv, AdmittedOnProof, CertifiedStaysPut, Certified, Supports, Bound
<1>3. CASE \E provider \in Providers, e \in Generic : StartServer(provider, e)
  <2>1. UNCHANGED runs /\ ~server.up
    BY <1>3 DEF StartServer
  <2>2. \A q \in RunIds : runs[q].status # "running"
    BY <2>1 DEF RunsInv, Bound
  <2> QED
    BY <2>1, <2>2 DEF RunsInv, AdmittedOnProof, CertifiedStaysPut, Certified, Supports
<1>4. CASE runs' = Stranded
  BY <1>4, StrandedRuns
<1>5. ASSUME NEW r \in RunIds, NEW i \in Records, NEW v \in {"v10", "v11"}, CreateRuntimeRun(r, i, v)
      PROVE  RunsInv'
  <2>1. PICK id \in Identities(i, v), p \in Placed(i, v) :
          runs' = [runs EXCEPT ![r] = Contract(i, v, p.on, id)]
    BY <1>5 DEF CreateRuntimeRun
  <2>2. p.on \in Records
    BY PlacedSomewhere
  <2>3. PICK new : new = Contract(i, v, p.on, id)
    OBVIOUS
  <2>4. /\ new \in RunRecord /\ new.status = "created" /\ new.on \in Records /\ new.calls = {}
        /\ Certified(new) => Proved(new.cap, new.endpoint, new.transport)
    BY <2>2, <2>3, ContractSound
  <2> QED
    BY <1>5, <2>1, <2>3, <2>4, OneRun DEF CreateRuntimeRun
<1>6. ASSUME NEW r \in RunIds, NEW outcome \in {"running", "ended", "interrupted"}, UNCHANGED server,
             runs' = [runs EXCEPT ![r].status = outcome], runs[r].status # "absent",
             outcome = "running" => Bound(runs[r])
      PROVE  RunsInv'
  <2>1. PICK new : new = [runs[r] EXCEPT !.status = outcome]
    OBVIOUS
  <2>2. /\ new \in RunRecord /\ new.status = outcome /\ new.on = runs[r].on
        /\ new.version = runs[r].version /\ new.provider = runs[r].provider
        /\ new.endpoint = runs[r].endpoint /\ new.transport = runs[r].transport
        /\ new.cap = runs[r].cap /\ new.calls = runs[r].calls
    <3>1. runs[r] \in RunRecord /\ outcome \in Unsettled \cup {"absent", "ended"}
      BY <1>1, <1>6 DEF Unsettled
    <3> QED
      BY <2>1, <3>1 DEF RunRecord
  <2>3. Certified(new) => /\ Proved(new.cap, new.endpoint, new.transport)
                          /\ new.calls \subseteq {<<new.endpoint, new.transport>>}
    BY <2>2 DEF RunsInv, AdmittedOnProof, CertifiedStaysPut, Certified, Proved
  <2>4. runs' = [runs EXCEPT ![r] = new]
    BY <1>6, <1>1, <2>1
  <2>5. new.on \in Records /\ (new.status = "running" => Bound(new))
    BY <1>6, <2>2 DEF RunsInv, Bound, Certified
  <2> QED
    BY <1>6, <2>2, <2>3, <2>4, <2>5, OneRun
<1>7. ASSUME NEW r \in RunIds, Execute(r) PROVE RunsInv'
  <2>1. CASE Binds(runs[r])
    <3>1. Bound(runs[r])
      BY <1>7, <2>1 DEF Execute, Binds, Bound, Certified
    <3> QED
      BY <1>6, <1>7, <2>1, <3>1 DEF Execute
  <2>2. CASE ~Binds(runs[r])
    BY <1>6, <1>7, <2>2 DEF Execute
  <2> QED
    BY <2>1, <2>2
<1>8. ASSUME NEW r \in RunIds, CallModel(r) PROVE RunsInv'
  <2>1. PICK dial \in Reaches(runs[r]) : runs' = [runs EXCEPT ![r].calls = @ \cup {dial}]
    BY <1>8 DEF CallModel
  <2>2. /\ runs[r] \in RunRecord /\ runs[r].status = "running" /\ runs[r].version = "v11"
        /\ server.provider # "none" /\ runs[r].on \in Records /\ UNCHANGED server
        /\ Bound(runs[r]) /\ runs[r].transport \in Transports
    BY <1>1, <1>8 DEF CallModel, RunsInv, RunRecord
  <2>3. server.provider \in Providers \ {"none"} /\ server.base \in Generic \cup {DeepSeekUrl, None}
    BY <2>2 DEF ServerInv
  <2>4. dial \in Endpoints \X Transports
    <3>1. CASE server.provider = "openai"
      BY <3>1 DEF Reaches, Endpoints, Transports
    <3>2. CASE server.provider # "openai"
      <4>1. server.base \in Endpoints
        BY <2>3, <3>2 DEF ServerInv, Providers, Endpoints
      <4> QED
        BY <2>2, <3>2, <4>1 DEF Reaches
    <3> QED
      BY <3>1, <3>2
  <2>5. ASSUME Certified(runs[r])
        PROVE  /\ Proved(runs[r].cap, runs[r].endpoint, runs[r].transport)
               /\ runs[r].calls \cup {dial} \subseteq {<<runs[r].endpoint, runs[r].transport>>}
    <3>1. /\ Proved(runs[r].cap, runs[r].endpoint, runs[r].transport)
          /\ runs[r].calls \subseteq {<<runs[r].endpoint, runs[r].transport>>}
      BY <2>5 DEF RunsInv, AdmittedOnProof, CertifiedStaysPut, Proved
    <3>2. runs[r].endpoint \in Generic
      BY <2>2, <3>1 DEF Proved, RunRecord, Artifacts
    <3>3. runs[r].endpoint # Official
      BY <3>2, RunAdmissionAssumption
    <3>4. dial = <<runs[r].endpoint, runs[r].transport>>
      BY <2>2, <2>3, <2>5, <3>3 DEF Reaches, Bound
    <3> QED
      BY <3>1, <3>4
  <2>6. PICK new : new = [runs[r] EXCEPT !.calls = runs[r].calls \cup {dial}]
    OBVIOUS
  <2>7. /\ new \in RunRecord /\ new.status = "running" /\ new.on = runs[r].on
        /\ new.version = runs[r].version /\ new.provider = runs[r].provider
        /\ new.endpoint = runs[r].endpoint /\ new.transport = runs[r].transport
        /\ new.cap = runs[r].cap /\ new.calls = runs[r].calls \cup {dial}
    BY <2>2, <2>4, <2>6 DEF RunRecord
  <2>8. runs' = [runs EXCEPT ![r] = new]
    BY <1>1, <2>1, <2>6
  <2>9. Bound(new) /\ (Certified(new) => /\ Proved(new.cap, new.endpoint, new.transport)
                                         /\ new.calls \subseteq {<<new.endpoint, new.transport>>})
    BY <2>2, <2>5, <2>7 DEF Bound, Certified
  <2> QED
    BY <2>2, <2>7, <2>8, <2>9, OneRun
<1>9. ASSUME NEW r \in RunIds, EndRun(r) \/ CancelUnstarted(r) PROVE RunsInv'
  <2>1. UNCHANGED server /\ runs[r].status # "absent"
    BY <1>9 DEF EndRun, CancelUnstarted
  <2>2. \E outcome \in {"ended", "interrupted"} : runs' = [runs EXCEPT ![r].status = outcome]
    BY <1>9 DEF EndRun, CancelUnstarted
  <2> QED
    BY <1>6, <2>1, <2>2
<1>10. CASE Edit \/ CommitEdits \/ \E c \in Certifiers : CertifierStep(c)
  BY <1>2, <1>10 DEF Edit, CommitEdits, CertifierStep, Probe, Seal, OpenTemp, FillTemp, ReplaceArtifact,
            KillCertifier
<1>11. CASE ServiceStep
  <2>1. CASE CrashServer
    BY <1>4, <2>1 DEF CrashServer
  <2>2. CASE \E i \in Records, v \in {"v10", "v11"} :
               RefuseRun(i, v) \/ DieCreating(i, v) \/ \E r \in RunIds : CreateRuntimeRun(r, i, v)
    BY <1>2, <1>4, <1>5, <2>2 DEF RefuseRun, DieCreating
  <2>3. CASE \E r \in RunIds : Execute(r) \/ CallModel(r) \/ EndRun(r) \/ CancelUnstarted(r)
    BY <1>7, <1>8, <1>9, <2>3
  <2> QED
    BY <1>3, <1>11, <2>1, <2>2, <2>3 DEF ServiceStep
<1> QED
  BY <1>10, <1>11 DEF AdmissionNext

-----------------------------------------------------------------------------
(* Where the runs are placed *)

\* An investigation after a step: as before, or one that fits the runs on it.
Fits(new, i) ==
    /\ new.legacy => new.owner = None /\ new.state = "touched"
    /\ \A q \in RunIds : runs[q].status \in Unsettled /\ runs[q].on = i =>
          /\ new.state # "absent"
          /\ IF runs[q].version = "v11" THEN ~new.legacy ELSE new.owner = None
    /\ new.by = "v11" /\ new.state = "pending" => new.cut \/ \E q \in RunIds : runs[q].on = i

\* No run is placed anew and one investigation may change.
LEMMA OnePlace ==
    ASSUME RunsInv, PlacesInv, NEW i \in Records, NEW new \in Record, Fits(new, i),
           recs' = [recs EXCEPT ![i] = new],
           \A q \in RunIds : /\ runs'[q].on = runs[q].on /\ runs'[q].version = runs[q].version
                             /\ runs'[q].status \in Unsettled => runs[q].status \in Unsettled
    PROVE  PlacesInv'
<1>1. recs \in [Records -> Record]
  BY DEF PlacesInv
<1>2. /\ recs' \in [Records -> Record]
      /\ \A j \in Records : recs'[j] = IF j = i THEN new ELSE recs[j]
  BY <1>1
<1>3. \A r, q \in RunIds : runs'[r].status \in Unsettled /\ runs'[q].status \in Unsettled
                              /\ runs'[r].on = runs'[q].on => r = q
  BY DEF PlacesInv
<1>4. \A j \in Records : recs'[j].legacy => recs'[j].owner = None /\ recs'[j].state = "touched"
  BY <1>2 DEF PlacesInv, Fits
<1>5. ASSUME NEW r \in RunIds, runs'[r].status \in Unsettled
      PROVE  /\ recs'[runs'[r].on].state # "absent"
             /\ IF runs'[r].version = "v11" THEN ~recs'[runs'[r].on].legacy
                                            ELSE recs'[runs'[r].on].owner = None
  <2>0. runs[r].status \in Unsettled /\ runs[r].on \in Records
    BY <1>5 DEF RunsInv, Unsettled
  <2>1. CASE runs[r].on = i
    BY <1>2, <2>0, <2>1 DEF Fits
  <2>2. CASE runs[r].on # i
    BY <1>2, <2>0, <2>2 DEF PlacesInv
  <2> QED
    BY <2>1, <2>2
<1>6. NothingOrphaned'
  <2> SUFFICES ASSUME NEW j \in Records, recs'[j].by = "v11", recs'[j].state = "pending"
      PROVE  recs'[j].cut \/ \E r \in RunIds : runs'[r].on = j
    BY DEF NothingOrphaned
  <2>1. CASE j = i
    BY <1>2, <2>1 DEF Fits
  <2>2. CASE j # i
    BY <1>2, <2>2 DEF PlacesInv, NothingOrphaned
  <2> QED
    BY <2>1, <2>2
<1> QED
  BY <1>2, <1>3, <1>4, <1>5, <1>6 DEF PlacesInv

\* Nothing is placed and no investigation changes.
LEMMA KeptPlaces ==
    ASSUME PlacesInv, UNCHANGED recs,
           \A q \in RunIds : /\ runs'[q].on = runs[q].on /\ runs'[q].version = runs[q].version
                             /\ runs'[q].status \in Unsettled => runs[q].status \in Unsettled
    PROVE  PlacesInv'
BY DEF PlacesInv, NothingOrphaned

\* An investigation that is touched, or that a dead service left, still fits.
LEMMA TouchedFits ==
    ASSUME RunsInv, PlacesInv, NEW i \in Records
    PROVE  LET new == [recs[i] EXCEPT !.state = "touched"] IN new \in Record /\ Fits(new, i)
<1>1. recs[i] \in Record
  BY DEF PlacesInv
<1>2. PICK new : new = [recs[i] EXCEPT !.state = "touched"]
  OBVIOUS
<1>3. /\ new \in Record /\ new.state = "touched"
      /\ new.legacy = recs[i].legacy /\ new.owner = recs[i].owner
  BY <1>1, <1>2 DEF Record
<1>4. Fits(new, i)
  BY <1>3 DEF PlacesInv, Fits
<1> QED
  BY <1>2, <1>3, <1>4

\* What a new investigation holds fits: nobody is on it.
LEMMA NewFits ==
    ASSUME RunsInv, PlacesInv, NEW i \in Records, recs[i].state = "absent", NEW new \in Record,
           ~new.legacy,
           new.by = "v11" /\ new.state = "pending" => new.cut
    PROVE  Fits(new, i)
<1>1. \A q \in RunIds : runs[q].status \in Unsettled => runs[q].on # i
  BY DEF PlacesInv
<1> QED
  BY <1>1 DEF Fits

\* A request that fails, or that the service does not survive, leaves a new record.
LEMMA RefusedPlaces ==
    ASSUME RunsInv, PlacesInv, NEW i \in Records, NEW v \in {"v10", "v11"},
           RefuseRun(i, v) \/ DieCreating(i, v)
    PROVE  PlacesInv'
<1>1. CASE RefuseRun(i, v)
  <2>1. PICK p \in Placed(i, v) : recs[p.on].state = "absent" /\ recs' = Failed(p.on, p.recs)
    <3>1. CASE recs[i].state = "absent" /\ recs' = Failed(i, Arrived(i, v))
      <4>1. [on |-> i, recs |-> Arrived(i, v)] \in Placed(i, v)
        BY <3>1 DEF Placed, NeedsCopy
      <4> QED
        BY <3>1, <4>1
    <3>2. CASE NeedsCopy(i, v) /\ \E p \in Placed(i, v) : recs' = Failed(p.on, p.recs)
      <4>1. \A p \in Placed(i, v) : recs[p.on].state = "absent"
        BY <3>2 DEF Placed
      <4> QED
        BY <3>2, <4>1
    <3> QED
      BY <1>1, <3>1, <3>2 DEF RefuseRun
  <2>2. p.on \in Records
    BY PlacedSomewhere
  <2>3. PICK new \in Record :
          /\ p.recs = [recs EXCEPT ![p.on] = new]
          /\ new.state # "absent"
          /\ \/ new = recs[p.on]
             \/ recs[p.on].state = "absent" /\ ~new.legacy /\ new.owner = None
                /\ new.by = v /\ new.state = "pending"
          /\ v = "v11" => ~new.legacy
    BY PlacedSound, ZenonT(30)
  <2>4. ~new.legacy
    BY <2>1, <2>3
  <2>5. PICK saved : saved = IF new.by = "v11" THEN [new EXCEPT !.state = "touched"] ELSE new
    OBVIOUS
  <2>6. saved \in Record /\ ~saved.legacy /\ (saved.by = "v11" => saved.state = "touched")
    BY <2>3, <2>4, <2>5 DEF Record
  <2>7. recs \in [Records -> Record]
    BY DEF PlacesInv
  <2>8. recs' = [recs EXCEPT ![p.on] = saved]
    BY <2>1, <2>2, <2>3, <2>5, <2>7 DEF Failed
  <2>9. UNCHANGED runs
    BY <1>1 DEF RefuseRun
  <2>10. Fits(saved, p.on)
    BY <2>1, <2>2, <2>6, NewFits
  <2> QED
    BY <2>2, <2>6, <2>8, <2>9, <2>10, OnePlace
<1>2. CASE DieCreating(i, v)
  <2>1. PICK p \in Placed(i, v) : recs[p.on].state = "absent" /\ recs' = [p.recs EXCEPT ![p.on].cut = TRUE]
    BY <1>2 DEF DieCreating
  <2>2. p.on \in Records
    BY PlacedSomewhere
  <2>3. PICK new \in Record :
          /\ p.recs = [recs EXCEPT ![p.on] = new]
          /\ new.state # "absent"
          /\ \/ new = recs[p.on]
             \/ recs[p.on].state = "absent" /\ ~new.legacy /\ new.owner = None
                /\ new.by = v /\ new.state = "pending"
          /\ v = "v11" => ~new.legacy
    BY PlacedSound, ZenonT(30)
  <2>4. ~new.legacy
    BY <2>1, <2>3
  <2>5. PICK saved : saved = [new EXCEPT !.cut = TRUE]
    OBVIOUS
  <2>6. saved \in Record /\ ~saved.legacy /\ saved.cut
    BY <2>3, <2>4, <2>5 DEF Record
  <2>7. recs \in [Records -> Record]
    BY DEF PlacesInv
  <2>8. recs' = [recs EXCEPT ![p.on] = saved]
    BY <2>1, <2>2, <2>3, <2>5, <2>7
  <2>9. \A q \in RunIds : /\ runs'[q].on = runs[q].on /\ runs'[q].version = runs[q].version
                          /\ runs'[q].status \in Unsettled <=> runs[q].status \in Unsettled
    BY <1>2, StrandedRuns DEF DieCreating
  <2>10. Fits(saved, p.on)
    BY <2>1, <2>2, <2>6, NewFits
  <2> QED
    BY <2>2, <2>6, <2>8, <2>9, <2>10, OnePlace
<1> QED
  BY <1>1, <1>2

\* A run is created only where no other is unsettled, on an investigation of its kind.
LEMMA CreatedPlaces ==
    ASSUME RunsInv, PlacesInv, NEW r \in RunIds, NEW i \in Records, NEW v \in {"v10", "v11"},
           CreateRuntimeRun(r, i, v)
    PROVE  PlacesInv'
<1>1. PICK id \in Identities(i, v), p \in Placed(i, v) :
        /\ ~Occupied(p.on) /\ recs' = p.recs
        /\ runs' = [runs EXCEPT ![r] = Contract(i, v, p.on, id)]
  BY DEF CreateRuntimeRun
<1>2. p.on \in Records
  BY PlacedSomewhere
<1>3. PICK new \in Record :
        /\ p.recs = [recs EXCEPT ![p.on] = new] /\ new.state # "absent"
        /\ new = recs[p.on] \/ (~new.legacy /\ new.owner = None)
        /\ v = "v11" => ~new.legacy
  <2>1. \E new \in Record :
          /\ p.recs = [recs EXCEPT ![p.on] = new]
          /\ new.state # "absent"
          /\ \/ new = recs[p.on]
             \/ recs[p.on].state = "absent" /\ ~new.legacy /\ new.owner = None
                /\ new.by = v /\ new.state = "pending"
          /\ v = "v11" => ~new.legacy
    BY PlacedSound, ZenonT(30)
  <2> QED
    BY <2>1, SMTT(30)
<1>4. PICK run : run = Contract(i, v, p.on, id)
  OBVIOUS
<1>5. run.on = p.on /\ run.version = v
  BY <1>4 DEF Contract, NoRunYet
<1>6. /\ runs \in [RunIds -> RunRecord] /\ recs \in [Records -> Record]
      /\ runs[r].on = None /\ None \notin Records
  BY RunAdmissionAssumption DEF CreateRuntimeRun, RunsInv, PlacesInv
<1>7. /\ \A q \in RunIds : runs'[q] = IF q = r THEN run ELSE runs[q]
      /\ recs' \in [Records -> Record]
      /\ \A j \in Records : recs'[j] = IF j = p.on THEN new ELSE recs[j]
  BY <1>1, <1>2, <1>3, <1>4, <1>6
<1>8. \A q \in RunIds : runs[q].status \in Unsettled => runs[q].on # p.on /\ runs[q].on \in Records
  BY <1>1 DEF Occupied, RunsInv, Unsettled
<1>9. v = "v10" => new.owner = None
  <2> SUFFICES ASSUME v = "v10" PROVE new.owner = None
    OBVIOUS
  <2>1. recs[i].owner = None
    BY <1>1 DEF Identities
  <2>2. p.on = i
    BY DEF Placed, NeedsCopy
  <2> QED
    BY <1>3, <2>1, <2>2
<1>10. \A q, s \in RunIds : runs'[q].status \in Unsettled /\ runs'[s].status \in Unsettled
                               /\ runs'[q].on = runs'[s].on => q = s
  BY <1>5, <1>7, <1>8 DEF PlacesInv
<1>11. \A j \in Records : recs'[j].legacy => recs'[j].owner = None /\ recs'[j].state = "touched"
  BY <1>2, <1>3, <1>7 DEF PlacesInv
<1>12. \A q \in RunIds : runs'[q].status \in Unsettled =>
         /\ recs'[runs'[q].on].state # "absent"
         /\ IF runs'[q].version = "v11" THEN ~recs'[runs'[q].on].legacy
                                        ELSE recs'[runs'[q].on].owner = None
  <2> SUFFICES ASSUME NEW q \in RunIds, runs'[q].status \in Unsettled
      PROVE  /\ recs'[runs'[q].on].state # "absent"
             /\ IF runs'[q].version = "v11" THEN ~recs'[runs'[q].on].legacy
                                            ELSE recs'[runs'[q].on].owner = None
    OBVIOUS
  <2>1. CASE q = r
    BY <1>2, <1>3, <1>5, <1>7, <1>9, <2>1
  <2>2. CASE q # r
    <3>1. runs'[q] = runs[q] /\ runs[q].on # p.on /\ runs[q].on \in Records
      BY <1>7, <1>8, <2>2
    <3>2. recs'[runs[q].on] = recs[runs[q].on]
      BY <1>7, <3>1
    <3> QED
      BY <3>1, <3>2 DEF PlacesInv
  <2> QED
    BY <2>1, <2>2
<1>13. NothingOrphaned'
  <2> SUFFICES ASSUME NEW j \in Records, recs'[j].by = "v11", recs'[j].state = "pending"
      PROVE  recs'[j].cut \/ \E q \in RunIds : runs'[q].on = j
    BY DEF NothingOrphaned
  <2>1. CASE j = p.on
    BY <1>5, <1>7, <2>1
  <2>2. CASE j # p.on
    <3>1. recs'[j] = recs[j]
      BY <1>7, <2>2
    <3>2. recs[j].cut \/ \E q \in RunIds : runs[q].on = j
      BY <3>1 DEF PlacesInv, NothingOrphaned
    <3> QED
      BY <1>6, <1>7, <3>1, <3>2
  <2> QED
    BY <2>1, <2>2
<1> QED
  BY <1>7, <1>10, <1>11, <1>12, <1>13 DEF PlacesInv

\* A run that starts takes its investigation over, or leaves legacy results there.
LEMMA ExecutedPlaces ==
    ASSUME RunsInv, PlacesInv, NEW r \in RunIds, Execute(r)
    PROVE  PlacesInv'
<1> DEFINE i == runs[r].on
<1>1. /\ runs \in [RunIds -> RunRecord] /\ recs \in [Records -> Record]
      /\ runs[r].status \in Unsettled /\ i \in Records /\ recs[i] \in Record
      /\ runs[r].version \in {"v10", "v11"}
  BY DEF RunsInv, PlacesInv, Execute, Unsettled, RunRecord
<1>2. /\ \A q \in RunIds : runs[q].status \in Unsettled /\ runs[q].on = i => q = r
      /\ IF runs[r].version = "v11" THEN ~recs[i].legacy ELSE recs[i].owner = None
  BY <1>1 DEF PlacesInv
<1>3. \E outcome \in {"running", "ended"} : runs' = [runs EXCEPT ![r].status = outcome]
  BY DEF Execute
<1>4. \A q \in RunIds : /\ runs'[q].on = runs[q].on /\ runs'[q].version = runs[q].version
                        /\ runs'[q].status \in Unsettled => runs[q].status \in Unsettled
  BY <1>1, <1>3 DEF RunRecord
<1> HIDE DEF i
<1>5. CASE recs' = [recs EXCEPT ![i].owner = r, ![i].state = "touched"] /\ runs[r].version = "v11"
  <2>1. PICK new : new = [recs[i] EXCEPT !.owner = r, !.state = "touched"]
    OBVIOUS
  <2>2. new \in Record /\ ~new.legacy /\ new.state = "touched"
    BY <1>1, <1>2, <1>5, <2>1 DEF Record
  <2>3. recs' = [recs EXCEPT ![i] = new]
    BY <1>1, <1>5, <2>1
  <2>4. Fits(new, i)
    BY <1>2, <1>5, <2>2 DEF Fits
  <2> QED
    BY <1>1, <1>4, <2>2, <2>3, <2>4, OnePlace
<1>6. CASE recs' = [recs EXCEPT ![i].legacy = TRUE, ![i].state = "touched"] /\ runs[r].version = "v10"
  <2>1. PICK new : new = [recs[i] EXCEPT !.legacy = TRUE, !.state = "touched"]
    OBVIOUS
  <2>2. new \in Record /\ new.owner = None /\ new.state = "touched"
    BY <1>1, <1>2, <1>6, <2>1 DEF Record
  <2>3. recs' = [recs EXCEPT ![i] = new]
    BY <1>1, <1>6, <2>1
  <2>4. Fits(new, i)
    BY <1>2, <1>6, <2>2 DEF Fits
  <2> QED
    BY <1>1, <1>4, <2>2, <2>3, <2>4, OnePlace
<1>7. CASE recs' = [recs EXCEPT ![i].state = "touched"]
  BY <1>1, <1>4, <1>7, TouchedFits, OnePlace
<1>8. CASE recs' = recs
  BY <1>4, <1>8, KeptPlaces
<1>9. [recs EXCEPT ![i].state = recs[i].state] = recs
  BY <1>1 DEF Record
<1> QED
  BY <1>1, <1>5, <1>6, <1>7, <1>8, <1>9 DEF Execute, i

\* Every step leaves each unsettled run alone on an investigation of its kind.
LEMMA PlacesStep ==
    ASSUME FilesInv, ServerInv, RunsInv, PlacesInv, AdmissionNext
    PROVE  PlacesInv'
<1>1. runs \in [RunIds -> RunRecord] /\ recs \in [Records -> Record]
  BY DEF RunsInv, PlacesInv
<1>2. CASE UNCHANGED runs /\ UNCHANGED recs
  BY <1>2, KeptPlaces
<1>3. CASE CrashServer
  BY <1>3, StrandedRuns, KeptPlaces DEF CrashServer
<1>4. ASSUME NEW r \in RunIds, CallModel(r) \/ EndRun(r) \/ CancelUnstarted(r) PROVE PlacesInv'
  <2>1. runs[r] \in RunRecord /\ runs[r].status \in Unsettled /\ runs[r].on \in Records
    BY <1>1, <1>4 DEF CallModel, EndRun, CancelUnstarted, RunsInv, Unsettled
  <2>2. \A q \in RunIds : /\ runs'[q].on = runs[q].on /\ runs'[q].version = runs[q].version
                          /\ runs'[q].status \in Unsettled => runs[q].status \in Unsettled
    <3>1. CASE CallModel(r)
      <4>1. PICK dial \in Reaches(runs[r]) : runs' = [runs EXCEPT ![r].calls = @ \cup {dial}]
        BY <3>1 DEF CallModel
      <4> QED
        BY <1>1, <2>1, <4>1 DEF RunRecord
    <3>2. CASE EndRun(r) \/ CancelUnstarted(r)
      <4>1. PICK outcome \in {"ended", "interrupted"} : runs' = [runs EXCEPT ![r].status = outcome]
        BY <3>2 DEF EndRun, CancelUnstarted
      <4> QED
        BY <1>1, <2>1, <4>1 DEF RunRecord
    <3> QED
      BY <1>4, <3>1, <3>2
  <2>3. recs' = recs \/ recs' = [recs EXCEPT ![runs[r].on].state = "touched"]
    BY <1>4 DEF CallModel, EndRun, CancelUnstarted
  <2>4. CASE recs' = recs
    BY <2>2, <2>4, KeptPlaces
  <2>5. CASE recs' = [recs EXCEPT ![runs[r].on].state = "touched"]
    BY <2>1, <2>2, <2>5, TouchedFits, OnePlace
  <2> QED
    BY <2>3, <2>4, <2>5
<1>5. CASE Edit \/ CommitEdits \/ \E c \in Certifiers : CertifierStep(c)
  BY <1>2, <1>5 DEF Edit, CommitEdits, CertifierStep, Probe, Seal, OpenTemp, FillTemp, ReplaceArtifact,
            KillCertifier
<1>6. CASE ServiceStep
  <2>1. CASE \E provider \in Providers, e \in Generic : StartServer(provider, e)
    BY <1>2, <2>1 DEF StartServer
  <2>2. CASE \E i \in Records, v \in {"v10", "v11"} :
               RefuseRun(i, v) \/ DieCreating(i, v) \/ \E r \in RunIds : CreateRuntimeRun(r, i, v)
    BY <2>2, RefusedPlaces, CreatedPlaces
  <2>3. CASE \E r \in RunIds : Execute(r) \/ CallModel(r) \/ EndRun(r) \/ CancelUnstarted(r)
    BY <1>4, <2>3, ExecutedPlaces
  <2> QED
    BY <1>3, <1>6, <2>1, <2>2, <2>3 DEF ServiceStep
<1> QED
  BY <1>5, <1>6 DEF AdmissionNext

-----------------------------------------------------------------------------
(* The theorems *)

\* Nothing was certified and no run exists; what is there is of V10.
LEMMA InitAdmission == AdmissionInit => AdmissionInv
<1> SUFFICES ASSUME AdmissionInit PROVE AdmissionInv
  OBVIOUS
<1>1. /\ tree = [text |-> 0, head |-> 0, build |-> 0]
      /\ server = [up |-> FALSE, provider |-> "none", base |-> None, build |-> 0]
      /\ certifier = [c \in Certifiers |-> NotCalled]
      /\ temp = [e \in Generic |-> None] /\ slot = [e \in Generic |-> None]
      /\ runs = [r \in RunIds |-> NoRunYet]
      /\ recs \in [Records -> {NoRecord, History}]
  BY DEF AdmissionInit, AdmissionAt
<1>2. 0 \in 0..MaxEdits
  BY RunAdmissionAssumption
<1>3. FilesInv
  <2>1. NotCalled \in Certifying /\ NotCalled.step = "idle" /\ NotCalled.art = None
    BY <1>2 DEF NotCalled, Certifying
  <2>2. FilesTyped
    BY <1>1, <1>2, <2>1 DEF FilesTyped, Files
  <2>3. FilesSound
    BY <1>1, <2>1 DEF FilesSound
  <2> QED
    BY <2>2, <2>3 DEF FilesInv
<1>4. ServerInv
  BY <1>1, <1>2 DEF ServerInv, Providers
<1>5. /\ NoRunYet \in RunRecord /\ NoRunYet.status = "absent" /\ NoRunYet.on = None
      /\ NoRunYet.version = "v10" /\ NoRunYet.calls = {}
  BY DEF NoRunYet, RunRecord, Providers, Transports
<1>6. RunsInv
  BY <1>1, <1>5 DEF RunsInv, AdmittedOnProof, CertifiedStaysPut, Certified
<1>7. PlacesInv
  <2>1. \A old \in {NoRecord, History} :
          /\ old \in Record /\ old.owner = None /\ old.by = "v10"
          /\ old.legacy => old.state = "touched"
    BY DEF NoRecord, History, Blank, Record
  <2>2. recs \in [Records -> Record] /\ \A i \in Records : recs[i] \in {NoRecord, History}
    BY <1>1, <2>1
  <2>3. \A r \in RunIds : runs[r].status \notin Unsettled
    BY <1>1, <1>5 DEF Unsettled
  <2> QED
    BY <2>1, <2>2, <2>3 DEF PlacesInv, NothingOrphaned
<1> QED
  BY <1>3, <1>4, <1>6, <1>7 DEF AdmissionInv

\* Only the commands and edits touch the files.
LEMMA FilesStep == ASSUME FilesInv, AdmissionNext PROVE FilesInv'
<1>1. CASE UNCHANGED <<tree, certifier, temp, slot>>
  BY <1>1 DEF FilesInv, FilesTyped, FilesSound, Sound, Transport
<1>2. ServiceStep => UNCHANGED <<tree, certifier, temp, slot>>
  BY DEF ServiceStep, StartServer, CrashServer, RefuseRun, DieCreating, CreateRuntimeRun,
         Execute, CallModel, EndRun, CancelUnstarted
<1> QED
  BY <1>1, <1>2, CertifierKeepsFiles, EditsKeepFiles DEF AdmissionNext

\* The invariant is inductive.
LEMMA NextAdmission == AdmissionInv /\ [AdmissionNext]_admissionVars => AdmissionInv'
<1> SUFFICES ASSUME AdmissionInv, [AdmissionNext]_admissionVars PROVE AdmissionInv'
  OBVIOUS
<1>1. CASE AdmissionNext
  BY <1>1, FilesStep, ServerStep, RunsStep, PlacesStep DEF AdmissionInv
<1>2. CASE UNCHANGED admissionVars
  <2>1. FilesInv'
    BY <1>2 DEF admissionVars, AdmissionInv, FilesInv, FilesTyped, FilesSound, Sound, Transport
  <2>2. ServerInv'
    BY <1>2 DEF admissionVars, AdmissionInv, ServerInv
  <2>3. RunsInv'
    BY <1>2 DEF admissionVars, AdmissionInv, RunsInv, AdmittedOnProof, CertifiedStaysPut, Certified,
               Supports, Bound
  <2>4. PlacesInv'
    BY <1>2, KeptPlaces DEF admissionVars, AdmissionInv
  <2> QED
    BY <2>1, <2>2, <2>3, <2>4 DEF AdmissionInv
<1> QED
  BY <1>1, <1>2

\* What is frozen into a run was proved by one certification that passed as a whole,
\* results of V10 and V11 runs never meet in one investigation, and nothing made for
\* a V11 run is left pending without one (_v11_model_identity, create_runtime_run,
\* _v11_investigation_id, write_capability_artifact): for any number of endpoints,
\* concurrent certifications, investigations and runs.
THEOREM AdmissionHolds == AdmissionSpec => []AdmissionConsistent
<1>1. AdmissionInv => AdmissionConsistent
  <2> SUFFICES ASSUME AdmissionInv PROVE AdmissionConsistent
    OBVIOUS
  <2>1. AdmissionTypeOK
    BY DEF AdmissionInv, FilesInv, FilesTyped, ServerInv, RunsInv, PlacesInv, AdmissionTypeOK
  <2>2. AdmittedOnProof
    BY DEF AdmissionInv, RunsInv
  <2>3. LegacyUntouched
    <3>1. \A i \in Records : recs[i].legacy => recs[i].owner = None
      BY DEF AdmissionInv, PlacesInv
    <3>2. \A r \in RunIds : runs[r].version = "v10" /\ runs[r].status \in Unsettled
                              => recs[runs[r].on].owner = None
      BY DEF AdmissionInv, PlacesInv
    <3> QED
      BY <3>1, <3>2 DEF LegacyUntouched
  <2>4. NothingOrphaned
    BY DEF AdmissionInv, PlacesInv
  <2> QED
    BY <2>1, <2>2, <2>3, <2>4 DEF AdmissionConsistent
<1> QED
  BY <1>1, InitAdmission, NextAdmission, PTL DEF AdmissionSpec

\* A certified run never calls a model at another endpoint or over another transport
\* than its contract names, whatever the service is restarted with (clone_for_run,
\* _validate_execution_contract, bind_phase, _V11ModelProvider).
THEOREM CertifiedRunsStay == AdmissionSpec => []CertifiedStaysPut
<1>1. AdmissionInv => CertifiedStaysPut
  BY DEF AdmissionInv, RunsInv
<1> QED
  BY <1>1, InitAdmission, NextAdmission, PTL DEF AdmissionSpec
=============================================================================

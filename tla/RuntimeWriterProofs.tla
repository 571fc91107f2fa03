------------------------- MODULE RuntimeWriterProofs -------------------------
(***************************************************************************)
(* Type correctness of the Runtime writer, at most one store call at a     *)
(* time, nothing behind the sentinel, and the promise of OrderedWrites,    *)
(* for any number of clients and any queue size, with loops that close and *)
(* time limits that expire.                                                *)
(***************************************************************************)
EXTENDS RuntimeWriter, FiniteSetTheorems, SequenceTheorems, TLAPS

-----------------------------------------------------------------------------
(* Type correctness.  A busy worker holds a command, never the sentinel,   *)
(* a client that is putting or awaiting has numbered its submission, and   *)
(* shutdown waits for a task that exists.                                  *)

BusyHasCommand ==
    \A w \in DOMAIN workers : workers[w].st = "busy" => workers[w].cmd \in Commands

CommandNumbered ==
    \A c \in Clients : pc[c] \in {"putting", "awaiting"} => sent[c] >= 1

JoinsTask == stop \in {"put", "join"} => consumer # 0

TypeInv == TypeOK /\ BusyHasCommand /\ CommandNumbered /\ JoinsTask

\* Appending keeps the element type and adds one element at the end.
LEMMA AppendType ==
  ASSUME NEW S, NEW s \in Seq(S), NEW x \in S
  PROVE  /\ Append(s, x) \in Seq(S)
         /\ Len(Append(s, x)) = Len(s) + 1
  OBVIOUS

\* The type invariant with its two additions holds initially.
LEMMA TypeInit == Init => TypeInv
<1> SUFFICES ASSUME Init PROVE TypeInv
  OBVIOUS
<1>1. /\ <<>> \in Seq(Commands \cup {Stop})
      /\ <<>> \in Seq(Commands)
      /\ <<>> \in Seq([st : {"waiting", "busy", "returned", "failed", "cancelled"},
                       cmd : Commands \cup {Stop}])
      /\ Len(<<>>) = 0 /\ DOMAIN <<>> = {}
  OBVIOUS
<1>2. stale \in BOOLEAN /\ accepting \in BOOLEAN
  BY DEF Init
<1>3. /\ queue \in Seq(Commands \cup {Stop})
      /\ accepted \in Seq(Commands) /\ written \in Seq(Commands)
      /\ detached \subseteq Commands /\ answered \subseteq Commands
  BY <1>1 DEF Init
<1>4. /\ workers \in Seq([st : {"waiting", "busy", "returned", "failed", "cancelled"},
                          cmd : Commands \cup {Stop}])
      /\ consumer \in 0..Len(workers)
      /\ BusyHasCommand
  BY <1>1 DEF Init, BusyHasCommand
<1>5. /\ pc \in [Clients -> {"idle", "ready", "putting", "awaiting"}]
      /\ sent \in [Clients -> 0..MaxSubmits]
      /\ CommandNumbered
  BY WriterAssumption DEF Init, WriterAssumption, CommandNumbered
<1>6. /\ lock \in Clients \cup {Stopper, NoOne}
      /\ stop \in {"up", "manager", "enter", "put", "join", "closed", "raised"}
      /\ call \in {"coordinator", "container"}
  BY DEF Init
<1> QED
  BY <1>2, <1>3, <1>4, <1>5, <1>6 DEF Init, TypeInv, TypeOK, JoinsTask

\* start() creates at most one task, which is idle.
LEMMA TypeStart ==
  ASSUME TypeInv, NEW c \in Clients, Start(c)
  PROVE  TypeInv'
<1> USE DEF TypeInv, TypeOK, BusyHasCommand, CommandNumbered, JoinsTask, history, Idle
<1>1. pc' \in [Clients -> {"idle", "ready", "putting", "awaiting"}]
  BY DEF Start
<1>2. \A d \in Clients : pc'[d] \in {"putting", "awaiting"} => sent'[d] >= 1
  BY DEF Start
<1>3. /\ workers' \in Seq([st : {"waiting", "busy", "returned", "failed", "cancelled"},
                           cmd : Commands \cup {Stop}])
      /\ consumer' \in 0..Len(workers')
      /\ accepting' \in BOOLEAN
      /\ stale' \in BOOLEAN
      /\ \A w \in DOMAIN workers' : workers'[w].st = "busy" => workers'[w].cmd \in Commands
  <2>1. CASE NewWorker
    <3>1. stale' \in BOOLEAN /\ accepting' \in BOOLEAN
      BY <2>1 DEF Start, NewWorker
    <3>2. /\ workers' = Append(workers, [st |-> "waiting", cmd |-> Stop])
          /\ consumer' = Len(workers) + 1
      BY <2>1 DEF NewWorker
    <3>3. [st |-> "waiting", cmd |-> Stop] \in
             [st : {"waiting", "busy", "returned", "failed", "cancelled"},
              cmd : Commands \cup {Stop}]
      OBVIOUS
    <3>4. /\ workers' \in Seq([st : {"waiting", "busy", "returned", "failed", "cancelled"},
                               cmd : Commands \cup {Stop}])
          /\ Len(workers') = Len(workers) + 1
      BY <3>2, <3>3
    <3>5. \A w \in DOMAIN workers' : workers'[w].st = "busy" => workers'[w].cmd \in Commands
      BY <3>2, <3>4
    <3> QED
      BY <3>1, <3>2, <3>4, <3>5
  <2>2. CASE UNCHANGED <<accepting, workers>>
    BY <2>2 DEF Start, NewWorker
  <2> QED
    BY <2>1, <2>2 DEF Start
<1> QED
  BY <1>1, <1>2, <1>3 DEF Start

\* Submitting puts a numbered command of the client into the queue.
LEMMA TypeSubmit ==
  ASSUME TypeInv, NEW c \in Clients,
         Submit(c) \/ PutDone(c) \/ CancelClient(c)
  PROVE  TypeInv'
<1> USE WriterAssumption
    DEF TypeInv, TypeOK, BusyHasCommand, CommandNumbered, JoinsTask, history, taskVars,
        WriterAssumption
<1>1. CASE Submit(c)
  <2>1. <<c, sent[c] + 1>> \in Commands
    BY <1>1 DEF Submit, Commands
  <2>2. /\ sent' = [sent EXCEPT ![c] = @ + 1]
        /\ sent[c] < MaxSubmits
        /\ \/ pc' = [pc EXCEPT ![c] = "idle"] /\ UNCHANGED <<queue, lock, accepted>>
           \/ Enqueue(c, <<c, sent[c] + 1>>) /\ UNCHANGED lock
           \/ /\ lock' = c /\ pc' = [pc EXCEPT ![c] = "putting"]
              /\ UNCHANGED <<queue, accepted>>
    BY <1>1 DEF Submit
  <2>3. /\ UNCHANGED <<stale, accepting>>
        /\ UNCHANGED <<workers, consumer, detached, stop, call, written, answered>>
    BY <1>1 DEF Submit
  <2>4. /\ sent' \in [Clients -> 0..MaxSubmits]
        /\ sent'[c] >= 1
        /\ \A d \in Clients \ {c} : sent'[d] = sent[d]
    BY <2>2
  <2>5. /\ queue' \in Seq(Commands \cup {Stop})
        /\ accepted' \in Seq(Commands)
        /\ lock' \in Clients \cup {Stopper, NoOne}
        /\ pc' \in [Clients -> {"idle", "ready", "putting", "awaiting"}]
        /\ \A d \in Clients \ {c} : pc'[d] = pc[d]
    <3>1. CASE pc' = [pc EXCEPT ![c] = "idle"] /\ UNCHANGED <<queue, lock, accepted>>
      BY <3>1
    <3>2. CASE Enqueue(c, <<c, sent[c] + 1>>) /\ UNCHANGED lock
      <4> DEFINE k == <<c, sent[c] + 1>>
      <4>1. /\ queue' = Append(queue, k) /\ accepted' = Append(accepted, k)
            /\ pc' = [pc EXCEPT ![c] = "awaiting"]
        BY <3>2 DEF Enqueue
      <4>2. k \in Commands
        BY <2>1
      <4> HIDE DEF k
      <4>3. queue' \in Seq(Commands \cup {Stop}) /\ accepted' \in Seq(Commands)
        BY <4>1, <4>2
      <4> QED
        BY <3>2, <4>1, <4>3
    <3>3. CASE /\ lock' = c /\ pc' = [pc EXCEPT ![c] = "putting"]
               /\ UNCHANGED <<queue, accepted>>
      BY <3>3
    <3> QED
      BY <2>2, <3>1, <3>2, <3>3
  <2>6. CommandNumbered'
    BY <2>4, <2>5
  <2> QED
    BY <2>3, <2>4, <2>5, <2>6
<1>2. CASE PutDone(c)
  <2>1. Command(c) \in Commands
    BY <1>2 DEF PutDone, Command, Commands
  <2> QED
    BY <1>2, <2>1 DEF PutDone, Enqueue
<1>3. CASE CancelClient(c)
  BY <1>3 DEF CancelClient
<1> QED
  BY <1>1, <1>2, <1>3

\* The consumer takes the sentinel or a command and finishes a command.
LEMMA TypeWorker ==
  ASSUME TypeInv, NEW w \in DOMAIN workers,
         Get(w) \/ GetStale(w) \/ Finish(w)
  PROVE  TypeInv'
<1> USE DEF TypeInv, TypeOK, BusyHasCommand, CommandNumbered, JoinsTask, history, Ended, Idle
<1>1. CASE Get(w)
  BY <1>1 DEF Get, TakeItem, Taken
<1>2. CASE GetStale(w)
  BY <1>2 DEF GetStale
<1>3. CASE Finish(w)
  BY <1>3 DEF Finish, StoreCallEnds
<1> QED
  BY <1>1, <1>2, <1>3

\* Threads, the loop and the container's shutdown.
LEMMA TypeOthers ==
  ASSUME TypeInv,
         \/ \E k \in detached : ThreadEnds(k)
         \/ LoopCloses \/ BeginShutdown \/ RunsEnded
         \/ ShutdownEnter \/ ShutdownPut \/ ShutdownJoin \/ TimeLimitExpires
  PROVE  TypeInv'
<1> USE DEF TypeInv, TypeOK, BusyHasCommand, CommandNumbered, JoinsTask, history, taskVars, Ended
<1>1. CASE \E k \in detached : ThreadEnds(k)
  <2> PICK k \in detached : ThreadEnds(k)
    BY <1>1
  <2>1. written' \in Seq(Commands)
    BY DEF ThreadEnds
  <2>2. detached' \subseteq Commands
    BY DEF ThreadEnds
  <2> QED
    BY <2>1, <2>2 DEF ThreadEnds
<1>2. CASE LoopCloses
  <2>1. /\ consumer \in DOMAIN workers
        /\ workers' = [workers EXCEPT ![consumer] = Ended("cancelled")]
    BY <1>2 DEF LoopCloses
  <2>2. /\ workers' \in Seq([st : {"waiting", "busy", "returned", "failed", "cancelled"},
                             cmd : Commands \cup {Stop}])
        /\ Len(workers') = Len(workers)
        /\ BusyHasCommand'
    BY <2>1
  <2>3. written' \in Seq(Commands)
    <3>1. CASE written' = written
      BY <3>1
    <3>2. CASE /\ workers[consumer].st = "busy"
               /\ written' = Append(written, workers[consumer].cmd)
      BY <2>1, <3>2
    <3> QED
      BY <1>2, <3>1, <3>2 DEF LoopCloses
  <2>4. stale' \in BOOLEAN /\ UNCHANGED accepting
    BY <1>2 DEF LoopCloses
  <2>5. /\ pc' = [c \in Clients |-> "idle"] /\ lock' = NoOne
        /\ UNCHANGED <<queue, consumer, detached, sent, stop, call, accepted, answered>>
    BY <1>2 DEF LoopCloses
  <2> QED
    BY <2>2, <2>3, <2>4, <2>5
<1>3. CASE BeginShutdown \/ RunsEnded
  BY <1>3 DEF BeginShutdown, RunsEnded
<1>4. CASE ShutdownEnter
  <2>1. stale' \in BOOLEAN /\ accepting' \in BOOLEAN
    BY <1>4 DEF ShutdownEnter
  <2>2. /\ queue' \in {queue, Append(queue, Stop)}
        /\ lock' \in {lock, Stopper}
    BY <1>4 DEF ShutdownEnter
  <2>3. /\ stop' \in {"enter", "put", "join", "closed"}
        /\ call' \in {call, "container"}
    BY <1>4 DEF ShutdownEnter, Returned
  <2>4. UNCHANGED <<workers, consumer, detached, pc, sent, accepted, written, answered>>
    BY <1>4 DEF ShutdownEnter
  <2>5. queue' \in Seq(Commands \cup {Stop}) /\ lock' \in Clients \cup {Stopper, NoOne}
    <3>1. Append(queue, Stop) \in Seq(Commands \cup {Stop})
      BY AppendType
    <3> QED
      BY <2>2, <3>1
  <2>6. /\ stop' \in {"up", "manager", "enter", "put", "join", "closed", "raised"}
        /\ call' \in {"coordinator", "container"}
    BY <2>3
  <2>7. BusyHasCommand' /\ CommandNumbered'
    BY <2>4
  <2>8. JoinsTask'
    BY <1>4 DEF ShutdownEnter, Returned
  <2> QED
    BY <2>1, <2>4, <2>5, <2>6, <2>7, <2>8
<1>5. CASE ShutdownPut
  BY <1>5 DEF ShutdownPut
<1>6. CASE ShutdownJoin
  <2>1. /\ consumer' \in {0, consumer}
        /\ stop' \in {"enter", "closed", "raised"}
        /\ call' \in {call, "container"}
    BY <1>6 DEF ShutdownJoin, Returned, Raised
  <2>2. UNCHANGED <<queue, stale, lock, accepting, workers, detached, pc, sent,
                    accepted, written, answered>>
    BY <1>6 DEF ShutdownJoin
  <2>3. BusyHasCommand' /\ CommandNumbered' /\ JoinsTask'
    BY <2>1, <2>2
  <2>4. consumer' \in 0..Len(workers')
    BY <2>1, <2>2
  <2>5. /\ stop' \in {"up", "manager", "enter", "put", "join", "closed", "raised"}
        /\ call' \in {"coordinator", "container"}
    BY <2>1
  <2> QED
    BY <2>2, <2>3, <2>4, <2>5
<1>7. CASE TimeLimitExpires
  <2>1. /\ stop' = "enter" /\ call' = "container"
        /\ lock' \in {NoOne, lock}
        /\ UNCHANGED <<queue, stale, accepting, consumer, pc, sent>>
        /\ UNCHANGED <<accepted, written, answered>>
    BY <1>7 DEF TimeLimitExpires
  <2>2. \/ stop = "join" /\ Live(consumer) /\ CancelWorker(consumer)
        \/ UNCHANGED <<workers, detached>>
    BY <1>7 DEF TimeLimitExpires
  <2>3. /\ workers' \in Seq([st : {"waiting", "busy", "returned", "failed", "cancelled"},
                             cmd : Commands \cup {Stop}])
        /\ Len(workers') = Len(workers)
        /\ detached' \subseteq Commands
        /\ BusyHasCommand'
    <3>1. CASE stop = "join" /\ Live(consumer) /\ CancelWorker(consumer)
      <4>1. workers' = [workers EXCEPT ![consumer] = Ended("cancelled")]
        BY <3>1 DEF CancelWorker
      <4>2. \/ detached' = detached
            \/ /\ workers[consumer].st = "busy"
               /\ detached' = detached \cup {workers[consumer].cmd}
        BY <3>1 DEF CancelWorker
      <4>3. consumer \in DOMAIN workers
        <5>1. consumer \in 1..Len(workers)
          BY <3>1
        <5> QED
          BY <5>1
      <4>4. detached' \subseteq Commands
        <5>1. workers[consumer].st = "busy" => workers[consumer].cmd \in Commands
          BY <4>3
        <5> QED
          BY <4>2, <5>1
      <4>5. /\ workers' \in Seq([st : {"waiting", "busy", "returned", "failed", "cancelled"},
                                 cmd : Commands \cup {Stop}])
            /\ Len(workers') = Len(workers)
            /\ BusyHasCommand'
        BY <4>1, <4>3
      <4> QED
        BY <4>4, <4>5
    <3>2. CASE UNCHANGED <<workers, detached>>
      BY <3>2
    <3> QED
      BY <2>2, <3>1, <3>2
  <2>4. CommandNumbered'
    BY <2>1
  <2> QED
    BY <2>1, <2>3, <2>4
<1> QED
  BY <1>1, <1>2, <1>3, <1>4, <1>5, <1>6, <1>7

\* Every step preserves the type invariant.
LEMMA TypeStep == TypeInv /\ [Next]_vars => TypeInv'
<1> SUFFICES ASSUME TypeInv, [Next]_vars PROVE TypeInv'
  OBVIOUS
<1>1. CASE UNCHANGED vars
  BY <1>1 DEF TypeInv, TypeOK, BusyHasCommand, CommandNumbered, JoinsTask, vars, taskVars, history
<1>2. CASE Next
  BY <1>2, TypeStart, TypeSubmit, TypeWorker, TypeOthers DEF Next
<1> QED
  BY <1>1, <1>2

\* Every operation of the writer keeps every variable in its domain.
THEOREM TypeCorrect == Spec => []TypeOK
<1>1. TypeInv => TypeOK
  BY DEF TypeInv
<1> QED
  BY TypeInit, TypeStep, <1>1, PTL DEF Spec

-----------------------------------------------------------------------------
(* One store call at a time.  Only the current consumer lives, because     *)
(* start() replaces none but a dead one; and a thread survives its task    *)
(* only after the container's time limit, when nothing is started any more.*)

OnlyConsumerLives == \A w \in DOMAIN workers : Live(w) => w = consumer

DetachedIsLast ==
    detached # {} =>
        /\ stop \notin {"up", "manager"}
        /\ \A w \in DOMAIN workers : ~Live(w)
        /\ \E k \in Commands : detached = {k}

SerialInv == TypeInv /\ OnlyConsumerLives /\ DetachedIsLast

\* start() leaves one live task, its own.
LEMMA SerialStart ==
  ASSUME SerialInv, NEW c \in Clients, Start(c)
  PROVE  OnlyConsumerLives' /\ DetachedIsLast'
<1> USE DEF SerialInv, TypeInv, TypeOK, OnlyConsumerLives, DetachedIsLast, Live
<1>1. stop \in {"up", "manager"} /\ UNCHANGED <<detached, stop>> /\ detached = {}
  BY DEF Start
<1>2. CASE NewWorker /\ (consumer = 0 \/ ~Live(consumer))
  <2>1. /\ workers' = Append(workers, Idle) /\ consumer' = Len(workers) + 1
        /\ \A w \in DOMAIN workers : ~Live(w)
    BY <1>2 DEF NewWorker
  <2>2. /\ DOMAIN workers' = 1..(Len(workers) + 1)
        /\ \A w \in DOMAIN workers : workers'[w] = workers[w]
    BY <2>1 DEF Idle
  <2> QED
    BY <1>1, <2>1, <2>2
<1>3. CASE UNCHANGED <<workers, consumer>>
  BY <1>1, <1>3
<1>4. CASE UNCHANGED workers /\ ~Live(consumer)
  BY <1>1, <1>4
<1> QED
  BY <1>2, <1>3, <1>4 DEF Start

\* A worker that goes on, returns or is cancelled makes no other one live.
LEMMA SerialChange ==
  ASSUME SerialInv, NEW w \in DOMAIN workers, Live(w), NEW x,
         workers' = [workers EXCEPT ![w] = x], UNCHANGED <<consumer, detached>>
  PROVE  OnlyConsumerLives' /\ DetachedIsLast'
  BY DEF SerialInv, TypeInv, TypeOK, OnlyConsumerLives, DetachedIsLast, Live

\* Cancelling the consumer leaves no task alive, and at most its thread.
LEMMA SerialCancel ==
  ASSUME SerialInv, stop = "join", Live(consumer), CancelWorker(consumer),
         stop' = "enter", UNCHANGED consumer
  PROVE  OnlyConsumerLives' /\ DetachedIsLast'
<1> USE DEF SerialInv, TypeInv, TypeOK, JoinsTask
<1>1. consumer \in DOMAIN workers
  <2>1. consumer \in 1..Len(workers)
    OBVIOUS
  <2> QED
    BY <2>1
<1>2. detached = {}
  BY <1>1 DEF DetachedIsLast
<1>3. workers' = [workers EXCEPT ![consumer] = Ended("cancelled")]
  BY DEF CancelWorker
<1>4. \A w \in DOMAIN workers' : ~Live(w)'
  BY <1>1, <1>3 DEF Live, OnlyConsumerLives, Ended
<1>5. detached' = {} \/ (\E k \in Commands : detached' = {k})
  <2>1. workers[consumer].st = "busy" => workers[consumer].cmd \in Commands
    BY <1>1 DEF BusyHasCommand
  <2> QED
    BY <1>2, <2>1 DEF CancelWorker
<1> QED
  BY <1>4, <1>5 DEF OnlyConsumerLives, DetachedIsLast

\* Every step keeps the consumer the only live task.
LEMMA SerialStep == SerialInv /\ [Next]_vars => SerialInv'
<1> SUFFICES ASSUME SerialInv, [Next]_vars PROVE SerialInv'
  OBVIOUS
<1>1. TypeInv'
  BY TypeStep DEF SerialInv
<1>2. ASSUME UNCHANGED <<taskVars, stop>> PROVE OnlyConsumerLives' /\ DetachedIsLast'
  BY <1>2 DEF SerialInv, OnlyConsumerLives, DetachedIsLast, Live, taskVars
<1>3. ASSUME NEW c \in Clients, Start(c) \/ Submit(c) \/ PutDone(c) \/ CancelClient(c)
      PROVE  OnlyConsumerLives' /\ DetachedIsLast'
  <2>1. CASE Start(c)
    BY <2>1, SerialStart
  <2>2. CASE Submit(c) \/ PutDone(c) \/ CancelClient(c)
    <3>1. UNCHANGED <<taskVars, stop>>
      BY <2>2 DEF Submit, PutDone, CancelClient, taskVars
    <3> QED
      BY <3>1, <1>2
  <2> QED
    BY <1>3, <2>1, <2>2
<1>4. ASSUME NEW w \in DOMAIN workers, Get(w) \/ GetStale(w) \/ Finish(w)
      PROVE  OnlyConsumerLives' /\ DetachedIsLast'
  <2>1. Live(w) /\ UNCHANGED <<consumer, detached>>
    BY <1>4 DEF Get, TakeItem, GetStale, Finish, StoreCallEnds, Live
  <2>2. CASE Get(w)
    BY <2>1, <2>2, SerialChange DEF Get, TakeItem
  <2>3. CASE GetStale(w)
    BY <2>1, <2>3, SerialChange DEF GetStale
  <2>4. CASE Finish(w)
    BY <2>1, <2>4, SerialChange DEF Finish, StoreCallEnds
  <2> QED
    BY <1>4, <2>2, <2>3, <2>4
<1>5. ASSUME NEW k \in detached, ThreadEnds(k)
      PROVE  OnlyConsumerLives' /\ DetachedIsLast'
  <2>1. detached' = {} /\ UNCHANGED <<workers, consumer>>
    BY <1>5 DEF ThreadEnds, SerialInv, DetachedIsLast
  <2> QED
    BY <2>1 DEF SerialInv, OnlyConsumerLives, DetachedIsLast, Live
<1>6. ASSUME LoopCloses PROVE OnlyConsumerLives' /\ DetachedIsLast'
  <2>1. consumer \in DOMAIN workers
    BY <1>6 DEF LoopCloses, SerialInv, TypeInv, TypeOK
  <2> QED
    BY <1>6, <2>1, SerialChange DEF LoopCloses
<1>7. ASSUME BeginShutdown \/ RunsEnded \/ ShutdownEnter \/ ShutdownPut
      PROVE  OnlyConsumerLives' /\ DetachedIsLast'
  <2>1. UNCHANGED taskVars
    BY <1>7 DEF BeginShutdown, RunsEnded, ShutdownEnter, ShutdownPut, taskVars
  <2>2. stop \notin {"up", "manager"} => stop' \notin {"up", "manager"}
    BY <1>7 DEF BeginShutdown, RunsEnded, ShutdownEnter, ShutdownPut, Returned
  <2> QED
    BY <2>1, <2>2 DEF SerialInv, OnlyConsumerLives, DetachedIsLast, Live, taskVars
<1>8. ASSUME ShutdownJoin PROVE OnlyConsumerLives' /\ DetachedIsLast'
  <2>1. /\ ~Live(consumer) /\ UNCHANGED <<workers, detached>>
        /\ stop' \notin {"up", "manager"}
    BY <1>8 DEF ShutdownJoin, Returned, Raised
  <2> QED
    BY <2>1 DEF SerialInv, OnlyConsumerLives, DetachedIsLast, Live
<1>9. ASSUME TimeLimitExpires PROVE OnlyConsumerLives' /\ DetachedIsLast'
  <2>1. CASE stop = "join" /\ Live(consumer) /\ CancelWorker(consumer)
    BY <1>9, <2>1, SerialCancel DEF TimeLimitExpires
  <2>2. CASE UNCHANGED <<workers, detached>>
    BY <1>9, <2>2
    DEF TimeLimitExpires, SerialInv, OnlyConsumerLives, DetachedIsLast, Live
  <2> QED
    BY <1>9, <2>1, <2>2 DEF TimeLimitExpires
<1>10. ASSUME UNCHANGED vars PROVE OnlyConsumerLives' /\ DetachedIsLast'
  BY <1>2, <1>10 DEF vars
<1>11. ASSUME Next PROVE OnlyConsumerLives' /\ DetachedIsLast'
  BY <1>3, <1>4, <1>5, <1>6, <1>7, <1>8, <1>9, <1>11 DEF Next
<1> QED
  BY <1>1, <1>10, <1>11 DEF SerialInv

\* One live task, or else one thread: at most one store call.
LEMMA SerialMeansOne == SerialInv => OneWriteAtATime
<1> SUFFICES ASSUME SerialInv PROVE Cardinality(Writing) <= 1
  BY DEF OneWriteAtATime
<1>1. PICK k : Writing \subseteq {k}
  <2>1. CASE detached = {}
    <3>1. Writing \subseteq {workers[consumer].cmd}
      BY <2>1 DEF SerialInv, OnlyConsumerLives, Live, Writing
    <3> QED
      BY <3>1
  <2>2. CASE detached # {}
    <3>1. PICK k \in Commands : detached = {k}
      BY <2>2 DEF SerialInv, DetachedIsLast
    <3>2. \A w \in DOMAIN workers : workers[w].st # "busy"
      BY <2>2 DEF SerialInv, DetachedIsLast, Live
    <3>3. Writing \subseteq {k}
      BY <3>1, <3>2 DEF Writing
    <3> QED
      BY <3>3
  <2> QED
    BY <2>1, <2>2
<1>2. IsFiniteSet({k}) /\ Cardinality({k}) = 1
  BY FS_Singleton
<1>3. IsFiniteSet(Writing) /\ Cardinality(Writing) <= Cardinality({k})
  BY <1>1, <1>2, FS_Subset
<1> QED
  BY <1>2, <1>3

\* The writer never has two store calls in progress: not when a dead consumer
\* is replaced, not after a loop closed, not when shutdown cancels it.
THEOREM SerialWrites == Spec => []OneWriteAtATime
<1>1. Init => SerialInv
  BY TypeInit DEF SerialInv, Init, OnlyConsumerLives, DetachedIsLast
<1> QED
  BY <1>1, SerialStep, SerialMeansOne, PTL DEF Spec

-----------------------------------------------------------------------------
(* Nothing behind the sentinel.  While the writer accepts, and until       *)
(* shutdown has put the sentinel, the queue holds none; a client that is   *)
(* putting holds the lock of a writer that accepts.                        *)

NoSentinel == \A i \in DOMAIN queue : queue[i] # Stop

OpenHasNone == (accepting = TRUE \/ stop \in {"up", "manager", "put"}) => NoSentinel

PuttingIsOpen ==
    \A c \in Clients : pc[c] = "putting" => lock = c /\ accepting = TRUE

StopperPuts == stop = "put" => lock = Stopper /\ accepting = FALSE

SentinelInv ==
    /\ TypeInv
    /\ NothingBehindSentinel
    /\ OpenHasNone
    /\ PuttingIsOpen
    /\ StopperPuts

\* A command is a pair, the sentinel is not.
LEMMA CommandIsNoSentinel == \A k \in Commands : k # Stop
<1> TAKE k \in Commands
<1>1. PICK c \in Clients, n \in 1..MaxSubmits : k = <<c, n>>
  BY DEF Commands
<1>2. Len(<<c, n>>) = 2
  OBVIOUS
<1>3. Len(<<>>) = 0
  OBVIOUS
<1> QED
  BY <1>1, <1>2, <1>3 DEF Stop

\* A command at the end leaves a queue without a sentinel without one.
LEMMA QueueGrows ==
  ASSUME TypeInv, NoSentinel, NEW k \in Commands, queue' = Append(queue, k)
  PROVE  NothingBehindSentinel' /\ NoSentinel'
  BY CommandIsNoSentinel DEF TypeInv, TypeOK, NothingBehindSentinel, NoSentinel

\* The sentinel at the end of a queue without one is its last item.
LEMMA QueueEnds ==
  ASSUME TypeInv, NoSentinel, queue' = Append(queue, Stop)
  PROVE  NothingBehindSentinel'
  BY DEF TypeInv, TypeOK, NothingBehindSentinel, NoSentinel

\* Taking the first item keeps the order of the others.
LEMMA QueueShrinks ==
  ASSUME TypeInv, NothingBehindSentinel, queue # <<>>, queue' = Tail(queue)
  PROVE  NothingBehindSentinel' /\ (NoSentinel => NoSentinel')
<1>1. /\ Len(queue') = Len(queue) - 1
      /\ DOMAIN queue' = 1..Len(queue')
      /\ \A i \in DOMAIN queue' : i + 1 \in DOMAIN queue /\ queue'[i] = queue[i + 1]
  BY DEF TypeInv, TypeOK
<1>2. Len(queue) \in Nat /\ DOMAIN queue = 1..Len(queue)
  BY DEF TypeInv, TypeOK
<1> QED
  BY <1>1, <1>2 DEF NothingBehindSentinel, NoSentinel

\* A step that leaves the queue alone.
LEMMA QueueStays ==
  ASSUME NothingBehindSentinel, UNCHANGED queue
  PROVE  NothingBehindSentinel' /\ (NoSentinel => NoSentinel')
  BY DEF NothingBehindSentinel, NoSentinel

\* Clients: who starts or puts has found the lock free or holds it.
LEMMA SentinelClient ==
  ASSUME SentinelInv, NEW c \in Clients,
         Start(c) \/ Submit(c) \/ PutDone(c) \/ CancelClient(c)
  PROVE  NothingBehindSentinel' /\ OpenHasNone' /\ PuttingIsOpen' /\ StopperPuts'
<1> USE DEF SentinelInv
<1>1. NoOne \notin Clients /\ Stopper \notin Clients /\ NoOne # Stopper
  BY WriterAssumption DEF WriterAssumption
<1>2. pc \in [Clients -> {"idle", "ready", "putting", "awaiting"}]
  BY DEF TypeInv, TypeOK
<1>3. CASE Start(c)
  <2>1. /\ UNCHANGED <<queue, lock, stop>>
        /\ lock = NoOne /\ stop \in {"up", "manager"}
        /\ pc' \in {pc, [pc EXCEPT ![c] = "ready"]}
    BY <1>3 DEF Start
  <2>2. NoSentinel /\ NoSentinel' /\ NothingBehindSentinel'
    BY <2>1, QueueStays DEF OpenHasNone
  <2>3. \A d \in Clients : pc'[d] # "putting"
    BY <1>1, <1>2, <2>1 DEF PuttingIsOpen
  <2> QED
    BY <2>1, <2>2, <2>3 DEF OpenHasNone, PuttingIsOpen, StopperPuts
<1>4. CASE Submit(c)
  <2>1. /\ lock = NoOne /\ UNCHANGED <<stop, accepting>>
        /\ \A d \in Clients : pc[d] # "putting"
    BY <1>1, <1>4 DEF Submit, PuttingIsOpen
  <2>2. CASE pc' = [pc EXCEPT ![c] = "idle"] /\ UNCHANGED <<queue, lock>>
    <3>1. NothingBehindSentinel' /\ OpenHasNone'
      BY <2>1, <2>2, QueueStays DEF OpenHasNone
    <3>2. \A d \in Clients : pc'[d] # "putting"
      BY <1>2, <2>1, <2>2
    <3> QED
      BY <2>1, <2>2, <3>1, <3>2 DEF PuttingIsOpen, StopperPuts
  <2>3. CASE accepting = TRUE /\ Enqueue(c, <<c, sent[c] + 1>>) /\ UNCHANGED lock
    <3>1. <<c, sent[c] + 1>> \in Commands
      BY <1>4, WriterAssumption DEF Submit, Commands, TypeInv, TypeOK, WriterAssumption
    <3>2. NothingBehindSentinel' /\ NoSentinel'
      BY <2>3, <3>1, QueueGrows DEF Enqueue, OpenHasNone
    <3>3. \A d \in Clients : pc'[d] # "putting"
      BY <1>2, <2>1, <2>3 DEF Enqueue
    <3> QED
      BY <2>1, <2>3, <3>2, <3>3 DEF OpenHasNone, PuttingIsOpen, StopperPuts
  <2>4. CASE /\ accepting = TRUE /\ lock' = c
             /\ pc' = [pc EXCEPT ![c] = "putting"] /\ UNCHANGED queue
    <3>1. NothingBehindSentinel' /\ OpenHasNone'
      BY <2>1, <2>4, QueueStays DEF OpenHasNone
    <3>2. \A d \in Clients : pc'[d] = "putting" => d = c
      BY <1>2, <2>1, <2>4
    <3>3. stop # "put"
      BY <2>4 DEF StopperPuts
    <3> QED
      BY <2>1, <2>4, <3>1, <3>2, <3>3 DEF PuttingIsOpen, StopperPuts
  <2>5. accepting \in BOOLEAN
    BY DEF TypeInv, TypeOK
  <2> QED
    BY <1>4, <2>2, <2>3, <2>4, <2>5 DEF Submit
<1>5. CASE PutDone(c)
  <2>1. /\ lock = c /\ accepting = TRUE /\ stop # "put" /\ UNCHANGED <<stop, accepting>>
        /\ \A d \in Clients : pc[d] = "putting" => d = c
    BY <1>5 DEF PutDone, PuttingIsOpen, StopperPuts
  <2>2. Command(c) \in Commands
    BY <1>5 DEF PutDone, Command, Commands, TypeInv, TypeOK, CommandNumbered
  <2>3. NothingBehindSentinel' /\ NoSentinel'
    BY <1>5, <2>1, <2>2, QueueGrows DEF PutDone, Enqueue, OpenHasNone
  <2>4. \A d \in Clients : pc'[d] # "putting"
    BY <1>2, <1>5, <2>1 DEF PutDone, Enqueue
  <2> QED
    BY <2>1, <2>3, <2>4 DEF OpenHasNone, PuttingIsOpen, StopperPuts
<1>6. CASE CancelClient(c)
  <2>1. /\ UNCHANGED <<queue, stop, accepting>> /\ pc' = [pc EXCEPT ![c] = "idle"]
        /\ lock' = IF pc[c] = "putting" THEN NoOne ELSE lock
    BY <1>6 DEF CancelClient
  <2>2. NothingBehindSentinel' /\ OpenHasNone'
    BY <2>1, QueueStays DEF OpenHasNone
  <2>3. PuttingIsOpen'
    BY <1>2, <2>1 DEF PuttingIsOpen
  <2>4. StopperPuts'
    BY <1>1, <2>1 DEF PuttingIsOpen, StopperPuts
  <2> QED
    BY <2>2, <2>3, <2>4
<1> QED
  BY <1>3, <1>4, <1>5, <1>6

\* The consumer and its threads only shorten the queue.
LEMMA SentinelWorker ==
  ASSUME SentinelInv,
         \/ \E w \in DOMAIN workers : Get(w) \/ GetStale(w) \/ Finish(w)
         \/ \E k \in detached : ThreadEnds(k)
  PROVE  NothingBehindSentinel' /\ OpenHasNone' /\ PuttingIsOpen' /\ StopperPuts'
<1> USE DEF SentinelInv
<1>1. /\ UNCHANGED <<lock, accepting, stop>>
      /\ UNCHANGED queue \/ (queue # <<>> /\ queue' = Tail(queue))
  BY DEF Get, TakeItem, GetStale, Finish, StoreCallEnds, ThreadEnds
<1>2. \A c \in Clients : pc'[c] = "putting" => pc[c] = "putting"
  BY DEF Get, TakeItem, GetStale, Finish, StoreCallEnds, ThreadEnds
<1>3. NothingBehindSentinel' /\ (NoSentinel => NoSentinel')
  BY <1>1, QueueShrinks, QueueStays
<1> QED
  BY <1>1, <1>2, <1>3 DEF OpenHasNone, PuttingIsOpen, StopperPuts

\* Shutdown puts the only sentinel, and the loop's end puts none.
LEMMA SentinelShutdown ==
  ASSUME SentinelInv,
         \/ LoopCloses \/ BeginShutdown \/ RunsEnded
         \/ ShutdownEnter \/ ShutdownPut \/ ShutdownJoin \/ TimeLimitExpires
  PROVE  NothingBehindSentinel' /\ OpenHasNone' /\ PuttingIsOpen' /\ StopperPuts'
<1> USE DEF SentinelInv
<1>1. NoOne \notin Clients /\ Stopper \notin Clients /\ NoOne # Stopper
  BY WriterAssumption DEF WriterAssumption
<1>2. CASE LoopCloses
  <2>1. /\ UNCHANGED <<queue, accepting, stop>> /\ stop = "up"
        /\ pc' = [c \in Clients |-> "idle"]
    BY <1>2 DEF LoopCloses
  <2>2. NothingBehindSentinel' /\ (NoSentinel => NoSentinel')
    BY <2>1, QueueStays
  <2> QED
    BY <2>1, <2>2 DEF OpenHasNone, PuttingIsOpen, StopperPuts
<1>3. CASE BeginShutdown \/ RunsEnded
  <2>1. /\ UNCHANGED <<queue, accepting, lock, pc>>
        /\ stop \in {"up", "manager"} /\ stop' # "put"
    BY <1>3 DEF BeginShutdown, RunsEnded
  <2>2. NothingBehindSentinel' /\ (NoSentinel => NoSentinel')
    BY <2>1, QueueStays
  <2> QED
    BY <2>1, <2>2 DEF OpenHasNone, PuttingIsOpen, StopperPuts
<1>4. CASE ShutdownEnter
  <2>1. /\ UNCHANGED pc /\ stop' \notin {"up", "manager"}
        /\ \A c \in Clients : pc[c] # "putting"
    BY <1>1, <1>4 DEF ShutdownEnter, Returned, PuttingIsOpen
  <2>2. accepting \in BOOLEAN
    BY DEF TypeInv, TypeOK
  <2>3. CASE UNCHANGED <<queue, accepting>> /\ stop' # "put"
    <3>1. NothingBehindSentinel' /\ (NoSentinel => NoSentinel')
      BY <2>3, QueueStays
    <3> QED
      BY <2>1, <2>3, <3>1 DEF OpenHasNone, PuttingIsOpen, StopperPuts
  <2>4. CASE /\ accepting = TRUE /\ accepting' = FALSE
             /\ stop' = "join" /\ queue' = Append(queue, Stop)
    <3>1. NothingBehindSentinel'
      BY <2>4, QueueEnds DEF OpenHasNone
    <3> QED
      BY <2>1, <2>4, <3>1 DEF OpenHasNone, PuttingIsOpen, StopperPuts
  <2>5. CASE /\ accepting = TRUE /\ accepting' = FALSE
             /\ stop' = "put" /\ lock' = Stopper /\ UNCHANGED queue
    <3>1. NothingBehindSentinel' /\ NoSentinel'
      BY <2>5, QueueStays DEF OpenHasNone
    <3> QED
      BY <2>1, <2>5, <3>1 DEF OpenHasNone, PuttingIsOpen, StopperPuts
  <2> QED
    BY <1>4, <2>2, <2>3, <2>4, <2>5 DEF ShutdownEnter, Returned
<1>5. CASE ShutdownPut
  <2>1. /\ accepting = FALSE /\ NoSentinel
        /\ \A c \in Clients : pc[c] # "putting"
    BY <1>1, <1>5 DEF ShutdownPut, StopperPuts, OpenHasNone, PuttingIsOpen
  <2>2. /\ queue' = Append(queue, Stop) /\ stop' = "join" /\ UNCHANGED <<accepting, pc>>
    BY <1>5 DEF ShutdownPut
  <2>3. NothingBehindSentinel'
    BY <2>1, <2>2, QueueEnds
  <2> QED
    BY <2>1, <2>2, <2>3 DEF OpenHasNone, PuttingIsOpen, StopperPuts
<1>6. CASE ShutdownJoin \/ TimeLimitExpires
  <2>1. /\ UNCHANGED <<queue, accepting, pc>> /\ stop' \notin {"up", "manager", "put"}
        /\ lock' = lock \/ stop = "put"
    BY <1>6 DEF ShutdownJoin, Returned, Raised, TimeLimitExpires
  <2>2. NothingBehindSentinel' /\ (NoSentinel => NoSentinel')
    BY <2>1, QueueStays
  <2>3. PuttingIsOpen'
    BY <1>1, <2>1 DEF PuttingIsOpen, StopperPuts
  <2> QED
    BY <2>1, <2>2, <2>3 DEF OpenHasNone, StopperPuts
<1> QED
  BY <1>2, <1>3, <1>4, <1>5, <1>6

\* Every step keeps the sentinel last.
LEMMA SentinelStep == SentinelInv /\ [Next]_vars => SentinelInv'
<1> SUFFICES ASSUME SentinelInv, [Next]_vars PROVE SentinelInv'
  OBVIOUS
<1>1. TypeInv'
  BY TypeStep DEF SentinelInv
<1>2. CASE UNCHANGED vars
  BY <1>1, <1>2, QueueStays
  DEF SentinelInv, OpenHasNone, PuttingIsOpen, StopperPuts, vars
<1>3. CASE Next
  BY <1>1, <1>3, SentinelClient, SentinelWorker, SentinelShutdown DEF Next, SentinelInv
<1> QED
  BY <1>2, <1>3

\* No command is ever queued behind the sentinel, so the consumer that ends at
\* the sentinel leaves nothing that was accepted.
THEOREM SentinelIsLast == Spec => []NothingBehindSentinel
<1>1. Init => SentinelInv
  BY TypeInit
  DEF Init, SentinelInv, NothingBehindSentinel, OpenHasNone, NoSentinel, PuttingIsOpen,
      StopperPuts
<1>2. SentinelInv => NothingBehindSentinel
  BY DEF SentinelInv
<1> QED
  BY <1>1, <1>2, SentinelStep, PTL DEF Spec
-----------------------------------------------------------------------------
(* The promise of OrderedWrites.  The mapping reads the command that a     *)
(* thread has from the workers and the rest from the queue; so first, what *)
(* each says when at most one worker lives and the sentinel is last.       *)

Hand(S) == IF S = {} THEN <<>> ELSE <<CHOOSE k \in S : TRUE>>
Unended(q) == IF Len(q) > 0 /\ q[Len(q)] = Stop THEN SubSeq(q, 1, Len(q) - 1) ELSE q

\* The number of an accepted command was given to its client before, and a client
\* that is putting has not put its last one yet.
AcceptedNumbered ==
    \A i \in DOMAIN accepted : \A c \in Clients, n \in 1..MaxSubmits :
        accepted[i] = <<c, n>> =>
            n <= sent[c] /\ (pc[c] = "putting" => n < sent[c])

\* A live worker is the only one that can have a command; without one it is with a
\* thread that survived its task.
WritingIs ==
    /\ \A w \in DOMAIN workers : Live(w) =>
          /\ detached = {}
          /\ workers[w].st = "busy" => Writing = {workers[w].cmd}
          /\ workers[w].st # "busy" => Writing = {}
    /\ (\A w \in DOMAIN workers : ~Live(w)) => Writing = detached

PromiseInv == SerialInv /\ SentinelInv /\ AcceptedNumbered

LEMMA HandOf == Hand({}) = <<>> /\ \A k : Hand({k}) = <<k>>
<1> SUFFICES ASSUME NEW k PROVE Hand({k}) = <<k>>
  BY DEF Hand
<1>1. (CHOOSE x \in {k} : TRUE) = k
  OBVIOUS
<1> QED
  BY <1>1 DEF Hand

LEMMA SerialWriting == SerialInv => WritingIs
<1> SUFFICES ASSUME SerialInv PROVE WritingIs
  OBVIOUS
<1>1. ASSUME NEW w \in DOMAIN workers, Live(w)
      PROVE  /\ detached = {}
             /\ workers[w].st = "busy" => Writing = {workers[w].cmd}
             /\ workers[w].st # "busy" => Writing = {}
  <2>1. detached = {}
    BY <1>1 DEF SerialInv, DetachedIsLast
  <2>2. \A v \in DOMAIN workers : workers[v].st = "busy" => v = w
    BY <1>1 DEF SerialInv, OnlyConsumerLives, Live
  <2> QED
    BY <2>1, <2>2 DEF Writing
<1>2. ASSUME \A w \in DOMAIN workers : ~Live(w) PROVE Writing = detached
  BY <1>2 DEF Live, Writing
<1> QED
  BY <1>1, <1>2 DEF WritingIs

\* A sequence, what is behind its first item and what is before its last one.
LEMMA SeqParts ==
    ASSUME NEW S, NEW q \in Seq(S)
    PROVE  /\ Len(q) \in Nat /\ DOMAIN q = 1..Len(q) /\ \A i \in 1..Len(q) : q[i] \in S
           /\ q = <<>> <=> Len(q) = 0
           /\ Len(q) > 0 =>
                 /\ Head(q) = q[1]
                 /\ Tail(q) \in Seq(S) /\ Len(Tail(q)) = Len(q) - 1
                 /\ \A i \in 1..(Len(q) - 1) : Tail(q)[i] = q[i + 1]
                 /\ SubSeq(q, 1, Len(q) - 1) \in Seq(S)
                 /\ Len(SubSeq(q, 1, Len(q) - 1)) = Len(q) - 1
                 /\ \A i \in 1..(Len(q) - 1) : SubSeq(q, 1, Len(q) - 1)[i] = q[i]
<1>1. Len(q) \in Nat /\ DOMAIN q = 1..Len(q) /\ \A i \in 1..Len(q) : q[i] \in S
  BY LenProperties
<1>2. Len(<<>>) = 0 /\ (q # <<>> => Len(q) \in Nat \ {0})
  BY EmptySeq
<1>3. ASSUME Len(q) > 0
      PROVE  /\ Head(q) = q[1]
             /\ Tail(q) \in Seq(S) /\ Len(Tail(q)) = Len(q) - 1
             /\ \A i \in 1..(Len(q) - 1) : Tail(q)[i] = q[i + 1]
             /\ SubSeq(q, 1, Len(q) - 1) \in Seq(S) /\ Len(SubSeq(q, 1, Len(q) - 1)) = Len(q) - 1
             /\ \A i \in 1..(Len(q) - 1) : SubSeq(q, 1, Len(q) - 1)[i] = q[i]
  <2>0. q # <<>>
    BY <1>2, <1>3
  <2>1. Len(q) >= 1 /\ Len(q) - 1 \in Int
    BY <1>1, <1>3
  <2>2. /\ Tail(q) \in Seq(S) /\ Len(Tail(q)) = Len(q) - 1
        /\ \A i \in 1..Len(Tail(q)) : Tail(q)[i] = q[i + 1]
    BY <2>0, HeadTailProperties
  <2>3. Head(q) = q[1]
    BY <2>1
  <2>4. \A i \in 1..(Len(q) - 1) : q[i] \in S
    BY <1>1, <2>1
  <2>5. /\ SubSeq(q, 1, Len(q) - 1) \in Seq(S)
        /\ Len(SubSeq(q, 1, Len(q) - 1)) = IF 1 <= Len(q) - 1 THEN (Len(q) - 1) - 1 + 1 ELSE 0
        /\ \A i \in 1..((Len(q) - 1) - 1 + 1) : SubSeq(q, 1, Len(q) - 1)[i] = q[1 + i - 1]
    BY <2>1, <2>4, SubSeqProperties
  <2>6. /\ Len(SubSeq(q, 1, Len(q) - 1)) = Len(q) - 1
        /\ \A i \in 1..(Len(q) - 1) : SubSeq(q, 1, Len(q) - 1)[i] = q[i]
    <3>1. PICK n \in Nat : n = Len(q) /\ n >= 1
      BY <1>1, <2>1
    <3>2. PICK u : u = SubSeq(q, 1, n - 1)
      OBVIOUS
    <3>3. /\ Len(u) = IF 1 <= n - 1 THEN (n - 1) - 1 + 1 ELSE 0
          /\ \A i \in 1..((n - 1) - 1 + 1) : u[i] = q[1 + i - 1]
      BY <2>5, <3>1, <3>2
    <3>4. Len(u) = n - 1 /\ \A i \in 1..(n - 1) : u[i] = q[i]
      BY <3>1, <3>3
    <3> QED
      BY <3>1, <3>2, <3>4
  <2> QED
    BY <2>1, <2>2, <2>3, <2>5, <2>6
<1> QED
  BY <1>1, <1>2, <1>3

\* The queue without the sentinel holds commands.
LEMMA OpenQueue ==
    ASSUME NEW q \in Seq(Commands \cup {Stop}), \A i \in DOMAIN q : q[i] # Stop
    PROVE  q \in Seq(Commands) /\ Unended(q) = q
<1>1. Len(q) \in Nat /\ DOMAIN q = 1..Len(q) /\ \A i \in 1..Len(q) : q[i] \in Commands
  BY SeqParts
<1>2. q \in [1..Len(q) -> Commands]
  BY <1>1
<1>3. q \in Seq(Commands)
  BY <1>1, <1>2, SeqDef
<1>4. Len(q) > 0 => Len(q) \in DOMAIN q
  BY <1>1
<1> QED
  BY <1>3, <1>4 DEF Unended

\* With the sentinel at its end it is the rest.
LEMMA EndedQueue ==
    ASSUME NEW q \in Seq(Commands \cup {Stop}), Len(q) > 0, q[Len(q)] = Stop,
           \A i \in DOMAIN q : q[i] = Stop => i = Len(q)
    PROVE  /\ Unended(q) \in Seq(Commands) /\ Len(Unended(q)) = Len(q) - 1
           /\ \A i \in 1..(Len(q) - 1) : Unended(q)[i] = q[i]
<1>1. PICK u : u = SubSeq(q, 1, Len(q) - 1)
  OBVIOUS
<1>2. /\ Len(q) \in Nat /\ Len(q) >= 1 /\ DOMAIN q = 1..Len(q)
      /\ u \in Seq(Commands \cup {Stop}) /\ Len(u) = Len(q) - 1
      /\ \A i \in 1..(Len(q) - 1) : u[i] = q[i]
  BY <1>1, SeqParts
<1>3. DOMAIN u = 1..(Len(q) - 1)
  BY <1>2, SeqParts
<1>4. \A i \in DOMAIN u : u[i] # Stop
  BY <1>2, <1>3
<1>5. u \in Seq(Commands)
  BY <1>2, <1>4, OpenQueue
<1> QED
  BY <1>1, <1>2, <1>5 DEF Unended

LEMMA QueueOfCommands ==
    ASSUME TypeInv, NothingBehindSentinel
    PROVE  /\ Unended(queue) \in Seq(Commands)
           /\ Len(queue) > 0 /\ Head(queue) = Stop =>
                 Unended(queue) = <<>> /\ Unended(Tail(queue)) = <<>>
           /\ Len(queue) > 0 /\ Head(queue) # Stop =>
                 /\ Unended(queue) = <<Head(queue)>> \o Unended(Tail(queue))
                 /\ Unended(Tail(queue)) \in Seq(Commands)
<1>1. queue \in Seq(Commands \cup {Stop})
  BY DEF TypeInv, TypeOK
<1>0. PICK n \in Nat : n = Len(queue)
  BY <1>1, SeqParts
<1>2. /\ n \in Nat /\ DOMAIN queue = 1..n
      /\ \A i \in 1..n : queue[i] = Stop => i = n
  BY <1>0, <1>1, SeqParts DEF NothingBehindSentinel
<1>3. Unended(queue) \in Seq(Commands)
  <2>1. CASE n > 0 /\ queue[n] = Stop
    BY <1>0, <1>1, <1>2, <2>1, EndedQueue
  <2>2. CASE ~(n > 0 /\ queue[n] = Stop)
    <3>1. \A i \in DOMAIN queue : queue[i] # Stop
      BY <1>2, <2>2
    <3> QED
      BY <1>1, <3>1, OpenQueue
  <2> QED
    BY <2>1, <2>2
<1>4. ASSUME n > 0
      PROVE  /\ Head(queue) = queue[1]
             /\ Tail(queue) \in Seq(Commands \cup {Stop}) /\ Len(Tail(queue)) = n - 1
             /\ DOMAIN Tail(queue) = 1..(n - 1)
             /\ \A i \in 1..(n - 1) : Tail(queue)[i] = queue[i + 1]
  <2>1. /\ Head(queue) = queue[1]
        /\ Tail(queue) \in Seq(Commands \cup {Stop}) /\ Len(Tail(queue)) = n - 1
        /\ \A i \in 1..(n - 1) : Tail(queue)[i] = queue[i + 1]
    BY <1>0, <1>1, <1>2, <1>4, SeqParts
  <2> QED
    BY <2>1, SeqParts
<1>5. ASSUME n > 0, Head(queue) = Stop
      PROVE  Unended(queue) = <<>> /\ Unended(Tail(queue)) = <<>>
  <2>1. n = 1 /\ queue[n] = Stop
    BY <1>2, <1>4, <1>5
  <2>2. Len(Unended(queue)) = 0 /\ Tail(queue) \in Seq(Commands \cup {Stop})
    BY <1>0, <1>1, <1>2, <1>4, <1>5, <2>1, EndedQueue
  <2>3. Unended(queue) = <<>>
    BY <1>3, <2>2, EmptySeq
  <2>4. Len(Tail(queue)) = 0
    BY <1>4, <1>5, <2>1
  <2>5. Tail(queue) = <<>>
    BY <2>2, <2>4, SeqParts
  <2>6. Unended(Tail(queue)) = Tail(queue)
    BY <2>4 DEF Unended
  <2> QED
    BY <2>3, <2>5, <2>6
<1>6. ASSUME n > 0, Head(queue) # Stop
      PROVE  /\ Unended(queue) = <<Head(queue)>> \o Unended(Tail(queue))
             /\ Unended(Tail(queue)) \in Seq(Commands)
  <2>1. PICK t : t = Tail(queue)
    OBVIOUS
  <2>2. /\ n >= 1 /\ Head(queue) = queue[1] /\ Head(queue) \in Commands
        /\ t \in Seq(Commands \cup {Stop}) /\ Len(t) = n - 1 /\ DOMAIN t = 1..(n - 1)
        /\ \A i \in 1..(n - 1) : t[i] = queue[i + 1]
    <3>1. queue[1] \in Commands \cup {Stop}
      BY <1>1, <1>4, <1>6, SeqParts
    <3> QED
      BY <1>4, <1>6, <2>1, <3>1
  <2>3. \A i \in DOMAIN t : t[i] = Stop => i = Len(t)
    BY <1>2, <2>2
  <2>4. /\ Unended(t) \in Seq(Commands)
        /\ \/ /\ queue[n] = Stop /\ Len(Unended(queue)) = n - 1
              /\ \A i \in 1..(n - 1) : Unended(queue)[i] = queue[i]
              /\ Len(Unended(t)) = n - 2
              /\ \A i \in 1..(n - 2) : Unended(t)[i] = queue[i + 1]
           \/ /\ Unended(queue) = queue /\ Len(Unended(t)) = n - 1
              /\ \A i \in 1..(n - 1) : Unended(t)[i] = queue[i + 1]
    <3>1. CASE queue[n] = Stop
      <4>1. n >= 2 /\ t[Len(t)] = Stop
        BY <1>2, <1>6, <2>2, <3>1
      <4>2. Len(t) > 0
        BY <2>2, <4>1
      <4>3. /\ Unended(t) \in Seq(Commands) /\ Len(Unended(t)) = Len(t) - 1
            /\ \A i \in 1..(Len(t) - 1) : Unended(t)[i] = t[i]
        BY <2>2, <2>3, <4>1, <4>2, EndedQueue
      <4>4. /\ Len(Unended(queue)) = n - 1
            /\ \A i \in 1..(n - 1) : Unended(queue)[i] = queue[i]
        BY <1>0, <1>1, <1>2, <1>6, <3>1, EndedQueue
      <4>5. Len(Unended(t)) = n - 2 /\ \A i \in 1..(n - 2) : Unended(t)[i] = queue[i + 1]
        BY <1>2, <2>2, <4>1, <4>3
      <4> QED
        BY <3>1, <4>3, <4>4, <4>5
    <3>2. CASE queue[n] # Stop
      <4>1. \A i \in DOMAIN t : t[i] # Stop
        BY <1>2, <2>2, <3>2
      <4>2. Unended(t) \in Seq(Commands) /\ Unended(t) = t
        BY <2>2, <4>1, OpenQueue
      <4>3. Unended(queue) = queue
        BY <1>0, <3>2 DEF Unended
      <4> QED
        BY <1>0, <2>2, <4>2, <4>3
    <3> QED
      BY <3>1, <3>2
  <2>5. PICK u : u = Unended(queue)
    OBVIOUS
  <2>6. PICK v : v = Unended(t)
    OBVIOUS
  <2>7. /\ u \in Seq(Commands) /\ v \in Seq(Commands) /\ Len(u) = Len(v) + 1
        /\ u[1] = Head(queue) /\ \A i \in 1..Len(v) : v[i] = u[i + 1]
    <3>1. PICK m \in Nat : m = Len(v)
      BY <2>4, <2>6, SeqParts
    <3>2. u \in Seq(Commands) /\ v \in Seq(Commands) /\ n >= 1 /\ queue[1] = Head(queue)
      BY <1>3, <2>2, <2>4, <2>5, <2>6
    <3>3. \/ /\ Len(u) = n - 1 /\ \A i \in 1..(n - 1) : u[i] = queue[i]
             /\ m = n - 2 /\ \A i \in 1..(n - 2) : v[i] = queue[i + 1]
          \/ /\ Len(u) = n /\ u = queue /\ m = n - 1
             /\ \A i \in 1..(n - 1) : v[i] = queue[i + 1]
      BY <1>0, <1>2, <2>4, <2>5, <2>6, <3>1
    <3>4. /\ Len(u) = m + 1 /\ u[1] = queue[1] /\ \A i \in 1..m : v[i] = u[i + 1]
      BY <3>1, <3>2, <3>3
    <3> QED
      BY <3>1, <3>2, <3>4
  <2>8. u = <<Head(queue)>> \o v
    <3>1. PICK h \in Commands : h = Head(queue)
      BY <2>2
    <3>2. <<h>> \in Seq(Commands) /\ Len(<<h>>) = 1 /\ <<h>>[1] = h /\ Len(v) \in Nat
      BY <2>7
    <3>3. /\ <<h>> \o v \in Seq(Commands) /\ Len(<<h>> \o v) = 1 + Len(v)
          /\ \A i \in 1..(1 + Len(v)) : (<<h>> \o v)[i] = IF i <= 1 THEN <<h>>[i] ELSE v[i - 1]
      BY <2>7, <3>2, ConcatProperties
    <3>4. PICK m \in Nat : m = Len(v)
      BY <3>2
    <3>5. PICK w : w = <<h>> \o v
      OBVIOUS
    <3>6. Len(w) = 1 + m /\ \A i \in 1..(1 + m) : w[i] = IF i <= 1 THEN h ELSE v[i - 1]
      BY <3>2, <3>3, <3>4, <3>5
    <3>7. Len(u) = m + 1 /\ \A i \in 1..(m + 1) : u[i] = IF i <= 1 THEN h ELSE v[i - 1]
      BY <2>7, <3>1, <3>4
    <3>8. Len(u) = Len(w) /\ \A i \in 1..Len(u) : u[i] = w[i]
      BY <3>4, <3>6, <3>7
    <3> QED
      BY <2>7, <3>1, <3>3, <3>5, <3>8, SeqEqual
  <2> QED
    BY <2>1, <2>4, <2>5, <2>6, <2>8
<1> QED
  BY <1>0, <1>3, <1>5, <1>6

-----------------------------------------------------------------------------
(* What a step of the writer is as a step of the promise.                  *)

PromiseStep == [Promise!Next]_(Promise!vars)

LEMMA PendingIs == Pending = Hand(Writing) \o Unended(queue)
BY DEF Pending, InHand, Queued, Hand, Unended

LEMMA PromiseRests ==
    ASSUME Pending' = Pending, UNCHANGED history
    PROVE  PromiseStep
BY DEF PromiseStep, Promise!vars, history

LEMMA PromiseAccepts ==
    ASSUME PromiseInv, WritingIs, NoSentinel,
           NEW k \in Commands, NEW c \in Clients, NEW n \in 1..MaxSubmits,
           k = <<c, n>>, n > sent[c] \/ (pc[c] = "putting" /\ n = sent[c]),
           accepted' = Append(accepted, k), queue' = Append(queue, k),
           UNCHANGED <<written, answered>>, Writing' = Writing
    PROVE  PromiseStep
<1>1. sent[c] \in Nat /\ accepted \in Seq(Commands) /\ queue \in Seq(Commands \cup {Stop})
  BY DEF PromiseInv, SentinelInv, TypeInv, TypeOK
<1>2. ~Promise!Among(k, accepted)
  <2> SUFFICES ASSUME NEW i \in DOMAIN accepted, accepted[i] = <<c, n>> PROVE FALSE
    BY DEF Promise!Among
  <2>1. n <= sent[c] /\ (pc[c] = "putting" => n < sent[c])
    BY DEF PromiseInv, AcceptedNumbered
  <2> QED
    BY <1>1, <2>1
<1>3. queue \in Seq(Commands) /\ Unended(queue) = queue
  BY <1>1, OpenQueue DEF NoSentinel
<1>4. Append(queue, k) \in Seq(Commands) /\ Unended(Append(queue, k)) = Append(queue, k)
  <2>1. Append(queue, k) \in Seq(Commands \cup {Stop}) /\ Append(queue, k) \in Seq(Commands)
    BY <1>1, <1>3
  <2>2. \A i \in DOMAIN Append(queue, k) : Append(queue, k)[i] # Stop
    <3>1. PICK q \in Seq(Commands) : q = Append(queue, k)
      BY <2>1
    <3>2. \A i \in DOMAIN q : q[i] \in Commands
      BY <3>1, SeqParts
    <3> QED
      BY <3>1, <3>2, CommandIsNoSentinel
  <2> QED
    BY <2>1, <2>2, OpenQueue
<1>5. PICK h : h = Hand(Writing)
  OBVIOUS
<1>6. h = <<>> \/ \E x : h = <<x>>
  BY <1>5 DEF Hand
<1>7. h \o Append(queue, k) = Append(h \o queue, k)
  BY <1>3, <1>6
<1>8. Pending = h \o queue /\ Pending' = h \o queue'
  <2>1. Pending = Hand(Writing) \o Unended(queue) /\ Pending' = Hand(Writing') \o Unended(queue')
    BY PendingIs DEF Pending, InHand, Queued, Hand, Unended
  <2> QED
    BY <1>3, <1>4, <1>5, <2>1
<1>9. Promise!Accept(k)
  BY <1>2, <1>7, <1>8 DEF Promise!Accept
<1> QED
  BY <1>9 DEF PromiseStep, Promise!Next

\* The command in the thread is the first of the pending ones.
LEMMA PromiseEnds ==
    ASSUME TypeInv, NothingBehindSentinel, NEW k \in Commands, Writing = {k}, Writing' = {},
           UNCHANGED <<queue, accepted>>,
           \/ written' = Append(written, k) /\ answered' \in {answered, answered \cup {k}}
           \/ UNCHANGED <<written, answered>>
    PROVE  PromiseStep
<1>1. PICK q : q = Unended(queue)
  OBVIOUS
<1>2. q \in Seq(Commands)
  BY <1>1, QueueOfCommands
<1>3. Pending = <<k>> \o q
  BY <1>1, PendingIs, HandOf
<1>4. Pending' = <<>> \o q
  BY <1>1, HandOf DEF Pending, InHand, Queued, Hand, Unended
<1>5. Pending # <<>> /\ Head(Pending) = k /\ Pending' = Tail(Pending)
  BY <1>2, <1>3, <1>4
<1>6. Promise!Write \/ Promise!Lose
  BY <1>5 DEF Promise!Write, Promise!Lose
<1> QED
  BY <1>6 DEF PromiseStep, Promise!Next

LEMMA PromiseGets ==
    ASSUME PromiseInv, WritingIs, WritingIs', NEW w \in DOMAIN workers, Get(w)
    PROVE  PromiseStep
<1>1. /\ workers[w].st = "waiting" /\ queue # <<>> /\ queue' = Tail(queue)
      /\ workers' = [workers EXCEPT ![w] = Taken(Head(queue))]
      /\ UNCHANGED detached /\ UNCHANGED history
  BY DEF Get, TakeItem
<1>2. /\ DOMAIN workers' = DOMAIN workers /\ workers'[w] = Taken(Head(queue))
      /\ \A v \in DOMAIN workers \ {w} : workers'[v] = workers[v]
  BY <1>1 DEF PromiseInv, SerialInv, TypeInv, TypeOK
<1>3. detached = {} /\ Writing = {}
  BY <1>1 DEF WritingIs, Live
<1>4. TypeInv /\ NothingBehindSentinel /\ Len(queue) > 0
  <2>1. TypeInv /\ NothingBehindSentinel /\ queue \in Seq(Commands \cup {Stop})
    BY DEF PromiseInv, SentinelInv, TypeInv, TypeOK
  <2> QED
    BY <1>1, <2>1, SeqParts
<1>5. CASE Head(queue) = Stop
  <2>1. \A v \in DOMAIN workers' : ~Live(v)'
    <3>1. \A v \in DOMAIN workers \ {w} : ~Live(v)
      BY <1>1 DEF PromiseInv, SerialInv, OnlyConsumerLives, Live
    <3> QED
      BY <1>2, <1>5, <3>1 DEF Live, Taken, Ended
  <2>2. Writing' = {}
    BY <1>1, <1>3, <2>1 DEF WritingIs
  <2>3. Unended(queue) = Unended(queue')
    BY <1>1, <1>4, <1>5, QueueOfCommands
  <2> QED
    BY <1>1, <1>3, <2>2, <2>3, PromiseRests DEF Pending, InHand, Queued, Unended
<1>6. CASE Head(queue) # Stop
  <2>1. Writing' = {Head(queue)}
    <3>1. workers'[w].st = "busy" /\ workers'[w].cmd = Head(queue)
      BY <1>2, <1>6 DEF Taken
    <3>2. Live(w)' /\ w \in DOMAIN workers'
      BY <1>2, <3>1 DEF Live
    <3> QED
      BY <3>1, <3>2 DEF WritingIs
  <2>2. /\ Unended(queue) = <<Head(queue)>> \o Unended(queue')
        /\ Unended(queue') \in Seq(Commands)
    BY <1>1, <1>4, <1>6, QueueOfCommands
  <2>3. Unended(queue) \in Seq(Commands)
    BY <1>4, QueueOfCommands
  <2>4. Pending = Unended(queue)
    BY <1>3, <2>3, PendingIs, HandOf
  <2>5. Pending' = <<Head(queue)>> \o Unended(queue')
    BY <2>1, HandOf DEF Pending, InHand, Queued, Hand, Unended
  <2> QED
    BY <1>1, <2>2, <2>4, <2>5, PromiseRests
<1> QED
  BY <1>5, <1>6

\* The store call ends, in the task or in a thread that survived it, or never runs.
LEMMA PromiseFinishes ==
    ASSUME PromiseInv, WritingIs, WritingIs', NEW w \in DOMAIN workers, Finish(w)
    PROVE  PromiseStep
<1>1. /\ workers[w].st = "busy" /\ workers' = [workers EXCEPT ![w] = Idle]
      /\ written' = Append(written, workers[w].cmd)
      /\ answered' \in {answered, answered \cup {workers[w].cmd}}
      /\ UNCHANGED <<queue, accepted>>
  BY DEF Finish, StoreCallEnds
<1>2. Writing = {workers[w].cmd} /\ workers[w].cmd \in Commands
  BY <1>1 DEF WritingIs, Live, PromiseInv, SerialInv, TypeInv, BusyHasCommand
<1>3. w \in DOMAIN workers' /\ workers'[w].st = "waiting"
  BY <1>1 DEF Idle, PromiseInv, SerialInv, TypeInv, TypeOK
<1>4. Writing' = {}
  BY <1>3 DEF WritingIs, Live
<1> QED
  BY <1>1, <1>2, <1>4, PromiseEnds DEF PromiseInv, SentinelInv

\* The task is cancelled: its thread goes on, or takes nothing up.
LEMMA PromiseCancels ==
    ASSUME PromiseInv, WritingIs, WritingIs', Live(consumer), consumer # 0,
           workers' = [workers EXCEPT ![consumer] = Ended("cancelled")],
           UNCHANGED <<queue, accepted, answered>>,
           \/ UNCHANGED <<written, detached>>
           \/ UNCHANGED written /\ workers[consumer].st = "busy"
              /\ detached' = detached \cup {workers[consumer].cmd}
           \/ UNCHANGED detached /\ workers[consumer].st = "busy"
              /\ written' = Append(written, workers[consumer].cmd)
    PROVE  PromiseStep
<1>1. /\ consumer \in DOMAIN workers /\ DOMAIN workers' = DOMAIN workers
      /\ workers'[consumer] = Ended("cancelled")
      /\ \A v \in DOMAIN workers \ {consumer} : workers'[v] = workers[v]
  BY DEF PromiseInv, SerialInv, TypeInv, TypeOK
<1>2. \A v \in DOMAIN workers' : ~Live(v)'
  BY <1>1 DEF PromiseInv, SerialInv, OnlyConsumerLives, Live, Ended
<1>3. detached = {} /\ Writing' = detached'
  BY <1>1, <1>2 DEF WritingIs
<1>4. TypeInv /\ NothingBehindSentinel
  BY DEF PromiseInv, SentinelInv
<1>5. CASE workers[consumer].st = "busy"
  <2>1. Writing = {workers[consumer].cmd} /\ workers[consumer].cmd \in Commands
    BY <1>1, <1>4, <1>5 DEF WritingIs, TypeInv, BusyHasCommand
  <2>2. CASE Writing' = Writing
    <3>1. UNCHANGED written
      BY <1>3, <2>1, <2>2
    <3> QED
      BY <2>2, <3>1, PromiseRests DEF Pending, InHand, Queued, history
  <2>3. CASE Writing' # Writing
    <3>1. Writing' = {} /\ \/ UNCHANGED written
                           \/ written' = Append(written, workers[consumer].cmd)
      BY <1>3, <2>1, <2>3
    <3> QED
      BY <1>4, <2>1, <3>1, PromiseEnds
  <2> QED
    BY <2>2, <2>3
<1>6. CASE workers[consumer].st # "busy"
  <2>1. Writing = {} /\ Writing' = {} /\ UNCHANGED written
    BY <1>1, <1>3, <1>6 DEF WritingIs
  <2> QED
    BY <2>1, PromiseRests DEF Pending, InHand, Queued, history
<1> QED
  BY <1>5, <1>6

LEMMA PromiseThreadEnds ==
    ASSUME PromiseInv, WritingIs, WritingIs', NEW k \in detached, ThreadEnds(k)
    PROVE  PromiseStep
<1>1. /\ detached' = detached \ {k} /\ written' = Append(written, k)
      /\ UNCHANGED <<queue, accepted, answered, workers>>
  BY DEF ThreadEnds
<1>2. detached = {k} /\ k \in Commands /\ \A w \in DOMAIN workers : ~Live(w)
  BY DEF PromiseInv, SerialInv, DetachedIsLast
<1>3. Writing = {k} /\ Writing' = {}
  BY <1>1, <1>2 DEF WritingIs, Live
<1> QED
  BY <1>1, <1>2, <1>3, PromiseEnds DEF PromiseInv, SentinelInv

LEMMA PromiseStarts ==
    ASSUME PromiseInv, WritingIs, WritingIs', NEW c \in Clients, Start(c)
    PROVE  PromiseStep
<1>1. UNCHANGED history /\ UNCHANGED <<queue, detached>> /\ stop \in {"up", "manager"}
  BY DEF Start
<1>2. Writing' = Writing
  <2>1. CASE NewWorker
    <3>0. workers' # workers
      <4>1. Len(workers) \in Nat /\ Len(workers') = Len(workers) + 1
        BY <2>1 DEF NewWorker, Idle, PromiseInv, SerialInv, TypeInv, TypeOK
      <4> QED
        BY <4>1
    <3>1. consumer = 0 \/ ~Live(consumer)
      BY <3>0 DEF Start
    <3>2. \A w \in DOMAIN workers : ~Live(w)
      BY <3>1 DEF PromiseInv, SerialInv, OnlyConsumerLives, TypeInv, TypeOK
    <3>3. detached = {}
      BY <1>1 DEF PromiseInv, SerialInv, DetachedIsLast
    <3>4. workers' = Append(workers, Idle) /\ Len(workers) + 1 \in DOMAIN workers'
          /\ workers'[Len(workers) + 1].st = "waiting"
      BY <2>1 DEF NewWorker, Idle, PromiseInv, SerialInv, TypeInv, TypeOK
    <3> QED
      BY <3>2, <3>3, <3>4 DEF WritingIs, Live
  <2>2. CASE UNCHANGED workers
    BY <1>1, <2>2 DEF Writing
  <2> QED
    BY <2>1, <2>2 DEF Start
<1> QED
  BY <1>1, <1>2, PromiseRests DEF Pending, InHand, Queued

LEMMA PromiseSubmits ==
    ASSUME PromiseInv, WritingIs, NEW c \in Clients, Submit(c) \/ PutDone(c)
    PROVE  PromiseStep
<1>1. /\ Writing' = Writing /\ UNCHANGED <<written, answered>> /\ sent \in [Clients -> 0..MaxSubmits]
  BY DEF Submit, PutDone, taskVars, Writing, PromiseInv, SerialInv, TypeInv, TypeOK
<1>2. CASE UNCHANGED <<queue, accepted>>
  BY <1>1, <1>2, PromiseRests DEF Pending, InHand, Queued, history
<1>3. CASE Submit(c) /\ ~UNCHANGED <<queue, accepted>>
  <2>1. accepting = TRUE /\ sent[c] < MaxSubmits /\ Enqueue(c, <<c, sent[c] + 1>>)
    BY <1>3 DEF Submit, PromiseInv, SerialInv, TypeInv, TypeOK
  <2>2. NoSentinel /\ sent[c] + 1 \in 1..MaxSubmits /\ sent[c] + 1 > sent[c]
    BY <1>1, <2>1, WriterAssumption DEF PromiseInv, SentinelInv, OpenHasNone
  <2>3. <<c, sent[c] + 1>> \in Commands
    BY <2>2 DEF Commands
  <2> QED
    BY <1>1, <2>1, <2>2, <2>3, PromiseAccepts DEF Enqueue
<1>4. CASE PutDone(c)
  <2>1. pc[c] = "putting" /\ Enqueue(c, <<c, sent[c]>>)
    BY <1>4 DEF PutDone, Command
  <2>2. NoSentinel /\ sent[c] \in 1..MaxSubmits
    BY <1>1, <2>1, WriterAssumption DEF PromiseInv, SentinelInv, OpenHasNone, PuttingIsOpen, TypeInv, CommandNumbered
  <2>3. <<c, sent[c]>> \in Commands
    BY <2>2 DEF Commands
  <2> QED
    BY <1>1, <2>1, <2>2, <2>3, PromiseAccepts DEF Enqueue
<1> QED
  BY <1>2, <1>3, <1>4

\* The sentinel goes to the end of a queue without one.
LEMMA PromiseStops ==
    ASSUME PromiseInv, ShutdownEnter \/ ShutdownPut
    PROVE  PromiseStep
<1>1. Writing' = Writing /\ UNCHANGED history /\ queue \in Seq(Commands \cup {Stop})
  BY DEF ShutdownEnter, ShutdownPut, taskVars, Writing, PromiseInv, SerialInv, TypeInv, TypeOK
<1>2. CASE UNCHANGED queue
  BY <1>1, <1>2, PromiseRests DEF Pending, InHand, Queued
<1>3. CASE ~UNCHANGED queue
  <2>1. queue' = Append(queue, Stop) /\ NoSentinel
    BY <1>3 DEF ShutdownEnter, ShutdownPut, PromiseInv, SentinelInv, OpenHasNone
  <2>2. Unended(queue) = queue
    BY <1>1, <2>1, OpenQueue DEF NoSentinel
  <2>3. Unended(Append(queue, Stop)) = queue
    <3>1. /\ Len(Append(queue, Stop)) > 0 /\ Append(queue, Stop)[Len(Append(queue, Stop))] = Stop
          /\ SubSeq(Append(queue, Stop), 1, Len(Append(queue, Stop)) - 1) = queue
      BY <1>1
    <3> QED
      BY <3>1 DEF Unended
  <2> QED
    <3>1. Queued = Unended(queue) /\ Queued' = Unended(queue')
      BY DEF Queued, Unended
    <3>2. Queued' = Queued /\ InHand' = InHand
      BY <1>1, <2>1, <2>2, <2>3, <3>1 DEF InHand
    <3> QED
      BY <1>1, <3>2, PromiseRests DEF Pending
<1> QED
  BY <1>2, <1>3

LEMMA PromiseLimit ==
    ASSUME PromiseInv, WritingIs, WritingIs', TimeLimitExpires \/ LoopCloses
    PROVE  PromiseStep
<1>1. CASE UNCHANGED <<workers, detached>> /\ UNCHANGED history /\ UNCHANGED queue
  BY <1>1, PromiseRests DEF Pending, InHand, Queued, Writing
<1>2. CASE TimeLimitExpires /\ stop = "join" /\ Live(consumer) /\ CancelWorker(consumer)
  <2>1. consumer # 0
    BY <1>2 DEF PromiseInv, SerialInv, TypeInv, JoinsTask
  <2>2. UNCHANGED <<queue, accepted, answered, written>>
    BY <1>2 DEF TimeLimitExpires, history
  <2> QED
    BY <1>2, <2>1, <2>2, PromiseCancels DEF CancelWorker
<1>3. CASE LoopCloses
  <2>1. consumer # 0 /\ Live(consumer) /\ UNCHANGED <<queue, accepted, answered, detached>>
    BY <1>3 DEF LoopCloses
  <2> QED
    BY <1>3, <2>1, PromiseCancels DEF LoopCloses
<1> QED
  BY <1>1, <1>2, <1>3 DEF TimeLimitExpires

\* Numbers are given to commands before they are put.
LEMMA NumberedStep == PromiseInv /\ [Next]_vars => AcceptedNumbered'
<1> SUFFICES ASSUME PromiseInv, [Next]_vars PROVE AcceptedNumbered'
  OBVIOUS
<1>1. /\ sent \in [Clients -> 0..MaxSubmits] /\ accepted \in Seq(Commands)
      /\ pc \in [Clients -> {"idle", "ready", "putting", "awaiting"}]
  BY DEF PromiseInv, SerialInv, TypeInv, TypeOK
<1>2. CASE \E c \in Clients : Submit(c) \/ PutDone(c)
  <2> SUFFICES ASSUME NEW c \in Clients, Submit(c) \/ PutDone(c) PROVE AcceptedNumbered'
    BY <1>2
  <2>1. /\ sent'[c] \in Nat /\ sent[c] \in Nat /\ sent'[c] >= sent[c]
        /\ sent'[c] > sent[c] \/ (pc[c] = "putting" /\ pc'[c] = "awaiting")
        /\ \A d \in Clients \ {c} : sent'[d] = sent[d] /\ pc'[d] = pc[d]
    BY <1>1, WriterAssumption DEF Submit, PutDone, Enqueue
  <2>2. \/ accepted' = accepted
        \/ accepted' = Append(accepted, <<c, sent'[c]>>) /\ pc'[c] = "awaiting"
    BY <1>1 DEF Submit, PutDone, Enqueue, Command
  <2>3. CASE accepted' = accepted
    BY <1>1, <2>1, <2>3, WriterAssumption DEF PromiseInv, AcceptedNumbered
  <2>4. CASE accepted' = Append(accepted, <<c, sent'[c]>>) /\ pc'[c] = "awaiting"
    <3> SUFFICES ASSUME NEW i \in DOMAIN accepted', NEW d \in Clients, NEW n \in 1..MaxSubmits,
                        accepted'[i] = <<d, n>>
        PROVE  n <= sent'[d] /\ (pc'[d] = "putting" => n < sent'[d])
      BY DEF AcceptedNumbered
    <3>1. CASE i \in DOMAIN accepted
      <4>1. accepted[i] = <<d, n>>
        BY <1>1, <2>4, <3>1
      <4>2. n <= sent[d] /\ (pc[d] = "putting" => n < sent[d])
        BY <3>1, <4>1 DEF PromiseInv, AcceptedNumbered
      <4> QED
        BY <1>1, <2>1, <2>4, <4>2, WriterAssumption
    <3>2. CASE i \notin DOMAIN accepted
      <4>1. accepted'[i] = <<c, sent'[c]>>
        BY <1>1, <2>4, <3>2
      <4> QED
        BY <2>1, <2>4, <4>1
    <3> QED
      BY <3>1, <3>2
  <2> QED
    BY <2>2, <2>3, <2>4
<1>3. CASE UNCHANGED <<accepted, sent>> /\ \A c \in Clients : pc'[c] = "putting" => pc[c] = "putting"
  BY <1>3 DEF PromiseInv, AcceptedNumbered
<1>4. CASE UNCHANGED vars
  BY <1>3, <1>4 DEF vars, history
<1>5. CASE \E c \in Clients : Start(c) \/ CancelClient(c)
  BY <1>1, <1>3, <1>5 DEF Start, CancelClient, history
<1>6. CASE \E w \in DOMAIN workers : Get(w) \/ GetStale(w) \/ Finish(w)
  BY <1>1, <1>3, <1>6 DEF Get, TakeItem, GetStale, Finish, StoreCallEnds, history
<1>7. CASE LoopCloses
  BY <1>3, <1>7 DEF LoopCloses
<1>8. CASE \/ \E k \in detached : ThreadEnds(k)
           \/ BeginShutdown \/ RunsEnded \/ ShutdownEnter \/ ShutdownPut \/ ShutdownJoin
           \/ TimeLimitExpires
  <2>1. UNCHANGED <<accepted, sent, pc>>
    BY <1>8 DEF ThreadEnds, BeginShutdown, RunsEnded, ShutdownEnter, ShutdownPut, ShutdownJoin,
                TimeLimitExpires, history
  <2> QED
    BY <1>3, <2>1
<1> QED
  BY <1>2, <1>4, <1>5, <1>6, <1>7, <1>8 DEF Next

LEMMA PromiseKept == PromiseInv /\ WritingIs /\ WritingIs' /\ [Next]_vars => PromiseStep
<1> SUFFICES ASSUME PromiseInv, WritingIs, WritingIs', [Next]_vars PROVE PromiseStep
  OBVIOUS
<1>1. CASE UNCHANGED vars
  BY <1>1, PromiseRests DEF vars, taskVars, history, Pending, InHand, Queued, Writing
<1>2. ASSUME NEW c \in Clients, CancelClient(c) PROVE PromiseStep
  BY <1>2, PromiseRests DEF CancelClient, taskVars, history, Pending, InHand, Queued, Writing
<1>3. ASSUME NEW w \in DOMAIN workers, GetStale(w) PROVE PromiseStep
  <2>1. /\ workers[w].st = "waiting" /\ workers' = [workers EXCEPT ![w] = Ended("failed")]
        /\ UNCHANGED <<queue, detached>> /\ UNCHANGED history
    BY <1>3 DEF GetStale
  <2>2. Writing' = Writing
    <3>1. /\ workers'[w].st = "failed" /\ DOMAIN workers' = DOMAIN workers
          /\ \A v \in DOMAIN workers \ {w} : workers'[v] = workers[v]
      BY <2>1 DEF Ended, PromiseInv, SerialInv, TypeInv, TypeOK
    <3> QED
      BY <2>1, <3>1 DEF Writing
  <2> QED
    BY <2>1, <2>2, PromiseRests DEF Pending, InHand, Queued
<1>4. CASE BeginShutdown \/ RunsEnded \/ ShutdownJoin
  <2>1. UNCHANGED <<queue, workers, detached>> /\ UNCHANGED history
    BY <1>4 DEF BeginShutdown, RunsEnded, ShutdownJoin, taskVars, Returned, Raised
  <2> QED
    BY <2>1, PromiseRests DEF Pending, InHand, Queued, Writing
<1> QED
  BY <1>1, <1>2, <1>3, <1>4, PromiseStarts, PromiseSubmits, PromiseGets, PromiseFinishes,
     PromiseThreadEnds, PromiseStops, PromiseLimit DEF Next

\* The writer keeps the promise of OrderedWrites: whatever clients, loops, threads
\* and shutdown do, accepted commands are carried out one at a time, in order, each
\* at most once, and only what was carried out is answered.
THEOREM PromiseHolds == Spec => KeepsPromise
<1>1. Init => Promise!Init
  <2> SUFFICES ASSUME Init PROVE Promise!Init
    OBVIOUS
  <2>1. Writing = {} /\ queue = <<>>
    BY DEF Init, Writing
  <2>2. Pending = <<>>
    BY <2>1 DEF Pending, InHand, Queued
  <2> QED
    BY <2>2 DEF Init, Promise!Init
<1>2. Init => PromiseInv
  BY TypeInit
  DEF Init, PromiseInv, SerialInv, SentinelInv, OnlyConsumerLives, DetachedIsLast, NothingBehindSentinel,
      OpenHasNone, NoSentinel, PuttingIsOpen, StopperPuts, AcceptedNumbered
<1>3. PromiseInv /\ [Next]_vars => PromiseInv'
  BY SerialStep, SentinelStep, NumberedStep DEF PromiseInv
<1>4. PromiseInv => WritingIs
  BY SerialWriting DEF PromiseInv
<1>5. PromiseInv /\ PromiseInv' /\ [Next]_vars => [Promise!Next]_(Promise!vars)
  <2>1. PromiseInv' => WritingIs'
    BY <1>4, PTL
  <2> QED
    BY <1>4, <2>1, PromiseKept DEF PromiseStep
<1> QED
  BY <1>1, <1>2, <1>3, <1>5, PTL DEF Spec, KeepsPromise, Promise!Spec
=============================================================================

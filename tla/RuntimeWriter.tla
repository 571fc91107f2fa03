---------------------------- MODULE RuntimeWriter ----------------------------
(***************************************************************************)
(* The Runtime writer: coordinators and cancel handlers (clients) put      *)
(* commands into a bounded queue, one consumer task takes them out and     *)
(* runs each as a store call in a thread, and shutdown ends the consumer   *)
(* with a sentinel.  Everything runs on one event loop, so the code        *)
(* between two awaits is one action; the state lock is held across the     *)
(* await of a put into a full queue.                                       *)
(*                                                                         *)
(* The caller of shutdown is ServiceContainer.shutdown: it waits for the   *)
(* runs, lets the coordinators shut the writer down within a time limit    *)
(* and then shuts it down itself, without one.                             *)
(***************************************************************************)
EXTENDS Naturals, Sequences, FiniteSets

CONSTANTS
    Clients,      \* tasks that submit commands
    MaxQueue,     \* RuntimeWriter(max_queue_size), 1024 in production
    MaxSubmits,   \* bound of the model on the commands of a client
    MaxWorkers,   \* bound of the model on the consumer tasks ever created
    LoopMayClose, \* a test client without lifespan closes its event loop
    TimeLimit,    \* the 15 s limit around manager.shutdown may expire
    NoOne         \* nobody holds the state lock

Stopper == "container"   \* the task that runs ServiceContainer.shutdown
Stop    == <<>>          \* the sentinel None
Commands == Clients \X (1..MaxSubmits)

ASSUME WriterAssumption ==
    /\ MaxQueue \in Nat \ {0}
    /\ MaxSubmits \in Nat
    /\ MaxWorkers \in Nat \ {0}
    /\ LoopMayClose \in BOOLEAN
    /\ TimeLimit \in BOOLEAN
    /\ NoOne \notin Clients \cup {Stopper}
    /\ Stopper \notin Clients

VARIABLES
    queue,      \* self._queue
    stale,      \* the queue was created on an event loop that is closed
    lock,       \* who holds self._state_lock across an await
    accepting,  \* self._accepting
    workers,    \* state and command of each _consume task ever created
    consumer,   \* self._consumer: index into workers, 0 for None
    detached,   \* store calls whose task was cancelled but whose thread runs
    pc,         \* where each client is
    sent,       \* number of submissions of each client
    stop,       \* where ServiceContainer.shutdown is
    call,       \* who called RuntimeWriter.shutdown last
    accepted,   \* history: commands put into the queue, in order
    written,    \* history: commands the store finished, in order
    answered    \* history: commands whose future was resolved for a waiter

taskVars == <<workers, consumer, detached>>
history  == <<accepted, written, answered>>
vars == <<queue, stale, lock, accepting, taskVars, pc, sent, stop, call, history>>

-----------------------------------------------------------------------------

Full       == Len(queue) >= MaxQueue
Live(w)    == workers[w].st \in {"waiting", "busy"}
Idle       == [st |-> "waiting", cmd |-> Stop]
Ended(st)  == [st |-> st, cmd |-> Stop]
Command(c) == <<c, sent[c]>>
Writing    == {workers[w].cmd : w \in {v \in DOMAIN workers : workers[v].st = "busy"}}
                  \cup detached

Init ==
    /\ queue = <<>>
    /\ stale = FALSE
    /\ lock = NoOne
    /\ accepting = FALSE
    /\ workers = <<>>
    /\ consumer = 0
    /\ detached = {}
    /\ pc = [c \in Clients |-> "idle"]
    /\ sent = [c \in Clients |-> 0]
    /\ stop = "up"
    /\ call = "coordinator"
    /\ accepted = <<>>
    /\ written = <<>>
    /\ answered = {}

-----------------------------------------------------------------------------
(* start().  Every entry point of a run starts the writer first.  The      *)
(* manager starts no run once shutdown has passed its waiting stage.       *)

NewWorker ==
    /\ Len(workers) < MaxWorkers
    /\ accepting' = TRUE
    /\ workers' = Append(workers, Idle)
    /\ consumer' = Len(workers) + 1

\* The check of the running task is missing.
StartOverLiveConsumer(c) ==
    /\ pc[c] = "idle"
    /\ sent[c] < MaxSubmits
    /\ lock = NoOne
    /\ stop \in {"up", "manager"}
    /\ NewWorker
    /\ pc' = [pc EXCEPT ![c] = "ready"]
    /\ UNCHANGED <<queue, stale, lock, detached, sent, stop, call, history>>

Start(c) ==
    /\ pc[c] = "idle"
    /\ sent[c] < MaxSubmits
    /\ lock = NoOne
    /\ stop \in {"up", "manager"}
    /\ \/ /\ consumer # 0 /\ Live(consumer)
          /\ pc' = [pc EXCEPT ![c] = "ready"]
          /\ UNCHANGED <<queue, stale, accepting, workers, consumer>>
       \/ /\ consumer = 0
          /\ NewWorker
          /\ pc' = [pc EXCEPT ![c] = "ready"]
          /\ UNCHANGED <<queue, stale>>
       \/ /\ consumer # 0 /\ ~Live(consumer) /\ queue = <<>>
          /\ NewWorker
          /\ stale' = FALSE
          /\ pc' = [pc EXCEPT ![c] = "ready"]
          /\ UNCHANGED queue
       \* "loop closed with pending commands": raises, but has let go of the task.
       \/ /\ consumer # 0 /\ ~Live(consumer) /\ queue # <<>>
          /\ consumer' = 0
          /\ UNCHANGED <<queue, stale, accepting, workers, pc>>
    /\ UNCHANGED <<lock, detached, sent, stop, call, history>>

-----------------------------------------------------------------------------
(* _submit().                                                              *)

Enqueue(c, k) ==
    /\ queue' = Append(queue, k)
    /\ accepted' = Append(accepted, k)
    /\ pc' = [pc EXCEPT ![c] = "awaiting"]

\* The check is under the lock but the put is not.
SubmitUnlocked(c) ==
    /\ pc[c] = "ready"
    /\ lock = NoOne
    /\ sent[c] < MaxSubmits
    /\ sent' = [sent EXCEPT ![c] = @ + 1]
    /\ accepting /\ consumer # 0
    /\ pc' = [pc EXCEPT ![c] = "putting"]
    /\ UNCHANGED <<queue, stale, lock, accepting, taskVars, stop, call, history>>

Submit(c) ==
    /\ pc[c] = "ready"
    /\ lock = NoOne
    /\ sent[c] < MaxSubmits
    /\ sent' = [sent EXCEPT ![c] = @ + 1]
    /\ \/ /\ ~accepting \/ consumer = 0      \* RuntimePersistenceError
          /\ pc' = [pc EXCEPT ![c] = "idle"]
          /\ UNCHANGED <<queue, lock, accepted>>
       \/ /\ accepting /\ consumer # 0 /\ ~Full
          /\ Enqueue(c, <<c, sent[c] + 1>>)
          /\ UNCHANGED lock
       \/ /\ accepting /\ consumer # 0 /\ Full
          /\ lock' = c
          /\ pc' = [pc EXCEPT ![c] = "putting"]
          /\ UNCHANGED <<queue, accepted>>
    /\ UNCHANGED <<stale, accepting, taskVars, stop, call, written, answered>>

PutDone(c) ==
    /\ pc[c] = "putting"
    /\ ~Full
    /\ Enqueue(c, Command(c))
    /\ lock' = NoOne
    /\ UNCHANGED <<stale, accepting, taskVars, sent, stop, call, written, answered>>

\* The client's task is cancelled while it waits for the lock, for room in
\* the queue or for its result.  An accepted command stays in the queue.
CancelClient(c) ==
    /\ pc[c] \in {"ready", "putting", "awaiting"}
    /\ pc' = [pc EXCEPT ![c] = "idle"]
    /\ lock' = IF pc[c] = "putting" THEN NoOne ELSE lock
    /\ UNCHANGED <<queue, stale, accepting, taskVars, sent, stop, call, history>>

-----------------------------------------------------------------------------
(* _consume().                                                             *)

TakeItem(w, item, rest) ==
    /\ workers[w].st = "waiting"
    /\ queue # <<>>
    /\ queue' = rest
    /\ workers' = [workers EXCEPT ![w] = item]
    /\ UNCHANGED <<stale, lock, accepting, consumer, detached, pc, sent, stop, call,
                   history>>

Taken(k) == IF k = Stop THEN Ended("returned") ELSE [st |-> "busy", cmd |-> k]

\* A last-in first-out queue.
GetNewest(w) == TakeItem(w, Taken(queue[Len(queue)]), SubSeq(queue, 1, Len(queue) - 1))

\* The sentinel is passed on to the store.
GetAnything(w) == TakeItem(w, [st |-> "busy", cmd |-> Head(queue)], Tail(queue))

Get(w) == TakeItem(w, Taken(Head(queue)), Tail(queue))

\* An empty queue that has waited on a closed loop refuses to wait on another.
GetStale(w) ==
    /\ workers[w].st = "waiting"
    /\ queue = <<>>
    /\ stale
    /\ workers' = [workers EXCEPT ![w] = Ended("failed")]
    /\ UNCHANGED <<queue, stale, lock, accepting, consumer, detached, pc, sent, stop,
                   call, history>>

WaitsFor(c, k) == pc[c] = "awaiting" /\ Command(c) = k

\* The store call of w is over, w goes on as next, and resolved tells whether
\* the future is set.  A future whose waiter was cancelled is left alone.
StoreCallEnds(w, next, resolved) ==
    /\ workers[w].st = "busy"
    /\ LET k == workers[w].cmd
           waiting == {c \in Clients : resolved /\ WaitsFor(c, k)} IN
       /\ written' = Append(written, k)
       /\ pc' = [c \in Clients |-> IF c \in waiting THEN "ready" ELSE pc[c]]
       /\ answered' = IF waiting = {} THEN answered ELSE answered \cup {k}
    /\ workers' = [workers EXCEPT ![w] = next]
    /\ UNCHANGED <<queue, stale, lock, accepting, consumer, detached, sent, stop, call,
                   accepted>>

\* A store call that raises ends the consumer task.
FinishUncaught(w) ==
    \/ StoreCallEnds(w, Idle, TRUE)
    \/ StoreCallEnds(w, Ended("failed"), FALSE)

\* Whether the store call returned or raised, the caller learns of it and the
\* consumer goes on.
Finish(w) == StoreCallEnds(w, Idle, TRUE)

\* A cancelled task leaves the store call it awaits to its thread, or takes
\* it back if no thread has begun it.
CancelWorker(w) ==
    /\ workers' = [workers EXCEPT ![w] = Ended("cancelled")]
    /\ \/ workers[w].st = "busy" /\ detached' = detached \cup {workers[w].cmd}
       \/ detached' = detached

ThreadEnds(k) ==
    /\ k \in detached
    /\ detached' = detached \ {k}
    /\ written' = Append(written, k)
    /\ UNCHANGED <<queue, stale, lock, accepting, workers, consumer, pc, sent, stop,
                   call, accepted, answered>>

\* asyncio.run ends: all tasks are cancelled and running threads are joined.
LoopCloses ==
    /\ LoopMayClose
    /\ stop = "up"
    /\ consumer # 0 /\ Live(consumer)
    /\ workers' = [workers EXCEPT ![consumer] = Ended("cancelled")]
    /\ \/ written' = written
       \/ /\ workers[consumer].st = "busy"
          /\ written' = Append(written, workers[consumer].cmd)
    /\ stale' = TRUE
    /\ pc' = [c \in Clients |-> "idle"]
    /\ lock' = NoOne
    /\ UNCHANGED <<queue, accepting, consumer, detached, sent, stop, call, accepted,
                   answered>>

-----------------------------------------------------------------------------
(* ServiceContainer.shutdown: first with the manager's waiting stage and   *)
(* the coordinators' call, then with a call of its own.                    *)

BeginShutdown ==
    /\ stop = "up"
    /\ stop' = "manager"
    /\ UNCHANGED <<queue, stale, lock, accepting, taskVars, pc, sent, call, history>>

\* The runs have ended or were cancelled; without a coordinator nobody calls
\* RuntimeWriter.shutdown on the manager's behalf.
RunsEnded ==
    /\ stop = "manager"
    /\ stop' = "enter"
    /\ call' \in {"coordinator", "container"}
    /\ UNCHANGED <<queue, stale, lock, accepting, taskVars, pc, sent, history>>

Returned ==
    IF call = "coordinator"
    THEN stop' = "enter" /\ call' = "container"
    ELSE stop' = "closed" /\ UNCHANGED call

Raised ==
    IF call = "coordinator"
    THEN stop' = "enter" /\ call' = "container"
    ELSE stop' = "raised" /\ UNCHANGED call

ShutdownEnter ==
    /\ stop = "enter"
    /\ lock = NoOne
    /\ \/ consumer = 0 /\ Returned /\ UNCHANGED <<queue, lock, accepting>>
       \/ /\ consumer # 0 /\ accepting
          /\ accepting' = FALSE
          /\ \/ ~Full /\ stop' = "join" /\ queue' = Append(queue, Stop) /\ UNCHANGED lock
             \/ Full /\ stop' = "put" /\ lock' = Stopper /\ UNCHANGED queue
          /\ UNCHANGED call
       \/ /\ consumer # 0 /\ ~accepting
          /\ stop' = "join"
          /\ UNCHANGED <<queue, lock, accepting, call>>
    /\ UNCHANGED <<stale, taskVars, pc, sent, history>>

ShutdownPut ==
    /\ stop = "put"
    /\ ~Full
    /\ queue' = Append(queue, Stop)
    /\ lock' = NoOne
    /\ stop' = "join"
    /\ UNCHANGED <<stale, accepting, taskVars, pc, sent, call, history>>

\* await consumer: raises what the task raised, and then keeps the task.
ShutdownJoin ==
    /\ stop = "join"
    /\ ~Live(consumer)
    /\ \/ workers[consumer].st = "returned" /\ consumer' = 0 /\ Returned
       \/ workers[consumer].st # "returned" /\ UNCHANGED consumer /\ Raised
    /\ UNCHANGED <<queue, stale, lock, accepting, workers, detached, pc, sent, history>>

\* wait_for cancels manager.shutdown wherever it is: a join takes the
\* consumer with it, a put gives up the lock and the sentinel.
TimeLimitExpires ==
    /\ TimeLimit
    /\ stop \in {"manager", "enter", "put", "join"}
    /\ call = "coordinator"
    /\ stop' = "enter"
    /\ call' = "container"
    /\ lock' = IF stop = "put" THEN NoOne ELSE lock
    /\ \/ stop = "join" /\ Live(consumer) /\ CancelWorker(consumer)
       \/ stop = "join" /\ ~Live(consumer) /\ UNCHANGED <<workers, detached>>
       \/ stop # "join" /\ UNCHANGED <<workers, detached>>
    /\ UNCHANGED <<queue, stale, accepting, consumer, pc, sent, history>>

-----------------------------------------------------------------------------

Next ==
    \/ \E c \in Clients : Start(c) \/ Submit(c) \/ PutDone(c) \/ CancelClient(c)
    \/ \E w \in DOMAIN workers : Get(w) \/ GetStale(w) \/ Finish(w)
    \/ \E k \in detached : ThreadEnds(k)
    \/ LoopCloses
    \/ BeginShutdown \/ RunsEnded
    \/ ShutdownEnter \/ ShutdownPut \/ ShutdownJoin \/ TimeLimitExpires

Spec == Init /\ [][Next]_vars

\* Ready tasks run and store calls return (SQLite bounds its waits); the
\* state lock is first-in first-out, hence the strong fairness of those who
\* ask for it.  Clients need not call, and nothing is assumed of
\* cancellation, of the loop's end or of the time limit.
Fairness ==
    /\ \A w \in 1..MaxWorkers :
          WF_vars(w \in DOMAIN workers /\ (Get(w) \/ Finish(w)))
    /\ \A k \in Commands : WF_vars(ThreadEnds(k))
    /\ \A c \in Clients : SF_vars(Submit(c)) /\ WF_vars(PutDone(c))
    /\ SF_vars(ShutdownEnter)
    /\ WF_vars(RunsEnded) /\ WF_vars(ShutdownPut) /\ WF_vars(ShutdownJoin)

FairSpec == Spec /\ Fairness

-----------------------------------------------------------------------------
(* Properties.                                                             *)

\* The domains of the variables.  Every operation of the writer.
TypeOK ==
    /\ queue \in Seq(Commands \cup {Stop})
    /\ stale \in BOOLEAN
    /\ lock \in Clients \cup {Stopper, NoOne}
    /\ accepting \in BOOLEAN
    /\ workers \in Seq([st : {"waiting", "busy", "returned", "failed", "cancelled"},
                        cmd : Commands \cup {Stop}])
    /\ consumer \in 0..Len(workers)
    /\ detached \subseteq Commands
    /\ pc \in [Clients -> {"idle", "ready", "putting", "awaiting"}]
    /\ sent \in [Clients -> 0..MaxSubmits]
    /\ stop \in {"up", "manager", "enter", "put", "join", "closed", "raised"}
    /\ call \in {"coordinator", "container"}
    /\ accepted \in Seq(Commands)
    /\ written \in Seq(Commands)
    /\ answered \subseteq Commands

\* At most one store call of the writer is in progress, also when a consumer
\* was replaced or was cancelled with its thread still running.  start(),
\* shutdown() and the class docstring "串行化短事务写入".
OneWriteAtATime == Cardinality(Writing) <= 1

\* Nothing is queued behind the sentinel: what was accepted is never cut off
\* by shutdown.  The comment in _submit: the check and the put share the lock.
NothingBehindSentinel ==
    \A i \in DOMAIN queue : queue[i] = Stop => i = Len(queue)

\* What is accepted and not yet carried out: the command in the thread, then
\* the queue without the sentinel, which stands at its end.
InHand == IF Writing = {} THEN <<>> ELSE <<CHOOSE k \in Writing : TRUE>>
Queued ==
    IF Len(queue) > 0 /\ queue[Len(queue)] = Stop
    THEN SubSeq(queue, 1, Len(queue) - 1)
    ELSE queue
Pending == InHand \o Queued

Promise == INSTANCE OrderedWrites WITH pending <- Pending

\* The writer implements OrderedWrites: every accepted command at most once,
\* in the order of acceptance, and answers only for what was carried out.
\* _submit() and _consume() together.
KeepsPromise == Promise!Spec

\* Once the container has shut down, every accepted command was carried out.
\* ServiceContainer.shutdown and its docstring.
ClosedMeansDrained ==
    stop \in {"closed", "raised"} =>
        \A i \in DOMAIN accepted : \E j \in DOMAIN written : written[j] = accepted[i]

\* A client that waits for room or for a result does not wait for ever, also
\* across a shutdown.  _submit(), _consume() and
\* test_writer_submit_shutdown_race_never_leaves_waiter_pending.
CallersReturn ==
    \A c \in Clients :
        pc[c] \in {"putting", "awaiting"} ~> pc[c] \notin {"putting", "awaiting"}

\* A shutdown that began ends, with the queue full or not.  shutdown().
ShutdownEnds == stop = "manager" ~> stop \in {"closed", "raised"}
=============================================================================

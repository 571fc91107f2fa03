----------------------------- MODULE EventStream -----------------------------
(***************************************************************************)
(* The live feed of one run: EventHub and the SSE endpoint on top of it.   *)
(* The database is the source of truth; the hub only wakes subscribers,    *)
(* who then query the rows behind the last sequence they sent.             *)
(*                                                                         *)
(* Commits and publications happen in worker threads (the writer and the   *)
(* lease audit), deliveries are callbacks on the event loop, and a stream  *)
(* is a generator on that loop that is suspended at every yield.           *)
(***************************************************************************)
EXTENDS Naturals, Sequences, FiniteSets

CONSTANTS
    Clients,       \* browsers that follow the run
    MaxEvents,     \* bound of the model: events the run writes
    QueueSize,     \* max_queue_size of a subscription
    Batch,         \* page size of the catch-up query
    MaxConnects    \* bound of the model: connections of one client

ASSUME StreamAssumption ==
    /\ MaxEvents \in Nat /\ MaxConnects \in Nat
    /\ QueueSize \in Nat \ {0} /\ Batch \in Nat \ {0}

VARIABLES
    committed,   \* the events 1..committed are durable
    unpublished, \* committed events whose publication is still to come
    calls,       \* deliveries scheduled on the loop, by client
    open,        \* the client's subscription is not closed
    queue,       \* notifications that wait in the subscription
    pc,          \* the stream: off, query, send, live or ended
    last,        \* last_sequence of the stream
    page,        \* the events last+1..page were fetched and not sent yet
    full,        \* the fetched page had Batch rows
    received,    \* what the client got over all its connections
    connects     \* connections so far

streamVars == <<committed, unpublished, calls, open, queue, pc, last, page, full, received, connects>>
stream(c) == <<calls[c], open[c], queue[c], pc[c], last[c], page[c], full[c]>>
hub == <<committed, unpublished>>

AtMost(x, y) == IF x <= y THEN x ELSE y

-----------------------------------------------------------------------------
(* The store and the hub *)

Commit ==
    /\ committed < MaxEvents
    /\ committed' = committed + 1
    /\ unpublished' = unpublished \cup {committed + 1}
    /\ UNCHANGED <<calls, open, queue, pc, last, page, full, received, connects>>

\* publish: after the commit, by the thread that committed; two threads may
\* overtake each other.  It waits for nobody.
Publish(n) ==
    /\ n \in unpublished
    /\ unpublished' = unpublished \ {n}
    /\ calls' = [c \in Clients |-> IF open[c] THEN calls[c] + 1 ELSE calls[c]]
    /\ UNCHANGED <<committed, open, queue, pc, last, page, full, received, connects>>

\* _deliver: a full queue closes the subscription.
Deliver(c) ==
    /\ calls[c] > 0
    /\ calls' = [calls EXCEPT ![c] = @ - 1]
    /\ IF ~open[c] THEN UNCHANGED <<open, queue>>
       ELSE IF queue[c] < QueueSize
       THEN queue' = [queue EXCEPT ![c] = @ + 1] /\ UNCHANGED open
       ELSE open' = [open EXCEPT ![c] = FALSE] /\ UNCHANGED queue
    /\ UNCHANGED <<hub, pc, last, page, full, received, connects>>

-----------------------------------------------------------------------------
(* One stream *)

\* stream: subscribe first, then query; the client sends the last id it has.
\* Deliveries scheduled for its previous subscription find that one closed.
Connect(c) ==
    /\ pc[c] \in {"off", "ended"} /\ connects[c] < MaxConnects
    /\ connects' = [connects EXCEPT ![c] = @ + 1]
    /\ pc' = [pc EXCEPT ![c] = "query"]
    /\ last' = [last EXCEPT ![c] = Len(received[c])]
    /\ open' = [open EXCEPT ![c] = TRUE]
    /\ queue' = [queue EXCEPT ![c] = 0]
    /\ calls' = [calls EXCEPT ![c] = 0]
    /\ UNCHANGED <<hub, page, full, received>>

\* catch_up: one page behind last_sequence.
Query(c) ==
    /\ pc[c] = "query"
    /\ page' = [page EXCEPT ![c] = AtMost(committed, last[c] + Batch)]
    /\ full' = [full EXCEPT ![c] = committed >= last[c] + Batch]
    /\ pc' = [pc EXCEPT ![c] = "send"]
    /\ UNCHANGED <<hub, calls, open, queue, last, received, connects>>

\* The generator yields the page event by event; after a full page it asks for
\* the next one, else it waits to be woken.
Send(c) ==
    /\ pc[c] = "send"
    /\ IF last[c] < page[c]
       THEN /\ last' = [last EXCEPT ![c] = @ + 1]
            /\ received' = [received EXCEPT ![c] = Append(@, last[c] + 1)]
            /\ UNCHANGED pc
       ELSE /\ pc' = [pc EXCEPT ![c] = IF full[c] THEN "query" ELSE "live"]
            /\ UNCHANGED <<last, received>>
    /\ UNCHANGED <<hub, calls, open, queue, page, full, connects>>

\* Mutant: the notification is taken and nothing is fetched.
WakeWithoutQuery(c) ==
    /\ pc[c] = "live" /\ queue[c] > 0
    /\ queue' = [queue EXCEPT ![c] = @ - 1]
    /\ UNCHANGED <<hub, calls, open, pc, last, page, full, received, connects>>

\* EventSubscription.get: what is queued is taken even from a closed subscription.
\* (A heartbeat that times out sends a comment and changes nothing.)
Wake(c) ==
    /\ pc[c] = "live" /\ queue[c] > 0
    /\ queue' = [queue EXCEPT ![c] = @ - 1]
    /\ pc' = [pc EXCEPT ![c] = "query"]
    /\ UNCHANGED <<hub, calls, open, last, page, full, received, connects>>

\* Mutant: a closed subscription waits for ever.
OverflowUnnoticed(c) == FALSE

\* EventHubOverflow ends the stream; the client may connect again.
Overflow(c) ==
    /\ pc[c] = "live" /\ queue[c] = 0 /\ ~open[c]
    /\ pc' = [pc EXCEPT ![c] = "ended"]
    /\ UNCHANGED <<hub, calls, open, queue, last, page, full, received, connects>>

\* The client goes away; the finally clause unsubscribes.
Disconnect(c) ==
    /\ pc[c] \in {"query", "send", "live"}
    /\ pc' = [pc EXCEPT ![c] = "off"]
    /\ open' = [open EXCEPT ![c] = FALSE]
    /\ UNCHANGED <<hub, calls, queue, last, page, full, received, connects>>

-----------------------------------------------------------------------------
StreamInit ==
    /\ committed = 0 /\ unpublished = {}
    /\ calls = [c \in Clients |-> 0]
    /\ open = [c \in Clients |-> FALSE]
    /\ queue = [c \in Clients |-> 0]
    /\ pc = [c \in Clients |-> "off"]
    /\ last = [c \in Clients |-> 0]
    /\ page = [c \in Clients |-> 0]
    /\ full = [c \in Clients |-> FALSE]
    /\ received = [c \in Clients |-> <<>>]
    /\ connects = [c \in Clients |-> 0]

StreamStep(c) == Query(c) \/ Send(c) \/ Wake(c) \/ Overflow(c)

StreamNext ==
    \/ Commit
    \/ \E n \in unpublished : Publish(n)
    \/ \E c \in Clients : Deliver(c) \/ Connect(c) \/ StreamStep(c) \/ Disconnect(c)

\* Threads that committed go on to publish, the loop runs its callbacks, and a
\* client that stays connected reads.
StreamFairness ==
    /\ WF_streamVars(\E n \in unpublished : Publish(n))
    /\ \A c \in Clients : WF_streamVars(Deliver(c)) /\ WF_streamVars(StreamStep(c))

StreamSpec == StreamInit /\ [][StreamNext]_streamVars /\ StreamFairness

-----------------------------------------------------------------------------
(* Properties *)

\* Every variable stays in its domain, and the hub never exceeds its bound.
StreamTypeOK ==
    /\ committed \in 0..MaxEvents /\ unpublished \subseteq 1..committed
    /\ \A c \in Clients :
         /\ calls[c] \in 0..MaxEvents /\ open[c] \in BOOLEAN /\ full[c] \in BOOLEAN
         /\ queue[c] \in 0..QueueSize
         /\ pc[c] \in {"off", "query", "send", "live", "ended"}
         /\ last[c] \in 0..committed /\ page[c] \in 0..committed
         /\ received[c] \in Seq(1..committed)

\* Over all its connections a client sees the events of the log, each once and in
\* order, whatever the order of commits, publications and queries (stream,
\* catch_up, Last-Event-ID).
InOrderOnce == \A c \in Clients : \A i \in DOMAIN received[c] : received[c][i] = i

\* A client that stays connected gets every committed event, or its stream ends so
\* that it knows it has to connect again (subscribe before catch_up, _deliver).
Following(c) == pc[c] \in {"query", "send", "live"}
NothingIsMissed ==
    \A c \in Clients : \A n \in 1..MaxEvents :
        (committed >= n /\ Following(c)) ~> (Len(received[c]) >= n \/ ~Following(c))

\* A stream that waits in the live loop without anything on its way to wake it has
\* sent everything (get, publish).
WaitingIsUpToDate ==
    \A c \in Clients :
        pc[c] = "live" /\ open[c] /\ queue[c] = 0 /\ calls[c] = 0 /\ unpublished = {}
            => last[c] = committed

\* Streams deliver the log from its beginning, in order, each event once, and wait
\* only when they are up to date (stream, catch_up, _deliver).
StreamConsistent == StreamTypeOK /\ InOrderOnce /\ WaitingIsUpToDate
=============================================================================

-------------------------- MODULE MCRuntimeWriter --------------------------
(* Instances of RuntimeWriter for TLC. *)
EXTENDS RuntimeWriter

\* What a behaviour may contain: replaced consumers, loops that close and a time
\* limit that expires, or more clients than the queue has room for and an orderly
\* shutdown.  One run of TLC explores both without their product.
VARIABLE scope

Pair == CHOOSE S \in SUBSET Clients : Cardinality(S) = 2

MCInit == Init /\ scope \in {"faults", "orderly"}
MCNext ==
    /\ Next /\ UNCHANGED scope
    /\ scope = "faults" => \A c \in Clients \ Pair : sent'[c] = 0 /\ pc'[c] = "idle"
    /\ scope = "orderly" => /\ \A c \in Clients : sent'[c] <= 1
                            /\ Len(workers') <= 1
                            /\ ~LoopCloses /\ ~TimeLimitExpires
MCSpec == MCInit /\ [][MCNext]_<<vars, scope>> /\ Fairness

\* An orderly shutdown drains the queue, full or not, answers every caller and ends
\* (shutdown, _consume, _submit).
OrderlyShutdown ==
    /\ [](scope = "orderly" => ClosedMeansDrained)
    /\ scope = "orderly" => CallersReturn
    /\ scope = "orderly" => ShutdownEnds
=============================================================================

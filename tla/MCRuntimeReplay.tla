--------------------------- MODULE MCRuntimeReplay ---------------------------
(* RuntimeCoordinator and RuntimeReplay on small instances. *)
EXTENDS RuntimeReplay

\* What a behaviour may contain: crashes and open work, or a user who cancels, a
\* shutdown and a database error.  One run explores both without their product.
VARIABLE scope

MCInit == Init /\ scope \in {"crash", "cancel"}
MCNext ==
    /\ Next /\ UNCHANGED scope
    /\ scope = "crash" => ~asked' /\ faults' = 0 /\ worker'.why # "stopped"
    /\ scope = "cancel" => crashes' + work' = 0
MCSpec == MCInit /\ [][MCNext]_<<vars, scope>> /\ Fairness
=============================================================================

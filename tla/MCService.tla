------------------------------ MODULE MCService ------------------------------
(***************************************************************************)
(* The parts of the service process that share no state, side by side: the *)
(* scheduler and the live feed.  Their steps commute, so one run of TLC    *)
(* lets the initial state choose the part that moves instead of exploring  *)
(* the product.                                                            *)
(***************************************************************************)
EXTENDS RuntimeManager, EventStream

\* The part that moves: the manager, streams of two clients, or one client that
\* loses its connection.
VARIABLE scope

OneClient == CHOOSE c \in Clients : TRUE

MCInit == ManagerInit /\ StreamInit /\ scope \in {"manager", "clients", "reconnect"}
MCNext ==
    /\ UNCHANGED scope
    /\ \/ scope = "manager" /\ ManagerNext /\ UNCHANGED streamVars
       \/ /\ scope = "clients" /\ StreamNext /\ UNCHANGED managerVars
          /\ committed' <= 2 /\ \A c \in Clients : connects'[c] <= 1
       \/ /\ scope = "reconnect" /\ StreamNext /\ UNCHANGED managerVars
          /\ \A c \in Clients \ {OneClient} : connects'[c] = 0
MCSpec == MCInit /\ [][MCNext]_<<managerVars, streamVars, scope>> /\ ManagerFairness /\ StreamFairness
=============================================================================

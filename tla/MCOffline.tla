------------------------------- MODULE MCOffline -------------------------------
(***************************************************************************)
(* The offline tools.  The initial state chooses what moves: the commands  *)
(* of a RCAEval pair, side by side or one after the other over two epochs, *)
(* or an OpenRCA run, with its evaluation and gates or with two strategies *)
(* and their locators.  Both parts share no variable.                      *)
(***************************************************************************)
EXTENDS PairLedger, BenchmarkBundle

VARIABLE scope

OneProc == CHOOSE p \in LedgerProcs : \A q \in LedgerProcs : p <= q

\* Cases that went wrong so far; bounds how many do.
Flawed == {<<s, c>> \in Strategies \X (1..Cases) :
             /\ c <= Len(outcomes[s])
             /\ outcomes[s][c] # [completed |-> TRUE, proj |-> "ok", bad |-> 0, known |-> TRUE]}

MCInit ==
    /\ LedgerInit /\ BundleInit
    /\ scope \in {"together", "epochs", "directory", "strategies"}
    /\ (scope = "strategies") = (mode # "deterministic")
MCNext ==
    /\ UNCHANGED scope
    /\ \/ /\ scope \in {"together", "epochs"} /\ LedgerNext /\ UNCHANGED bundleVars
       \/ /\ scope \in {"directory", "strategies"} /\ BundleNext /\ UNCHANGED ledgerVars
    /\ scope = "together" => launched' <= 3 /\ crashes' = 0
    /\ scope = "epochs" => \A p \in LedgerProcs \ {OneProc} : proc'[p].step = "idle"
    /\ scope = "directory" => Cardinality(Flawed') <= 1 /\ \E d \in Dirs : eval'[d].step = "idle"
    /\ scope = "strategies" =>
         Cardinality(Flawed') <= 2 /\ UNCHANGED eval /\ (RunOver => UNCHANGED bundle)
MCSpec == MCInit /\ [][MCNext]_<<ledgerVars, bundleVars, scope>> /\ LedgerFairness
=============================================================================

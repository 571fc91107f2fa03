----------------------------- MODULE MCExecution -----------------------------
(***************************************************************************)
(* Model calls and tool calls of a round.  The two share no variable: the  *)
(* initial state chooses which part moves, the model calls with their      *)
(* budget, the queries of two sessions with one fault, or of one session   *)
(* with two.                                                               *)
(***************************************************************************)
EXTENDS ModelCalls, ToolSession

VARIABLE scope

OneSession == CHOOSE s \in Sessions : TRUE

MCInit ==
    /\ ToolInit
    /\ \/ scope = "models" /\ BudgetInit
       \/ scope \in {"parallel", "faults"} /\ BudgetAt("committed")

MCNext ==
    /\ UNCHANGED scope
    /\ \/ scope = "models" /\ BudgetNext /\ UNCHANGED toolVars
       \/ /\ scope = "parallel" /\ ToolNext /\ UNCHANGED budgetVars
          /\ toolFaults' <= 1 /\ \A s \in Sessions \ {OneSession} : session'[s].asked <= 1
       \/ /\ scope = "faults" /\ ToolNext /\ UNCHANGED budgetVars
          /\ \A s \in Sessions \ {OneSession} : session'[s].asked = 0

MCSpec == MCInit /\ [][MCNext]_<<budgetVars, toolVars, scope>> /\ BudgetFairness /\ ToolFairness

\* A round comes to rest: no model call and no query waits for ever for a budget, a
\* lock, a slot or a write.
RoundSettles == CallsEnd /\ QueriesSettle
=============================================================================

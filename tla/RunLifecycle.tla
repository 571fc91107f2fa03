---------------------------- MODULE RunLifecycle ----------------------------
(***************************************************************************)
(* What a client of the API may rely on about ONE run: the transition      *)
(* table of domain/runtime.py, phases that are checkpointed one at a time  *)
(* and in order, and the promise that a run never stays in the hands of    *)
(* the machinery: whatever happens to its worker, it comes to rest.        *)
(***************************************************************************)
EXTENDS Naturals

CONSTANT NPhases   \* number of phases of the execution profile

VARIABLES
    runStatus,     \* RuntimeRun.status
    done           \* number of phases with a checkpoint

vars == <<runStatus, done>>

Held == {"running", "cancelling"}

Init == runStatus = "created" /\ done = 0

\* A phase that was on its way when the user cancelled may still be recorded.
CommitPhase == runStatus \in Held /\ done < NPhases /\ done' = done + 1 /\ UNCHANGED runStatus

Move(from, to) == runStatus = from /\ runStatus' = to /\ UNCHANGED done

Complete == done = NPhases /\ Move("running", "completed")
Interrupt == Move("running", "interrupted") \/ Move("cancelling", "interrupted")

Next ==
    \/ CommitPhase
    \/ Move("created", "running")
    \/ Move("created", "cancelled")
    \/ Move("running", "cancelling")
    \/ Move("running", "failed")
    \/ Move("cancelling", "cancelled")
    \/ Move("interrupted", "running")
    \/ Complete
    \/ Interrupt

\* The run leaves the machinery: a terminal status or interrupted.
Settle ==
    \/ Complete \/ Interrupt
    \/ Move("running", "failed") \/ Move("cancelling", "cancelled")

Spec == Init /\ [][Next]_vars /\ WF_vars(Settle)
=============================================================================

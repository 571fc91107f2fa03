---------------------------- MODULE OrderedWrites ----------------------------
(***************************************************************************)
(* What the Runtime writer promises its callers: commands are carried out  *)
(* one at a time, in the order in which they were accepted, each at most   *)
(* once, and a caller gets an answer only for a command that was carried   *)
(* out.  A command may be lost only while it is the one being handed over: *)
(* its task is cancelled before a thread picked it up.                     *)
(***************************************************************************)
EXTENDS Sequences

CONSTANT Commands

VARIABLES
    accepted,  \* commands in the order in which they were accepted
    pending,   \* accepted and neither written nor lost
    written,   \* commands in the order in which the store finished them
    answered   \* commands whose result reached the caller

vars == <<accepted, pending, written, answered>>

Among(k, s) == \E i \in DOMAIN s : s[i] = k

Init ==
    /\ accepted = <<>>
    /\ pending = <<>>
    /\ written = <<>>
    /\ answered = {}

Accept(k) ==
    /\ ~Among(k, accepted)
    /\ accepted' = Append(accepted, k)
    /\ pending' = Append(pending, k)
    /\ UNCHANGED <<written, answered>>

\* The caller may have gone away: then nobody is answered.
Write ==
    /\ pending # <<>>
    /\ pending' = Tail(pending)
    /\ written' = Append(written, Head(pending))
    /\ answered' \in {answered, answered \cup {Head(pending)}}
    /\ UNCHANGED accepted

Lose ==
    /\ pending # <<>>
    /\ pending' = Tail(pending)
    /\ UNCHANGED <<accepted, written, answered>>

Next ==
    \/ \E k \in Commands : Accept(k)
    \/ Write
    \/ Lose

Spec == Init /\ [][Next]_vars
=============================================================================

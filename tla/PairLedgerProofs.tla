--------------------------- MODULE PairLedgerProofs ---------------------------
(***************************************************************************)
(* Proofs about PairLedger, for any number of commands, sides, tokens and  *)
(* crashes, with commits that tear and evaluators that outlive their       *)
(* command: the labels of a pair are read by one evaluation ever, and what *)
(* it scores is what was frozen.                                           *)
(*                                                                         *)
(* The labels: `revealed' never returns to FALSE, the way to a label read  *)
(* leads through the transaction that sets it, and that transaction wants  *)
(* it FALSE.  So one process at most is ever on that way, and once it has  *)
(* read, none.                                                             *)
(*                                                                         *)
(* The scores: a set whose labels are open is never bound anew, so what    *)
(* the child saw at its fence is what the row still names when its command *)
(* writes the score.  A side that is started has the lease of the row for  *)
(* its directory; and in the first epoch every marked set is the one the   *)
(* sides wrote, as no side changes once the pair is frozen.                *)
(***************************************************************************)
EXTENDS PairLedger, Integers, FiniteSetTheorems, TLAPS

-----------------------------------------------------------------------------
(* Typing *)

AnySet  == [Sides -> Int]
RowRec  == [state: LedgerStates, set: AnySet, lineage: AnySet, bound: BOOLEAN, freeze: AnySet,
            revealed: BOOLEAN, kind: {"none", "prediction", "prelabel", "label_open"}, token: Int,
            over: BOOLEAN, side: SUBSET Sides, scored: AnySet, epoch: Nat]
SideRec == [status: {"none", "started", "completed", "invalidated"}, dir: Int, bundle: Int]
ProcRec == [step: Steps \cup {"orphan"}, role: {"none", "predict", "freeze", "evaluate", "recover"},
            side: SUBSET Sides, owner: OwnerTokens \cup {0}, lease: Int, id: Int, set: AnySet,
            seen: AnySet, child: {"none", "runs", "good", "bad", "fenced"}, unlink: BOOLEAN]
NextRec == [step: Steps \cup {"orphan"}, lease: Int, spawn: BOOLEAN, unlink: BOOLEAN]
TxRec   == [by: {{p} : p \in LedgerProcs}, row: RowRec, sides: [Sides -> SideRec],
            used: SUBSET (OwnerTokens \cup {0}), next: NextRec]

LedgerTyped ==
    /\ row \in RowRec /\ sides \in [Sides -> SideRec]
    /\ usedTokens \subseteq OwnerTokens \cup {0}
    /\ tx = NoTx \/ tx \in TxRec
    /\ proc \in [LedgerProcs -> ProcRec]
    /\ markers \subseteq AnySet /\ launched \in Nat

-----------------------------------------------------------------------------
(* The inductive invariant *)

\* The way to the labels, and the commands that make predictions.
EarlySteps   == {"reauthorize", "snapshot", "reinit", "rebind", "reserve", "open", "openbeat"}
PredictSteps == {"init", "start", "beat", "look"}

\* A process that may still read the labels: it has opened them and its child is
\* not started, runs, or has passed the fence.
MayRead(k) ==
    k.step = "openbeat" \/ k.child = "fenced" \/ (k.child = "runs" /\ k.role = "evaluate")

\* An evaluation has no child before its labels are open; a prediction is none.
InPlace(k) ==
    /\ k.step \in EarlySteps => k.child = "none"
    /\ k.step \in PredictSteps => k.role # "evaluate"
    /\ k.step = "idle" => k.child = "none"

\* What process p may commit as row r, going on as `next': it hides no labels, and
\* it goes to the labels only by revealing them.
MayCommit(p, r, next) ==
    /\ row.revealed => r.revealed
    /\ r.state = "absent" => ~r.revealed
    /\ next.step = "openbeat" => proc[p].step = "openbeat" \/ (~row.revealed /\ r.revealed)
    /\ next.spawn => proc[p].step = "openbeat" /\ next.step \notin EarlySteps
    /\ next.step \in EarlySteps => proc[p].child = "none"
    /\ next.step \in PredictSteps => proc[p].role # "evaluate"

\* Steps and children that hold the writer lock.
MayWrite(k) ==
    \/ k.step \in Reading \cup Writing \cup {"running"}
    \/ k.child = "runs" /\ k.role = "evaluate"

TxSound ==
    \A p \in LedgerProcs : tx # NoTx /\ tx.by = {p} =>
        MayCommit(p, tx.row, tx.next) /\ MayWrite(proc[p])

OneReader ==
    \A p, q \in LedgerProcs : MayRead(proc[p]) /\ MayRead(proc[q]) => p = q

Revealed ==
    /\ \A p \in LedgerProcs : MayRead(proc[p]) => row.revealed
    /\ labelReads # {} => row.revealed
    /\ row.state = "absent" => ~row.revealed

\* There is one read at most, and after it nobody is on the way to another.
OneRead ==
    /\ labelReads = {} \/ \E x : labelReads = {x}
    /\ labelReads # {} => \A p \in LedgerProcs : ~MayRead(proc[p])

LabelInv ==
    /\ LedgerTyped
    /\ \A p \in LedgerProcs : InPlace(proc[p])
    /\ TxSound /\ OneReader /\ Revealed /\ OneRead

-----------------------------------------------------------------------------
(* Kinds of steps *)

\* A step that changes none of what the invariant is about.
LEMMA LabelFrame ==
    ASSUME LabelInv, UNCHANGED <<row, sides, usedTokens, tx, proc, labelReads>>,
           markers' \subseteq AnySet, launched' \in Nat
    PROVE  LabelInv'
BY DEF LabelInv, LedgerTyped, InPlace, TxSound, OneReader, Revealed, OneRead, MayCommit

\* A process moves, and not towards the labels.  One that holds the lock still
\* holds it, and can still commit what it sealed.
LEMMA LabelMove ==
    ASSUME LabelInv, NEW p \in LedgerProcs, NEW k \in ProcRec,
           proc' = [proc EXCEPT ![p] = k],
           tx # NoTx /\ tx.by = {p} =>
              /\ proc[p].step = "openbeat" => k.step = "openbeat"
              /\ proc[p].child = "none" => k.child = "none"
              /\ k.role = proc[p].role /\ MayWrite(k),
           InPlace(k), MayRead(k) => MayRead(proc[p]),
           UNCHANGED <<row, sides, usedTokens, tx, labelReads>>,
           markers' \subseteq AnySet, launched' \in Nat
    PROVE  LabelInv'
<1>1. /\ proc' \in [LedgerProcs -> ProcRec] /\ proc'[p] = k
      /\ \A q \in LedgerProcs : q # p => proc'[q] = proc[q]
  BY DEF LabelInv, LedgerTyped
<1>2. LedgerTyped'
  BY <1>1 DEF LabelInv, LedgerTyped
<1>3. \A q \in LedgerProcs : InPlace(proc'[q])
  BY <1>1 DEF LabelInv
<1>4. \A q \in LedgerProcs : MayRead(proc'[q]) => MayRead(proc[q])
  BY <1>1
<1>5. OneReader' /\ Revealed' /\ OneRead'
  BY <1>4 DEF LabelInv, OneReader, Revealed, OneRead
<1>6. TxSound'
  <2> SUFFICES ASSUME NEW q \in LedgerProcs, tx # NoTx, tx.by = {q}
               PROVE  MayCommit(q, tx.row, tx.next)' /\ MayWrite(proc'[q])
    BY DEF TxSound
  <2>1. CASE q # p
    BY <1>1, <2>1 DEF LabelInv, TxSound, MayCommit
  <2>2. CASE q = p
    <3>1. MayCommit(p, tx.row, tx.next)
      BY <2>2 DEF LabelInv, TxSound
    <3> QED
      BY <1>1, <2>2, <3>1 DEF MayCommit
  <2> QED
    BY <2>1, <2>2
<1>7. \A q \in LedgerProcs : InPlace(proc[q])'
  BY <1>3 DEF InPlace
<1> QED
  BY <1>2, <1>5, <1>6, <1>7 DEF LabelInv

\* A process takes the lock and seals what it will commit.
LEMMA LabelSeal ==
    ASSUME LabelInv, NEW p \in LedgerProcs, tx = NoTx,
           NEW r \in RowRec, NEW sd \in [Sides -> SideRec],
           NEW used \in SUBSET (OwnerTokens \cup {0}), NEW next \in NextRec,
           MayCommit(p, r, next), MayWrite(proc[p]),
           Seals(p, r, sd, used, next)
    PROVE  LabelInv'
<1>1. /\ tx' = [by |-> {p}, row |-> r, sides |-> sd, used |-> used, next |-> next]
      /\ UNCHANGED <<row, sides, usedTokens, proc, markers, launched, labelReads>>
  BY DEF Seals, RestOfLedger
<1>2. tx' \in TxRec
  BY <1>1 DEF TxRec
<1>3. LedgerTyped'
  BY <1>1, <1>2 DEF LabelInv, LedgerTyped
<1>4. tx'.row = r /\ tx'.next = next /\ \A q : tx'.by = {q} => q = p
  BY <1>1
<1>5. TxSound'
  BY <1>1, <1>4 DEF TxSound, MayCommit
<1> QED
  BY <1>1, <1>3, <1>5 DEF LabelInv, InPlace, OneReader, Revealed, OneRead

\* An error ends the process, or sends it to invalidate the pair.
LEMMA LabelRaised ==
    ASSUME LabelInv, NEW p \in LedgerProcs, tx = NoTx \/ tx.by # {p}, Raised(p),
           UNCHANGED <<row, sides, usedTokens, tx, markers, launched, labelReads>>
    PROVE  LabelInv'
<1>1. Unlaunched \in ProcRec /\ InPlace(Unlaunched) /\ ~MayRead(Unlaunched)
  <2>1. 0 \in Int /\ Pair \in AnySet
    BY DEF Pair, AnySet
  <2>2. Unlaunched \in ProcRec
    BY <2>1 DEF Unlaunched, ProcRec, Steps
  <2>3. InPlace(Unlaunched) /\ ~MayRead(Unlaunched)
    BY DEF Unlaunched, InPlace, MayRead, EarlySteps, PredictSteps
  <2> QED
    BY <2>2, <2>3
<1>2. proc[p] \in ProcRec /\ markers \subseteq AnySet /\ launched \in Nat
  BY DEF LabelInv, LedgerTyped
<1>3. CASE Ends(p)
  BY <1>1, <1>2, <1>3, LabelMove DEF Ends
<1>4. CASE Goes(p, "invalidate")
  <2> DEFINE k == [proc[p] EXCEPT !.step = "invalidate"]
  <2>1. k \in ProcRec
    BY <1>2 DEF ProcRec, Steps, Writing
  <2>2. InPlace(k) /\ (MayRead(k) => MayRead(proc[p]))
    BY <1>2 DEF ProcRec, InPlace, MayRead, EarlySteps, PredictSteps
  <2>3. proc' = [proc EXCEPT ![p] = k]
    BY <1>4 DEF Goes
  <2> HIDE DEF k
  <2> QED
    BY <1>2, <2>1, <2>2, <2>3, LabelMove
<1> QED
  BY <1>3, <1>4 DEF Raised

\* An operation that writes keeps the invariant when what it seals may be committed.
LEMMA LabelOperation ==
    ASSUME LabelInv, NEW p \in LedgerProcs, NEW step \in Writing \cup {"running"}, NEW ok,
           NEW r, NEW sd, NEW next,
           row.state # "absent" /\ ok =>
              r \in RowRec /\ sd \in [Sides -> SideRec] /\ next \in NextRec /\ MayCommit(p, r, next),
           Operation(p, step, ok, r, sd, next)
    PROVE  LabelInv'
<1>1. proc[p].step = step /\ tx = NoTx /\ MayWrite(proc[p])
  BY DEF Operation, Connected, MayWrite
<1>2. CASE row.state # "absent" /\ ok
  <2>1. Seals(p, r, sd, usedTokens, next) /\ usedTokens \in SUBSET (OwnerTokens \cup {0})
    BY <1>2 DEF Operation, LabelInv, LedgerTyped
  <2> QED
    BY <1>1, <1>2, <2>1, LabelSeal
<1>3. CASE ~(row.state # "absent" /\ ok)
  <2>1. Raises(p)
    BY <1>3 DEF Operation
  <2> QED
    BY <1>1, <2>1, LabelRaised DEF Raises, RestOfLedger
<1> QED
  BY <1>2, <1>3

-----------------------------------------------------------------------------
(* The operations *)

\* What a step uses of the types.
LEMMA LedgerTypes ==
    ASSUME LabelInv, NEW p \in LedgerProcs
    PROVE  /\ proc[p] \in ProcRec /\ InPlace(proc[p])
           /\ row \in RowRec /\ sides \in [Sides -> SideRec]
           /\ usedTokens \in SUBSET (OwnerTokens \cup {0})
           /\ markers \subseteq AnySet /\ launched \in Nat
           /\ row.state = "absent" => ~row.revealed
BY DEF LabelInv, LedgerTyped, Revealed

LEMMA LedgerNexts ==
    ASSUME LabelInv, NEW p \in LedgerProcs, NEW step \in Steps \cup {"orphan"}, NEW token \in Int
    PROVE  /\ To(p, step) \in NextRec /\ WithLease(p, step, token) \in NextRec
           /\ To(p, step).step = step /\ ~To(p, step).spawn
           /\ WithLease(p, step, token).step = step /\ ~WithLease(p, step, token).spawn
           /\ [To(p, step) EXCEPT !.unlink = TRUE] \in NextRec
           /\ [To(p, step) EXCEPT !.unlink = TRUE].step = step
           /\ ~[To(p, step) EXCEPT !.unlink = TRUE].spawn
<1>1. proc[p].lease \in Int
  BY LedgerTypes DEF ProcRec
<1> QED
  BY <1>1 DEF To, WithLease, NextRec

\* The fresh row and the failed row.
LEMMA FreshTyped ==
    ASSUME NEW state \in LedgerStates, NEW set \in AnySet, NEW epoch \in Nat
    PROVE  /\ FreshRow(state, set, epoch) \in RowRec /\ NoSides \in [Sides -> SideRec]
           /\ ~FreshRow(state, set, epoch).revealed /\ FreshRow(state, set, epoch).state = state
<1>1. 0 \in Int /\ Pair \in AnySet
  BY DEF Pair, AnySet
<1>2. NoSides \in [Sides -> SideRec]
  BY <1>1 DEF NoSides, SideRec
<1> QED
  BY <1>1, <1>2 DEF FreshRow, RowRec

LEMMA FailedTyped ==
    ASSUME LabelInv
    PROVE  /\ FailedRow(row) \in RowRec /\ FailedSides(sides) \in [Sides -> SideRec]
           /\ FailedRow(row).revealed = row.revealed /\ FailedRow(row).state = "failed"
<1>1. row \in RowRec /\ sides \in [Sides -> SideRec]
  BY DEF LabelInv, LedgerTyped
<1>2. FailedSides(sides) \in [Sides -> SideRec]
  <2> SUFFICES ASSUME NEW s \in Sides
               PROVE  (IF sides[s].status = "none" THEN sides[s]
                       ELSE [sides[s] EXCEPT !.status = "invalidated"]) \in SideRec
    BY DEF FailedSides
  <2>1. sides[s] \in SideRec
    BY <1>1
  <2> QED
    BY <2>1 DEF SideRec
<1>3. 0 \in Int /\ "failed" \in LedgerStates /\ {} \in SUBSET Sides
  BY DEF LedgerStates
<1> QED
  BY <1>1, <1>2, <1>3 DEF FailedRow, RowRec

\* The pair starts again only with its labels hidden.
LEMMA LabelReauthorize ==
    ASSUME LabelInv, NEW p \in LedgerProcs, Reauthorize(p)
    PROVE  LabelInv'
<1>1. proc[p].step = "reauthorize" /\ tx = NoTx /\ proc[p] \in ProcRec /\ row \in RowRec
  BY LedgerTypes DEF Reauthorize, Connected
<1>2. CASE Raises(p)
  BY <1>1, <1>2, LabelRaised DEF Raises, RestOfLedger
<1>3. CASE ~Raises(p)
  <2> DEFINE r    == FreshRow("new", proc[p].set, row.epoch + 1)
             to   == IF proc[p].role = "predict" THEN "init" ELSE "snapshot"
             used == usedTokens \cup {proc[p].owner}
  <2>1. ~row.revealed /\ Seals(p, r, NoSides, used, To(p, to))
    BY <1>3 DEF Reauthorize
  <2>2. proc[p].set \in AnySet /\ row.epoch + 1 \in Nat /\ "new" \in LedgerStates
    BY <1>1 DEF ProcRec, RowRec, LedgerStates
  <2>3. r \in RowRec /\ NoSides \in [Sides -> SideRec] /\ ~r.revealed /\ r.state = "new"
    BY <2>2, FreshTyped
  <2>4. used \in SUBSET (OwnerTokens \cup {0})
    BY <1>1, LedgerTypes DEF ProcRec
  <2>5. to \in Steps /\ proc[p].child = "none"
    BY <1>1, LedgerTypes DEF InPlace, EarlySteps, Steps, Writing, Reading
  <2>6. To(p, to) \in NextRec /\ To(p, to).step = to /\ ~To(p, to).spawn
    BY <2>5, 0 \in Int, LedgerNexts
  <2> HIDE DEF r, used
  <2>7. MayCommit(p, r, To(p, to))
    BY <2>1, <2>3, <2>5, <2>6 DEF MayCommit, PredictSteps
  <2> HIDE DEF to
  <2> QED
    BY <1>1, <2>1, <2>3, <2>4, <2>6, <2>7, LabelSeal DEF MayWrite, Writing
<1> QED
  BY <1>2, <1>3

LEMMA LabelInitialize ==
    ASSUME LabelInv, NEW p \in LedgerProcs, Initialize(p)
    PROVE  LabelInv'
<1>1. proc[p].step = "init" /\ tx = NoTx /\ MayWrite(proc[p])
  BY DEF Initialize, Connected, MayWrite, Writing
<1>2. proc[p].role # "evaluate"
  BY <1>1, LedgerTypes DEF InPlace, PredictSteps
<1>3. To(p, "start") \in NextRec /\ To(p, "start").step = "start" /\ ~To(p, "start").spawn
  BY 0 \in Int, LedgerNexts DEF Steps, Writing
<1>4. CASE Raises(p)
  BY <1>1, <1>4, LabelRaised DEF Raises, RestOfLedger
<1>5. CASE row.state = "absent" /\ Seals(p, FreshRow("new", Pair, 0), NoSides, {}, To(p, "start"))
  <2>1. Pair \in AnySet /\ "new" \in LedgerStates
    BY DEF Pair, AnySet, LedgerStates
  <2>2. /\ FreshRow("new", Pair, 0) \in RowRec /\ NoSides \in [Sides -> SideRec]
        /\ ~FreshRow("new", Pair, 0).revealed
    BY <2>1, FreshTyped
  <2>3. MayCommit(p, FreshRow("new", Pair, 0), To(p, "start"))
    BY <1>2, <1>3, <1>5, <2>2, LedgerTypes DEF MayCommit, EarlySteps
  <2> QED
    BY <1>1, <1>3, <1>5, <2>2, <2>3, LabelSeal
<1>6. CASE Seals(p, row, sides, usedTokens, To(p, "start"))
  <2>1. MayCommit(p, row, To(p, "start"))
    BY <1>2, <1>3, LedgerTypes DEF MayCommit, EarlySteps
  <2> QED
    BY <1>1, <1>3, <1>6, <2>1, LedgerTypes, LabelSeal
<1> QED
  BY <1>4, <1>5, <1>6 DEF Initialize

\* An operation that neither hides nor opens labels and goes on as its step may.
LEMMA LabelOrdinary ==
    ASSUME LabelInv, NEW p \in LedgerProcs, NEW step \in Writing \cup {"running"}, NEW ok,
           NEW r, NEW sd, NEW next,
           Operation(p, step, ok, r, sd, next),
           row.state # "absent" => r \in RowRec /\ sd \in [Sides -> SideRec],
           row.state # "absent" => r.revealed = row.revealed /\ r.state # "absent",
           next \in NextRec, ~next.spawn, next.step # "openbeat",
           next.step \in EarlySteps => step \in EarlySteps,
           next.step \in PredictSteps => step \in PredictSteps
    PROVE  LabelInv'
<1>1. proc[p].step = step /\ InPlace(proc[p])
  BY LedgerTypes DEF Operation, Connected
<1>2. row.state # "absent" => MayCommit(p, r, next)
  BY <1>1 DEF MayCommit, InPlace
<1> QED
  BY <1>2, LabelOperation

LEMMA LabelSides ==
    ASSUME LabelInv, NEW p \in LedgerProcs, RecordSideStarted(p) \/ RecordSideCompleted(p)
    PROVE  LabelInv'
<1> DEFINE token == 2 * proc[p].id - 1
           s == proc[p].side
<1>1. /\ token \in Int /\ s \in SUBSET Sides /\ proc[p].lease \in Int
      /\ row \in RowRec /\ \A t \in Sides : sides[t] \in SideRec
  BY LedgerTypes DEF ProcRec
<1>2. CASE RecordSideStarted(p)
  <2> DEFINE r  == [row EXCEPT !.state = "predicting", !.kind = "prediction", !.token = token, !.side = s]
             sd == [t \in Sides |-> IF t \in s THEN [status |-> "started", dir |-> token, bundle |-> 0] ELSE sides[t]]
  <2>1. r \in RowRec /\ r.revealed = row.revealed /\ r.state # "absent"
    BY <1>1 DEF RowRec, LedgerStates, InFlight
  <2>2. sd \in [Sides -> SideRec]
    BY <1>1 DEF SideRec
  <2>3. /\ WithLease(p, "beat", token) \in NextRec /\ ~WithLease(p, "beat", token).spawn
        /\ WithLease(p, "beat", token).step = "beat"
    BY <1>1, LedgerNexts DEF Steps, Writing
  <2> HIDE DEF r, sd, token, s
  <2>4. \E ok : Operation(p, "start", ok, r, sd, WithLease(p, "beat", token))
    BY <1>2 DEF RecordSideStarted, r, sd, token, s
  <2> QED
    BY <2>1, <2>2, <2>3, <2>4, LabelOrdinary DEF Writing, EarlySteps, PredictSteps
<1>3. CASE RecordSideCompleted(p)
  <2> DEFINE sd == [t \in Sides |-> IF t \in s THEN [sides[t] EXCEPT !.status = "completed", !.bundle = proc[p].lease]
                                                 ELSE sides[t]]
             whole == \A t \in Sides : sd[t].status = "completed"
             r  == [row EXCEPT !.state = IF whole THEN "predictions_frozen" ELSE "predicting",
                               !.kind = "none", !.token = 0, !.side = {}]
  <2>1. sd \in [Sides -> SideRec]
    BY <1>1 DEF SideRec
  <2> HIDE DEF sd, whole
  <2>2. r \in RowRec /\ r.revealed = row.revealed /\ r.state # "absent"
    BY <1>1, 0 \in Int DEF RowRec, LedgerStates, InFlight
  <2>3. To(p, "idle") \in NextRec /\ ~To(p, "idle").spawn /\ To(p, "idle").step = "idle"
    BY 0 \in Int, LedgerNexts DEF Steps
  <2> HIDE DEF r, s
  <2>4. \E ok : Operation(p, "complete", ok, r, sd, To(p, "idle"))
    BY <1>3 DEF RecordSideCompleted, r, sd, whole, s
  <2> QED
    BY <2>1, <2>2, <2>3, <2>4, LabelOrdinary DEF Writing, EarlySteps, PredictSteps
<1> QED
  BY <1>2, <1>3

\* The heartbeat of an opened pair starts the evaluator's child.
LEMMA LabelHeartbeat ==
    ASSUME LabelInv, NEW p \in LedgerProcs, Heartbeat(p)
    PROVE  LabelInv'
<1> DEFINE step == proc[p].step
           to   == CASE step = "beat" -> "look" [] step = "openbeat" -> "wait" [] OTHER -> "running"
           next == [To(p, to) EXCEPT !.spawn = (step = "openbeat")]
<1>1. step \in {"beat", "openbeat", "running"} /\ \E ok : Operation(p, step, ok, row, sides, next)
  BY DEF Heartbeat
<1>2. to \in {"look", "wait", "running"} /\ (to = "look" => step = "beat")
  BY <1>1
<1>3. proc[p].lease \in Int /\ InPlace(proc[p]) /\ row \in RowRec /\ sides \in [Sides -> SideRec]
  BY LedgerTypes DEF ProcRec
<1>4. next \in NextRec /\ next.step = to /\ (next.spawn => step = "openbeat")
  BY <1>2, <1>3 DEF To, NextRec, Steps, Reading
<1> HIDE DEF to, next
<1>5. MayCommit(p, row, next)
  BY <1>2, <1>3, <1>4, LedgerTypes DEF MayCommit, InPlace, EarlySteps, PredictSteps
<1>6. step \in Writing \cup {"running"}
  BY <1>1 DEF Writing
<1> QED
  BY <1>1, <1>3, <1>4, <1>5, <1>6, LabelOperation

\* The frozen set is prepared and bound.
LEMMA LabelFreeze ==
    ASSUME LabelInv, NEW p \in LedgerProcs, PrepareFreeze(p) \/ Bind(p)
    PROVE  LabelInv'
<1> DEFINE set == proc[p].set
<1>1. set \in AnySet /\ Pair \in AnySet /\ row \in RowRec /\ sides \in [Sides -> SideRec]
  BY LedgerTypes DEF ProcRec, Pair, AnySet
<1>2. CASE PrepareFreeze(p)
  <2> DEFINE r == IF row.bound THEN row ELSE [row EXCEPT !.freeze = set]
  <2>1. r \in RowRec /\ r.revealed = row.revealed /\ r.state = row.state
    BY <1>1 DEF RowRec
  <2>2. To(p, "mark") \in NextRec /\ ~To(p, "mark").spawn /\ To(p, "mark").step = "mark"
    BY 0 \in Int, LedgerNexts DEF Steps
  <2> HIDE DEF r
  <2>3. \E ok : Operation(p, "prepare", ok, r, sides, To(p, "mark"))
    BY <1>2 DEF PrepareFreeze, r
  <2> QED
    BY <1>1, <2>1, <2>2, <2>3, LabelOrdinary DEF Writing, EarlySteps, PredictSteps
<1>3. ASSUME NEW step \in {"bind", "rebind"}, NEW to \in {"idle", "reserve"},
             BindSet(p, step, To(p, to)), to = "reserve" => step = "rebind"
      PROVE  LabelInv'
  <2> DEFINE r == [row EXCEPT !.set = set, !.bound = TRUE, !.freeze = Pair]
  <2>1. r \in RowRec /\ r.revealed = row.revealed /\ r.state = row.state
    BY <1>1 DEF RowRec
  <2>2. To(p, to) \in NextRec /\ ~To(p, to).spawn /\ To(p, to).step = to
    BY 0 \in Int, LedgerNexts DEF Steps, Writing
  <2> HIDE DEF r
  <2>3. \E ok : Operation(p, step, ok, r, sides, To(p, to))
    BY <1>3 DEF BindSet, r
  <2> QED
    BY <1>1, <1>3, <2>1, <2>2, <2>3, LabelOrdinary DEF Writing, EarlySteps, PredictSteps
<1> QED
  BY <1>2, <1>3 DEF Bind

\* evaluate: the ledger is initialized again and the evaluation reserved; the labels
\* are opened only while they are hidden.
LEMMA LabelEvaluate ==
    ASSUME LabelInv, NEW p \in LedgerProcs,
           \/ Reinitialize(p) \/ ReserveEvaluation(p) \/ ReserveLabelOpen(p) \/ MarkEvaluationCompleted(p)
    PROVE  LabelInv'
<1>1. /\ proc[p].id \in Int /\ proc[p].set \in AnySet
      /\ row \in RowRec /\ sides \in [Sides -> SideRec]
  BY LedgerTypes DEF ProcRec
<1>2. CASE Reinitialize(p)
  <2>1. To(p, "rebind") \in NextRec /\ ~To(p, "rebind").spawn /\ To(p, "rebind").step = "rebind"
    BY 0 \in Int, LedgerNexts DEF Steps, Writing
  <2>2. \E ok : Operation(p, "reinit", ok, row, sides, To(p, "rebind"))
    BY <1>2 DEF Reinitialize
  <2> QED
    BY <1>1, <2>1, <2>2, LabelOrdinary DEF Writing, EarlySteps, PredictSteps
<1>3. CASE ReserveEvaluation(p)
  <2> DEFINE token == 2 * proc[p].id - 1
             r == [row EXCEPT !.state = "prelabel_frozen", !.kind = "prelabel", !.token = token, !.side = {}]
             next == WithLease(p, "open", token)
  <2>0. token \in Int
    BY <1>1
  <2> HIDE DEF token
  <2>1. r \in RowRec /\ r.revealed = row.revealed /\ r.state # "absent"
    BY <1>1, <2>0 DEF RowRec, LedgerStates, InFlight
  <2>2. next \in NextRec /\ ~next.spawn /\ next.step = "open"
    BY <2>0, LedgerNexts DEF Steps, Writing
  <2> HIDE DEF r, next
  <2>3. \E ok : Operation(p, "reserve", ok, r, sides, next)
    BY <1>3 DEF ReserveEvaluation, r, next, token
  <2> QED
    BY <1>1, <2>1, <2>2, <2>3, LabelOrdinary DEF Writing, EarlySteps, PredictSteps
<1>4. CASE ReserveLabelOpen(p)
  <2> DEFINE token == 2 * proc[p].id
             r == [row EXCEPT !.state = "labels_open", !.revealed = TRUE, !.kind = "label_open", !.token = token]
             next == WithLease(p, "openbeat", token)
  <2>0. token \in Int
    BY <1>1
  <2> HIDE DEF token
  <2>1. r \in RowRec /\ r.revealed /\ r.state # "absent"
    BY <1>1, <2>0 DEF RowRec, LedgerStates, InFlight
  <2>2. next \in NextRec /\ ~next.spawn /\ next.step = "openbeat"
    BY <2>0, LedgerNexts DEF Steps, Writing
  <2> HIDE DEF r, next
  <2>3. \E ok : /\ Operation(p, "open", ok, r, sides, next)
                /\ ok => ~row.revealed
    BY <1>4 DEF ReserveLabelOpen, r, next, token
  <2>4. PICK ok : Operation(p, "open", ok, r, sides, next) /\ (ok => ~row.revealed)
    BY <2>3
  <2>5. proc[p].child = "none"
    BY <2>4, LedgerTypes DEF Operation, Connected, InPlace, EarlySteps
  <2>6. ok => MayCommit(p, r, next)
    BY <2>1, <2>2, <2>4, <2>5 DEF MayCommit, PredictSteps
  <2> QED
    BY <1>1, <2>1, <2>2, <2>4, <2>6, LabelOperation DEF Writing
<1>5. CASE MarkEvaluationCompleted(p)
  <2> DEFINE r == [row EXCEPT !.state = "completed", !.scored = proc[p].set, !.kind = "none", !.token = 0]
  <2>1. r \in RowRec /\ r.revealed = row.revealed /\ r.state # "absent"
    BY <1>1, 0 \in Int DEF RowRec, LedgerStates
  <2>2. To(p, "idle") \in NextRec /\ ~To(p, "idle").spawn /\ To(p, "idle").step = "idle"
    BY 0 \in Int, LedgerNexts DEF Steps
  <2> HIDE DEF r
  <2>3. \E ok : Operation(p, "finish", ok, r, sides, To(p, "idle"))
    BY <1>5 DEF MarkEvaluationCompleted, r
  <2> QED
    BY <1>1, <2>1, <2>2, <2>3, LabelOrdinary DEF Writing, EarlySteps, PredictSteps
<1> QED
  BY <1>2, <1>3, <1>4, <1>5

\* The pair is failed: by a command, by recovery, by the intent of a command that
\* could not.
LEMMA LabelFails ==
    ASSUME LabelInv, NEW p \in LedgerProcs,
           InvalidatePair(p) \/ RecoverExpired(p) \/ ReconcileIntent(p) \/ UnlinkIntent(p)
    PROVE  LabelInv'
<1>1. /\ proc[p] \in ProcRec /\ InPlace(proc[p]) /\ row \in RowRec /\ sides \in [Sides -> SideRec]
      /\ FailedRow(row) \in RowRec /\ FailedSides(sides) \in [Sides -> SideRec]
      /\ FailedRow(row).revealed = row.revealed /\ FailedRow(row).state = "failed"
  BY LedgerTypes, FailedTyped
<1>2. To(p, "idle") \in NextRec /\ ~To(p, "idle").spawn /\ To(p, "idle").step = "idle"
  BY 0 \in Int, LedgerNexts DEF Steps
<1>3. CASE InvalidatePair(p)
  <2>1. Operation(p, "invalidate", TRUE, FailedRow(row), FailedSides(sides), To(p, "idle"))
    BY <1>3 DEF InvalidatePair
  <2> QED
    BY <1>1, <1>2, <2>1, LabelOrdinary DEF Writing, EarlySteps, PredictSteps
<1>4. CASE RecoverExpired(p)
  <2> DEFINE r  == IF Expired THEN FailedRow(row) ELSE row
             sd == IF Expired THEN FailedSides(sides) ELSE sides
  <2>1. /\ r \in RowRec /\ sd \in [Sides -> SideRec]
        /\ r.revealed = row.revealed /\ (row.state # "absent" => r.state # "absent")
    BY <1>1
  <2> HIDE DEF r, sd
  <2>2. Operation(p, "recover", TRUE, r, sd, To(p, "idle"))
    BY <1>4 DEF RecoverExpired, r, sd
  <2> QED
    BY <1>2, <2>1, <2>2, LabelOrdinary DEF Writing, EarlySteps, PredictSteps
<1>5. CASE ReconcileIntent(p)
  <2> DEFINE next == [To(p, proc[p].step) EXCEPT !.unlink = TRUE]
  <2>1. next \in NextRec /\ ~next.spawn /\ next.step = proc[p].step
    BY <1>1, 0 \in Int, LedgerNexts DEF ProcRec
  <2> HIDE DEF next
  <2>2. MayCommit(p, FailedRow(row), next)
    BY <1>1, <2>1 DEF MayCommit, InPlace
  <2>3. MayWrite(proc[p]) /\ tx = NoTx
    BY <1>5 DEF ReconcileIntent, MayWrite, Fencing
  <2>4. CASE Seals(p, FailedRow(row), FailedSides(sides), usedTokens, next)
    BY <1>1, <2>1, <2>2, <2>3, <2>4, LedgerTypes, LabelSeal
  <2>5. CASE UNCHANGED <<tx, proc>> /\ RestOfLedger
    BY <2>5, LedgerTypes, LabelFrame DEF RestOfLedger
  <2> QED
    BY <1>5, <2>4, <2>5 DEF ReconcileIntent, next
<1>6. CASE UnlinkIntent(p)
  <2> DEFINE k == [proc[p] EXCEPT !.unlink = FALSE]
  <2>1. k \in ProcRec /\ k.step = proc[p].step /\ k.child = proc[p].child /\ k.role = proc[p].role
    BY <1>1 DEF ProcRec
  <2>2. proc' = [proc EXCEPT ![p] = k] /\ UNCHANGED <<row, sides, usedTokens, tx, markers, launched, labelReads>>
    BY <1>6 DEF UnlinkIntent, RestOfLedger
  <2> HIDE DEF k
  <2>3. InPlace(k) /\ (MayRead(k) => MayRead(proc[p])) /\ (MayWrite(proc[p]) => MayWrite(k))
    BY <1>1, <2>1 DEF InPlace, MayRead, MayWrite
  <2>4. tx # NoTx /\ tx.by = {p} => MayWrite(proc[p])
    BY DEF LabelInv, TxSound
  <2> QED
    BY <2>1, <2>2, <2>3, <2>4, LedgerTypes, LabelMove
<1> QED
  BY <1>3, <1>4, <1>5, <1>6

\* Readers go on, towards the lock.
LEMMA LabelReads ==
    ASSUME LabelInv, NEW p \in LedgerProcs, LookAndSpawn(p) \/ ReadRecords(p) \/ ReadSnapshot(p)
    PROVE  LabelInv'
<1>1. /\ proc[p] \in ProcRec /\ InPlace(proc[p]) /\ row \in RowRec
      /\ markers \subseteq AnySet /\ launched \in Nat
  BY LedgerTypes
<1>2. tx.by # {p}
  BY DEF LookAndSpawn, ReadRecords, ReadSnapshot, Reads
<1>3. CASE Raises(p)
  BY <1>2, <1>3, LabelRaised DEF Raises, RestOfLedger
<1>4. ASSUME NEW k \in ProcRec, proc' = [proc EXCEPT ![p] = k],
             InPlace(k), MayRead(k) => MayRead(proc[p]),
             UNCHANGED tx, RestOfLedger
      PROVE  LabelInv'
  BY <1>1, <1>2, <1>4, LabelMove DEF RestOfLedger
<1>5. CASE LookAndSpawn(p) /\ ~Raises(p)
  <2> DEFINE k == [proc[p] EXCEPT !.step = "running", !.child = "runs"]
  <2>1. k \in ProcRec
    BY <1>1 DEF ProcRec, Steps
  <2>2. proc[p].role # "evaluate"
    BY <1>1, <1>5 DEF LookAndSpawn, Reads, InPlace, PredictSteps
  <2>3. InPlace(k) /\ ~MayRead(k)
    BY <1>1, <2>2 DEF ProcRec, InPlace, MayRead, EarlySteps, PredictSteps
  <2>4. proc' = [proc EXCEPT ![p] = k] /\ UNCHANGED tx /\ RestOfLedger
    BY <1>5 DEF LookAndSpawn
  <2> HIDE DEF k
  <2> QED
    BY <1>4, <2>1, <2>3, <2>4
<1>6. CASE ReadRecords(p) /\ ~Raises(p)
  <2> DEFINE set == SetOf(sides)
             k == [proc[p] EXCEPT !.step = "prepare", !.set = set]
  <2>1. set \in AnySet
    BY LedgerTypes DEF SetOf, SideRec, AnySet
  <2>2. proc' = [proc EXCEPT ![p] = k] /\ UNCHANGED tx /\ RestOfLedger
    BY <1>6 DEF ReadRecords
  <2> HIDE DEF set
  <2>3. k \in ProcRec
    BY <1>1, <2>1 DEF ProcRec, Steps, Writing
  <2>4. InPlace(k) /\ (MayRead(k) => MayRead(proc[p]))
    BY <1>1 DEF ProcRec, InPlace, MayRead, EarlySteps, PredictSteps
  <2> HIDE DEF k
  <2> QED
    BY <1>4, <2>2, <2>3, <2>4
<1>7. CASE ReadSnapshot(p) /\ ~Raises(p)
  <2> DEFINE k == [proc[p] EXCEPT !.step = "reinit", !.seen = row.set]
  <2>1. k \in ProcRec
    BY <1>1 DEF ProcRec, RowRec, Steps, Writing
  <2>2. proc[p].child = "none"
    BY <1>1, <1>7 DEF ReadSnapshot, Reads, InPlace, EarlySteps
  <2>3. InPlace(k) /\ ~MayRead(k)
    BY <1>1, <2>2 DEF ProcRec, InPlace, MayRead, PredictSteps
  <2>4. proc' = [proc EXCEPT ![p] = k] /\ UNCHANGED tx /\ RestOfLedger
    BY <1>7 DEF ReadSnapshot
  <2> HIDE DEF k
  <2> QED
    BY <1>4, <2>1, <2>3, <2>4
<1> QED
  BY <1>3, <1>5, <1>6, <1>7

\* A process outside the lock: its marker, its children, the errors it meets.
LEMMA LabelMoves ==
    ASSUME LabelInv, NEW p \in LedgerProcs,
           \/ WriteMarker(p) \/ PredictionEnds(p) \/ PredictionSeen(p) \/ ChildFence(p)
           \/ ChildSeen(p) \/ OrphanEnds(p) \/ Unsealed(p) \/ Busy(p) \/ KillCommand(p)
    PROVE  LabelInv'
<1>1. /\ proc[p] \in ProcRec /\ InPlace(proc[p]) /\ markers \subseteq AnySet /\ launched \in Nat
      /\ NoTx.by # {p}
  BY LedgerTypes DEF NoTx
<1>2. /\ Unlaunched \in ProcRec /\ Unlaunched.child = "none" /\ Unlaunched.step = "idle"
  BY DEF Unlaunched, ProcRec, Steps, Pair, AnySet
<1>3. tx # NoTx /\ tx.by = {p} => MayWrite(proc[p])
  BY DEF LabelInv, TxSound
<1>4. CASE WriteMarker(p)
  <2> DEFINE k == [proc[p] EXCEPT !.step = "bind"]
  <2>1. k \in ProcRec /\ k.child = proc[p].child /\ k.role = proc[p].role /\ k.step = "bind"
    BY <1>1 DEF ProcRec, Steps, Writing
  <2>2. /\ proc' = [proc EXCEPT ![p] = k] /\ proc[p].step = "mark"
        /\ markers' \subseteq AnySet /\ launched' \in Nat
        /\ UNCHANGED <<row, sides, usedTokens, tx, labelReads>>
    BY <1>1, <1>4 DEF WriteMarker, Goes, ProcRec
  <2> HIDE DEF k
  <2>3. InPlace(k) /\ (MayRead(k) => MayRead(proc[p])) /\ MayWrite(k)
    BY <2>1 DEF InPlace, MayRead, MayWrite, EarlySteps, PredictSteps, Writing
  <2> QED
    BY <2>1, <2>2, <2>3, LabelMove
<1>5. CASE PredictionEnds(p)
  <2>1. PICK result \in {"good", "bad"} : proc' = [proc EXCEPT ![p].child = result]
    BY <1>5 DEF PredictionEnds
  <2> DEFINE k == [proc[p] EXCEPT !.child = result]
  <2>2. /\ k \in ProcRec /\ k.child = result /\ k.role = proc[p].role
        /\ k.step = "running" /\ proc[p].step = "running" /\ proc[p].child = "runs"
    BY <1>1, <1>5 DEF ProcRec, PredictionEnds
  <2>3. proc' = [proc EXCEPT ![p] = k] /\ RestOfLedger /\ UNCHANGED tx
    BY <1>5, <2>1 DEF PredictionEnds
  <2> HIDE DEF k
  <2>4. InPlace(k) /\ ~MayRead(k) /\ MayWrite(k)
    BY <2>2 DEF InPlace, MayRead, MayWrite, EarlySteps, PredictSteps
  <2> QED
    BY <1>1, <2>2, <2>3, <2>4, LabelMove DEF RestOfLedger
<1>6. CASE PredictionSeen(p)
  <2>1. CASE Raised(p)
    BY <1>6, <2>1, LabelRaised DEF PredictionSeen, RestOfLedger
  <2>2. CASE Goes(p, "complete")
    <3> DEFINE k == [proc[p] EXCEPT !.step = "complete"]
    <3>1. k \in ProcRec /\ k.child = proc[p].child /\ k.role = proc[p].role /\ k.step = "complete"
      BY <1>1 DEF ProcRec, Steps, Writing
    <3>2. proc' = [proc EXCEPT ![p] = k] /\ tx.by # {p} /\ RestOfLedger /\ UNCHANGED tx
      BY <1>6, <2>2 DEF PredictionSeen, Goes
    <3> HIDE DEF k
    <3>3. InPlace(k) /\ (MayRead(k) => MayRead(proc[p]))
      BY <3>1 DEF InPlace, MayRead, EarlySteps, PredictSteps
    <3> QED
      BY <1>1, <3>1, <3>2, <3>3, LabelMove DEF RestOfLedger
  <2> QED
    BY <1>6, <2>1, <2>2 DEF PredictionSeen
<1>7. CASE ChildFence(p)
  <2>1. PICK child \in {"fenced", "bad"} : proc' = [proc EXCEPT ![p].child = child]
    BY <1>7 DEF ChildFence
  <2> DEFINE k == [proc[p] EXCEPT !.child = child]
  <2>2. k \in ProcRec /\ k.child = child /\ k.role = proc[p].role /\ k.step = proc[p].step
    BY <1>1 DEF ProcRec
  <2>3. /\ proc' = [proc EXCEPT ![p] = k] /\ tx.by # {p} /\ RestOfLedger /\ UNCHANGED tx
        /\ MayRead(proc[p]) /\ proc[p].child = "runs"
    BY <1>7, <2>1 DEF ChildFence, Fencing, MayRead
  <2> HIDE DEF k
  <2>4. InPlace(k)
    BY <1>1, <2>2, <2>3 DEF InPlace
  <2> QED
    BY <1>1, <2>2, <2>3, <2>4, LabelMove DEF RestOfLedger
<1>8. CASE ChildSeen(p)
  <2>1. tx = NoTx \/ tx.by # {p}
    BY <1>3, <1>8 DEF ChildSeen, MayWrite, Reading, Writing
  <2>2. CASE Raised(p)
    BY <1>8, <2>1, <2>2, LabelRaised DEF ChildSeen, RestOfLedger
  <2>3. CASE Goes(p, "finish")
    <3> DEFINE k == [proc[p] EXCEPT !.step = "finish"]
    <3>1. k \in ProcRec /\ k.child = proc[p].child /\ k.role = proc[p].role /\ k.step = "finish"
      BY <1>1 DEF ProcRec, Steps, Writing
    <3>2. proc' = [proc EXCEPT ![p] = k] /\ RestOfLedger /\ UNCHANGED tx
      BY <1>8, <2>3 DEF ChildSeen, Goes
    <3> HIDE DEF k
    <3>3. InPlace(k) /\ (MayRead(k) => MayRead(proc[p]))
      BY <3>1 DEF InPlace, MayRead, EarlySteps, PredictSteps
    <3> QED
      BY <1>1, <2>1, <3>1, <3>2, <3>3, LabelMove DEF RestOfLedger
  <2> QED
    BY <1>8, <2>2, <2>3 DEF ChildSeen
<1>9. CASE OrphanEnds(p)
  <2>1. tx = NoTx \/ tx.by # {p}
    BY <1>3, <1>9 DEF OrphanEnds, MayWrite, Reading, Writing
  <2>2. InPlace(Unlaunched) /\ ~MayRead(Unlaunched)
    BY <1>2 DEF InPlace, MayRead, PredictSteps
  <2> QED
    BY <1>1, <1>2, <1>9, <2>1, <2>2, LabelMove DEF OrphanEnds, Ends, RestOfLedger
<1>10. CASE Unsealed(p)
  BY <1>10, LabelRaised DEF Unsealed, Raises, RestOfLedger
<1>11. CASE Busy(p)
  <2>1. tx.by # {p} /\ UNCHANGED tx /\ RestOfLedger
    BY <1>11 DEF Busy
  <2>2. CASE Raised(p)
    BY <2>1, <2>2, LabelRaised DEF RestOfLedger
  <2>3. CASE Ends(p)
    <3>1. InPlace(Unlaunched) /\ ~MayRead(Unlaunched)
      BY <1>2 DEF InPlace, MayRead, PredictSteps
    <3> QED
      BY <1>1, <1>2, <2>1, <2>3, <3>1, LabelMove DEF Ends, RestOfLedger
  <2>4. CASE Goes(p, "invalidate")
    <3> DEFINE k == [proc[p] EXCEPT !.step = "invalidate"]
    <3>1. k \in ProcRec /\ k.child = proc[p].child /\ k.role = proc[p].role /\ k.step = "invalidate"
      BY <1>1 DEF ProcRec, Steps, Writing
    <3>2. proc' = [proc EXCEPT ![p] = k]
      BY <2>4 DEF Goes
    <3> HIDE DEF k
    <3>3. InPlace(k) /\ (MayRead(k) => MayRead(proc[p]))
      BY <3>1 DEF InPlace, MayRead, EarlySteps, PredictSteps
    <3> QED
      BY <1>1, <2>1, <3>1, <3>2, <3>3, LabelMove DEF RestOfLedger
  <2> QED
    BY <1>11, <2>2, <2>3, <2>4 DEF Busy
<1>12. CASE KillCommand(p)
  <2>1. tx = NoTx \/ tx.by # {p}
    BY <1>12 DEF KillCommand
  <2>2. UNCHANGED <<row, sides, usedTokens, tx, markers, launched, labelReads>>
    BY <1>12 DEF KillCommand
  <2>3. CASE Ends(p)
    <3>1. InPlace(Unlaunched) /\ ~MayRead(Unlaunched)
      BY <1>2 DEF InPlace, MayRead, PredictSteps
    <3> QED
      BY <1>1, <1>2, <2>1, <2>2, <2>3, <3>1, LabelMove DEF Ends
  <2>4. CASE ~Ends(p)
    <3> DEFINE k == [proc[p] EXCEPT !.step = "orphan"]
    <3>1. k \in ProcRec /\ k.child = proc[p].child /\ k.role = proc[p].role /\ k.step = "orphan"
      BY <1>1 DEF ProcRec
    <3>2. proc' = [proc EXCEPT ![p] = k]
      BY <1>12, <2>4 DEF KillCommand, Ends
    <3> HIDE DEF k
    <3>3. InPlace(k) /\ (MayRead(k) => MayRead(proc[p]))
      BY <3>1 DEF InPlace, MayRead, EarlySteps, PredictSteps
    <3> QED
      BY <1>1, <2>1, <2>2, <3>1, <3>2, <3>3, LabelMove
  <2> QED
    BY <2>3, <2>4
<1> QED
  BY <1>4, <1>5, <1>6, <1>7, <1>8, <1>9, <1>10, <1>11, <1>12

\* The labels are read: it is the first read, and nobody else is on the way.
LEMMA LabelScores ==
    ASSUME LabelInv, NEW p \in LedgerProcs, ChildScores(p)
    PROVE  LabelInv'
<1>1. PICK result \in {"good", "bad"} :
        /\ proc' = [proc EXCEPT ![p].child = result]
        /\ labelReads' = labelReads \cup {[id |-> proc[p].id, set |-> proc[p].set, result |-> result]}
  BY DEF ChildScores
<1>2. /\ proc[p].child = "fenced" /\ MayRead(proc[p])
      /\ UNCHANGED <<row, sides, usedTokens, tx, markers, launched>>
  BY DEF ChildScores, MayRead
<1>3. proc[p] \in ProcRec /\ InPlace(proc[p])
  BY LedgerTypes
<1>4. /\ proc' \in [LedgerProcs -> ProcRec]
      /\ \A q \in LedgerProcs : q # p => proc'[q] = proc[q]
      /\ proc'[p].child = result /\ proc'[p].step = proc[p].step /\ proc'[p].role = proc[p].role
  BY <1>1, <1>3 DEF LabelInv, LedgerTyped, ProcRec
<1>5. \A q \in LedgerProcs : InPlace(proc'[q])
  BY <1>2, <1>3, <1>4 DEF LabelInv, InPlace
<1>6. \A q \in LedgerProcs : ~MayRead(proc'[q])
  <2> SUFFICES ASSUME NEW q \in LedgerProcs
               PROVE  ~MayRead(proc'[q])
    OBVIOUS
  <2>1. CASE q = p
    BY <1>2, <1>3, <1>4, <2>1 DEF InPlace, MayRead, EarlySteps
  <2>2. CASE q # p
    BY <1>2, <1>4, <2>2 DEF LabelInv, OneReader
  <2> QED
    BY <2>1, <2>2
<1>7. labelReads = {} /\ row.revealed
  BY <1>2 DEF LabelInv, OneRead, Revealed
<1>8. TxSound'
  <2> SUFFICES ASSUME NEW q \in LedgerProcs, tx # NoTx, tx.by = {q}
               PROVE  MayCommit(q, tx.row, tx.next)' /\ MayWrite(proc'[q])
    BY <1>2 DEF TxSound
  <2>1. MayCommit(q, tx.row, tx.next) /\ MayWrite(proc[q])
    BY DEF LabelInv, TxSound
  <2>2. CASE q # p
    BY <1>2, <1>4, <2>1, <2>2 DEF MayCommit
  <2>3. CASE q = p
    BY <1>2, <1>4, <2>1, <2>3 DEF MayCommit, MayWrite
  <2> QED
    BY <2>2, <2>3
<1>9. LedgerTyped'
  BY <1>2, <1>4 DEF LabelInv, LedgerTyped
<1>10. OneReader' /\ Revealed' /\ OneRead'
  BY <1>1, <1>2, <1>6, <1>7 DEF LabelInv, OneReader, Revealed, OneRead
<1>11. \A q \in LedgerProcs : InPlace(proc[q])'
  BY <1>5 DEF InPlace
<1> QED
  BY <1>8, <1>9, <1>10, <1>11 DEF LabelInv

\* The transaction commits: the process goes on as it sealed.
LEMMA LabelCommit ==
    ASSUME LabelInv, NEW p \in LedgerProcs, Commit(p)
    PROVE  LabelInv'
<1> DEFINE n == tx.next
           on == [proc[p] EXCEPT !.step = n.step, !.lease = n.lease, !.unlink = n.unlink,
                                 !.child = IF n.spawn THEN "runs" ELSE proc[p].child]
           k  == IF n.step = "idle" THEN Unlaunched ELSE on
<1>1. /\ proc' = [proc EXCEPT ![p] = k]
      /\ row' = [tx.row EXCEPT !.over = row.over /\ tx.row.token = row.token]
      /\ sides' = tx.sides /\ usedTokens' = tx.used /\ tx' = NoTx
      /\ UNCHANGED <<markers, launched, labelReads>>
  <2>1. proc' = [proc EXCEPT ![p] = k]
    BY Zenon DEF Commit
  <2>2. row' = [tx.row EXCEPT !.over = row.over /\ tx.row.token = row.token]
    BY Zenon DEF Commit
  <2> QED
    BY <2>1, <2>2, Zenon DEF Commit
<1>2. tx \in TxRec /\ row \in RowRec /\ proc[p] \in ProcRec /\ InPlace(proc[p])
  BY LedgerTypes DEF Commit, LabelInv, LedgerTyped
<1>3. MayCommit(p, tx.row, n)
  BY DEF Commit, LabelInv, TxSound
<1>4. n \in NextRec /\ tx.row \in RowRec
  BY <1>2 DEF TxRec
<1>5. /\ row' \in RowRec /\ row'.revealed = tx.row.revealed /\ row'.state = tx.row.state
  BY <1>1, <1>2, <1>4 DEF RowRec
<1>6. /\ on \in ProcRec /\ on.step = n.step /\ on.role = proc[p].role
      /\ on.child = IF n.spawn THEN "runs" ELSE proc[p].child
  BY <1>2, <1>4 DEF ProcRec, NextRec
<1>7. /\ Unlaunched \in ProcRec /\ Unlaunched.child = "none" /\ Unlaunched.step = "idle"
  BY DEF Unlaunched, ProcRec, Steps, Pair, AnySet
<1> HIDE DEF on
<1>8. k \in ProcRec /\ InPlace(k)
  <2>1. CASE n.step = "idle"
    BY <1>7, <2>1 DEF InPlace, EarlySteps, PredictSteps
  <2>2. CASE n.step # "idle"
    BY <1>3, <1>6, <2>2 DEF InPlace, MayCommit
  <2> QED
    BY <2>1, <2>2
<1>9. MayRead(k) => MayRead(proc[p]) \/ (~row.revealed /\ tx.row.revealed)
  <2>1. CASE n.step = "idle"
    BY <1>7, <2>1 DEF MayRead
  <2>2. CASE n.step # "idle"
    BY <1>3, <1>6, <2>2 DEF MayRead, MayCommit
  <2> QED
    BY <2>1, <2>2
<1> HIDE DEF k, n
<1>10. /\ proc' \in [LedgerProcs -> ProcRec] /\ proc'[p] = k
       /\ \A q \in LedgerProcs : q # p => proc'[q] = proc[q]
  BY <1>1, <1>8 DEF LabelInv, LedgerTyped
<1>11. row.revealed => tx.row.revealed
  BY <1>3 DEF MayCommit
<1>12. LedgerTyped'
  BY <1>1, <1>2, <1>5, <1>10 DEF LabelInv, LedgerTyped, TxRec
<1>13. \A q \in LedgerProcs : MayRead(proc'[q]) => MayRead(proc[q]) \/ (q = p /\ ~row.revealed /\ tx.row.revealed)
  BY <1>9, <1>10
<1>14. \A q \in LedgerProcs : MayRead(proc[q]) => row.revealed
  BY DEF LabelInv, Revealed
<1>15. OneReader'
  BY <1>13, <1>14 DEF LabelInv, OneReader
<1>16. Revealed'
  BY <1>1, <1>3, <1>5, <1>11, <1>13, <1>14 DEF LabelInv, Revealed, MayCommit
<1>17. OneRead'
  BY <1>1, <1>13 DEF LabelInv, OneRead, Revealed
<1>18. TxSound'
  BY <1>1 DEF TxSound
<1>19. \A q \in LedgerProcs : InPlace(proc[q])'
  BY <1>8, <1>10 DEF LabelInv, InPlace
<1> QED
  BY <1>12, <1>15, <1>16, <1>17, <1>18, <1>19 DEF LabelInv

\* The transaction is rolled back, its process ends.
LEMMA LabelTorn ==
    ASSUME LabelInv, NEW p \in LedgerProcs, TornCommit(p)
    PROVE  LabelInv'
<1>1. /\ proc' = [proc EXCEPT ![p] = Unlaunched] /\ tx' = NoTx
      /\ UNCHANGED <<row, sides, usedTokens, markers, launched, labelReads>>
  BY DEF TornCommit, Ends, RestOfLedger
<1>2. /\ Unlaunched \in ProcRec /\ InPlace(Unlaunched) /\ ~MayRead(Unlaunched)
  <2>1. Unlaunched.child = "none" /\ Unlaunched.step = "idle" /\ Unlaunched \in ProcRec
    BY DEF Unlaunched, ProcRec, Steps, Pair, AnySet
  <2> QED
    BY <2>1 DEF InPlace, MayRead, EarlySteps, PredictSteps
<1>3. /\ proc' \in [LedgerProcs -> ProcRec] /\ proc'[p] = Unlaunched
      /\ \A q \in LedgerProcs : q # p => proc'[q] = proc[q]
  BY <1>1, <1>2 DEF LabelInv, LedgerTyped
<1>4. \A q \in LedgerProcs : MayRead(proc'[q]) => MayRead(proc[q])
  BY <1>2, <1>3
<1>5. OneReader' /\ Revealed' /\ OneRead'
  BY <1>1, <1>4 DEF LabelInv, OneReader, Revealed, OneRead
<1>6. \A q \in LedgerProcs : InPlace(proc[q])'
  BY <1>2, <1>3 DEF LabelInv, InPlace
<1>7. TxSound' /\ LedgerTyped'
  BY <1>1, <1>3 DEF LabelInv, TxSound, LedgerTyped
<1> QED
  BY <1>5, <1>6, <1>7 DEF LabelInv

\* A command starts in an idle slot, far from the labels.
LEMMA LabelLaunch ==
    ASSUME LabelInv, NEW p \in LedgerProcs,
           LaunchPredict(p) \/ LaunchFreeze(p) \/ LaunchEvaluate(p) \/ LaunchRecovery(p)
    PROVE  LabelInv'
<1>1. /\ proc[p].step = "idle" /\ proc[p].child = "none" /\ launched + 1 \in Nat /\ launched + 1 \in Int
      /\ markers \subseteq AnySet
  <2>1. Free(p)
    BY Zenon DEF LaunchPredict, LaunchFreeze, LaunchEvaluate, LaunchRecovery, Launch
  <2> QED
    BY <2>1, LedgerTypes DEF Free, InPlace
<1>2. ~(tx # NoTx /\ tx.by = {p})
  BY <1>1 DEF LabelInv, TxSound, MayWrite, Reading, Writing
<1>3. Pair \in AnySet /\ 0 \in Int
  BY DEF Pair, AnySet
<1>4. ASSUME NEW k \in ProcRec, proc' = [proc EXCEPT ![p] = k], launched' \in Nat, k.child = "none",
             k.step \in {"init", "reauthorize", "records", "snapshot", "recover"},
             k.step = "init" => k.role # "evaluate",
             UNCHANGED <<row, sides, usedTokens, tx, markers, labelReads>>
      PROVE  LabelInv'
  <2>1. InPlace(k) /\ ~MayRead(k)
    BY <1>4 DEF InPlace, MayRead, PredictSteps
  <2> QED
    BY <1>1, <1>2, <1>4, <2>1, LabelMove
<1>5. Unlaunched \in ProcRec /\ Unlaunched.child = "none"
  BY <1>3 DEF Unlaunched, ProcRec, Steps
<1>6. ASSUME NEW u \in ProcRec, Launch(p, u), u.child = "none",
             u.step \in {"init", "reauthorize", "records", "snapshot"},
             u.step = "init" => u.role # "evaluate"
      PROVE  LabelInv'
  <2> DEFINE k == [u EXCEPT !.id = launched + 1]
  <2>1. k \in ProcRec /\ k.child = u.child /\ k.step = u.step /\ k.role = u.role
    BY <1>1 DEF ProcRec
  <2>2. /\ proc' = [proc EXCEPT ![p] = k] /\ launched' \in Nat
        /\ UNCHANGED <<row, sides, usedTokens, tx, markers, labelReads>>
    BY <1>1, <1>6 DEF Launch
  <2> HIDE DEF k
  <2> QED
    BY <1>4, <1>6, <2>1, <2>2
<1>7. CASE LaunchPredict(p)
  <2>1. PICK s \in Sides, o \in OwnerTokens \cup {0} :
          Launch(p, [Unlaunched EXCEPT !.role = "predict", !.side = {s}, !.owner = o,
                                       !.step = IF o = 0 THEN "init" ELSE "reauthorize"])
    BY <1>7 DEF LaunchPredict
  <2> DEFINE step == IF o = 0 THEN "init" ELSE "reauthorize"
             u == [Unlaunched EXCEPT !.role = "predict", !.side = {s}, !.owner = o, !.step = step]
  <2>2. step \in Steps /\ step \in {"init", "reauthorize"}
    BY DEF Steps, Writing
  <2>3. Launch(p, u)
    BY <2>1
  <2> HIDE DEF step
  <2>4. u \in ProcRec /\ u.child = "none" /\ u.step = step /\ u.role = "predict"
    BY <1>5, <2>2 DEF ProcRec
  <2> HIDE DEF u
  <2> QED
    BY <1>6, <2>2, <2>3, <2>4
<1>8. CASE LaunchFreeze(p)
  <2> DEFINE u == [Unlaunched EXCEPT !.role = "freeze", !.step = "records"]
  <2>1. u \in ProcRec /\ u.child = "none" /\ u.step = "records"
    BY <1>5 DEF ProcRec, Steps, Reading
  <2>2. Launch(p, u)
    BY <1>8 DEF LaunchFreeze
  <2> HIDE DEF u
  <2> QED
    BY <1>6, <2>1, <2>2
<1>9. CASE LaunchEvaluate(p)
  <2>1. PICK set \in markers, o \in OwnerTokens \cup {0} :
          Launch(p, [Unlaunched EXCEPT !.role = "evaluate", !.set = set, !.owner = o,
                                       !.step = IF o = 0 THEN "snapshot" ELSE "reauthorize"])
    BY <1>9 DEF LaunchEvaluate
  <2> DEFINE step == IF o = 0 THEN "snapshot" ELSE "reauthorize"
             u == [Unlaunched EXCEPT !.role = "evaluate", !.set = set, !.owner = o, !.step = step]
  <2>2. step \in Steps /\ step \in {"snapshot", "reauthorize"} /\ set \in AnySet
    BY <1>1 DEF Steps, Reading, Writing
  <2>3. Launch(p, u)
    BY <2>1
  <2> HIDE DEF step
  <2>4. u \in ProcRec /\ u.child = "none" /\ u.step = step
    BY <1>5, <2>2 DEF ProcRec
  <2> HIDE DEF u
  <2> QED
    BY <1>6, <2>2, <2>3, <2>4
<1>10. CASE LaunchRecovery(p)
  <2> DEFINE k == [Unlaunched EXCEPT !.role = "recover", !.step = "recover"]
  <2>1. k \in ProcRec /\ k.child = "none" /\ k.step = "recover"
    BY <1>5 DEF ProcRec, Steps, Writing
  <2>2. /\ proc' = [proc EXCEPT ![p] = k] /\ launched' \in Nat
        /\ UNCHANGED <<row, sides, usedTokens, tx, markers, labelReads>>
    BY <1>10, LedgerTypes DEF LaunchRecovery, RestOfLedger
  <2> HIDE DEF k
  <2> QED
    BY <1>4, <2>1, <2>2
<1> QED
  BY <1>7, <1>8, <1>9, <1>10

\* A lease lapses.
LEMMA LabelLapse ==
    ASSUME LabelInv, LeaseLapses
    PROVE  LabelInv'
<1>1. /\ row' = [row EXCEPT !.over = TRUE] /\ row \in RowRec
      /\ UNCHANGED <<sides, usedTokens, tx, markers, proc, launched, labelReads>>
  BY DEF LeaseLapses, LabelInv, LedgerTyped
<1>2. row' \in RowRec /\ row'.revealed = row.revealed /\ row'.state = row.state
  BY <1>1 DEF RowRec
<1>3. LedgerTyped'
  BY <1>1, <1>2 DEF LabelInv, LedgerTyped
<1>4. TxSound'
  BY <1>1, <1>2 DEF LabelInv, TxSound, MayCommit
<1>5. OneReader' /\ Revealed' /\ OneRead'
  BY <1>1, <1>2 DEF LabelInv, OneReader, Revealed, OneRead
<1>6. \A q \in LedgerProcs : InPlace(proc[q])'
  BY <1>1 DEF LabelInv, InPlace
<1> QED
  BY <1>3, <1>4, <1>5, <1>6 DEF LabelInv

-----------------------------------------------------------------------------
(* The invariant *)

LEMMA LabelInit == ASSUME LedgerInit PROVE LabelInv
<1>1. Pair \in AnySet /\ 0 \in Int /\ 0 \in Nat /\ "absent" \in LedgerStates
  BY DEF Pair, AnySet, LedgerStates
<1>2. row \in RowRec /\ sides \in [Sides -> SideRec] /\ ~row.revealed
  BY <1>1, FreshTyped DEF LedgerInit
<1>3. /\ Unlaunched \in ProcRec /\ Unlaunched.child = "none" /\ Unlaunched.step = "idle"
  BY <1>1 DEF Unlaunched, ProcRec, Steps
<1>4. \A p \in LedgerProcs : proc[p] = Unlaunched
  BY DEF LedgerInit
<1>5. \A p \in LedgerProcs : InPlace(proc[p]) /\ ~MayRead(proc[p])
  BY <1>3, <1>4 DEF InPlace, MayRead, EarlySteps, PredictSteps
<1>6. LedgerTyped
  BY <1>2, <1>3 DEF LedgerInit, LedgerTyped
<1> QED
  BY <1>2, <1>5, <1>6 DEF LedgerInit, LabelInv, TxSound, OneReader, Revealed, OneRead

\* Every step keeps the labels read once.
LEMMA LabelStep == ASSUME LabelInv, [LedgerNext]_ledgerVars PROVE LabelInv'
<1>1. CASE UNCHANGED ledgerVars
  BY <1>1, LabelFrame DEF ledgerVars, LabelInv, LedgerTyped
<1>2. CASE LeaseLapses
  BY <1>2, LabelLapse
<1>3. ASSUME NEW p \in LedgerProcs, ProcStep(p)
      PROVE  LabelInv'
  BY <1>3, LabelReauthorize, LabelInitialize, LabelSides, LabelReads, LabelMoves, LabelFreeze, LabelEvaluate,
     LabelFails, LabelCommit, LabelHeartbeat DEF ProcStep
<1>4. ASSUME NEW p \in LedgerProcs, ChildStep(p) \/ Heartbeat(p) \/ Busy(p) \/ TornCommit(p) \/ KillCommand(p)
      PROVE  LabelInv'
  BY <1>4, LabelMoves, LabelScores, LabelHeartbeat, LabelTorn DEF ChildStep
<1>5. ASSUME NEW p \in LedgerProcs,
             LaunchPredict(p) \/ LaunchFreeze(p) \/ LaunchEvaluate(p) \/ LaunchRecovery(p)
      PROVE  LabelInv'
  BY <1>5, LabelLaunch
<1> QED
  BY <1>1, <1>2, <1>3, <1>4, <1>5 DEF LedgerNext

LEMMA LabelOnce == ASSUME LabelInv PROVE LabelsReadOnce
<1>1. CASE labelReads = {}
  BY <1>1, FS_EmptySet DEF LabelsReadOnce
<1>2. CASE \E x : labelReads = {x}
  <2>1. PICK x : labelReads = {x}
    BY <1>2
  <2>2. Cardinality(labelReads) = 1
    BY <2>1, FS_Singleton
  <2> QED
    BY <2>2 DEF LabelsReadOnce
<1> QED
  BY <1>1, <1>2 DEF LabelInv, OneRead

\* The labels of a pair are read by one evaluation ever: whatever fails, is killed,
\* lapses, is reauthorized or outlives its command (reserve_label_open,
\* reauthorize_pair, assert_label_open).
THEOREM LabelsReadOnceHolds == LedgerSpec => []LabelsReadOnce
<1>1. LedgerInit => LabelInv
  BY LabelInit
<1>2. LabelInv /\ [LedgerNext]_ledgerVars => LabelInv'
  BY LabelStep
<1>3. LabelInv => LabelsReadOnce
  BY LabelOnce
<1> QED
  BY <1>1, <1>2, <1>3, PTL DEF LedgerSpec

-----------------------------------------------------------------------------
(* What is scored: the invariant *)

Frozen      == {"predictions_frozen", "prelabel_frozen", "labels_open", "completed", "failed"}
Evaluations == {"snapshot", "reinit", "rebind", "reserve", "open", "openbeat", "wait", "finish"}
GoodRead(set) == \E r \in labelReads : r.set = set /\ r.result = "good"

\* Which command is at which step.
InRole(role, step) ==
    /\ step \in {"init", "start", "beat", "look", "running"} => role = "predict"
    /\ step \in {"records", "prepare", "mark", "bind"} => role = "freeze"
    /\ step = "reauthorize" => role \in {"predict", "evaluate"}
    /\ step \in Evaluations => role = "evaluate"

\* A lease belongs to a state in flight; a started side holds the lease it was
\* started under.
LeaseFits(r, sd) ==
    /\ r.token # 0 => r.state \in InFlight
    /\ r.state \in InFlight /\ r.token = 0 => r.state = "predicting"
    /\ \A s \in Sides :
         /\ sd[s].bundle \in Tokens
         /\ sd[s].status = "started" =>
              r.state = "predicting" /\ r.token # 0 /\ sd[s].dir = r.token /\ s \in r.side
         /\ sd[s].status = "completed" => sd[s].bundle = sd[s].dir

\* What was scored is the set of the row, a marked one that was read.
ResultFits(r, sd) ==
    r.state = "completed" =>
        /\ r.scored = r.set /\ r.set \in markers /\ GoodRead(r.set)
        /\ r.epoch = 0 => r.set = SetOf(sd)

\* Row and sides of the pair, now or to be committed.
PairFits(r, sd) ==
    /\ r.set \in SetIds /\ r.token \in Tokens
    /\ LeaseFits(r, sd) /\ ResultFits(r, sd)
    /\ r.revealed => r.state \in {"labels_open", "completed", "failed"}
    /\ r.state = "absent" => r.epoch = 0

\* A command: what it froze, what it scores, and what its child has seen.
CommandFits(k) ==
    /\ k.set \in SetIds /\ InRole(k.role, k.step)
    /\ k.role \in {"predict", "evaluate"} => k.id \in 1..MaxLaunches
    /\ k.role = "evaluate" => k.set \in markers
    /\ k.role = "evaluate" /\ k.child \in {"fenced", "good"} => k.set = row.set
    /\ k.role = "evaluate" /\ k.child = "good" => GoodRead(k.set)
    /\ k.step = "finish" => k.child = "good"
    /\ k.step \in {"prepare", "mark"} /\ row.epoch = 0 => k.set = SetOf(sides) /\ row.state \in Frozen

\* What process p may commit: a set whose labels were open stays, and so does the
\* frozen set of the first epoch.
CommitFits(p, r, sd, next) ==
    /\ PairFits(r, sd)
    /\ row.revealed => r.set = row.set
    /\ r.epoch = 0 => row.epoch = 0
    /\ r.epoch = 0 /\ row.state \in Frozen => r.state \in Frozen /\ SetOf(sd) = SetOf(sides)
    /\ InRole(proc[p].role, next.step)
    /\ next.step \in {"prepare", "mark"} => proc[p].step = "prepare"
    /\ next.step = "finish" => proc[p].step = "finish"

\* In the first epoch there is one frozen set.
MarkersFit ==
    /\ markers \subseteq SetIds
    /\ row.epoch = 0 /\ markers # {} => row.state \in Frozen
    /\ row.epoch = 0 => \A m \in markers : m = SetOf(sides)

TxFits ==
    \A p \in LedgerProcs : tx # NoTx /\ tx.by = {p} => CommitFits(p, tx.row, tx.sides, tx.next)

ScoreInv ==
    /\ launched \in 0..MaxLaunches
    /\ PairFits(row, sides)
    /\ \A p \in LedgerProcs : CommandFits(proc[p])
    /\ MarkersFit /\ TxFits

-----------------------------------------------------------------------------
(* What is scored: kinds of steps *)

LEMMA ScoreTypes ==
    ASSUME LabelInv, ScoreInv, NEW p \in LedgerProcs
    PROVE  /\ proc[p] \in ProcRec /\ CommandFits(proc[p])
           /\ row \in RowRec /\ sides \in [Sides -> SideRec] /\ row.epoch \in Nat
           /\ markers \subseteq SetIds /\ launched \in 0..MaxLaunches
           /\ PairFits(row, sides) /\ MarkersFit
BY LedgerTypes DEF ScoreInv, MarkersFit, RowRec

LEMMA TokenTypes ==
    /\ 0 \in Tokens /\ Pair \in SetIds /\ Tokens \subseteq Int
    /\ \A n \in 1..MaxLaunches : 2 * n - 1 \in Tokens /\ 2 * n \in Tokens /\ 2 * n - 1 # 0 /\ 2 * n # 0
<1>1. MaxLaunches \in Nat
  BY PairLedgerAssumption
<1>2. 0 \in Tokens /\ Tokens \subseteq Int
  BY <1>1 DEF Tokens
<1>3. Pair \in SetIds
  BY <1>2 DEF Pair, SetIds
<1>4. \A n \in 1..MaxLaunches : 2 * n - 1 \in Tokens /\ 2 * n \in Tokens /\ 2 * n - 1 # 0 /\ 2 * n # 0
  BY <1>1 DEF Tokens
<1> QED
  BY <1>2, <1>3, <1>4

\* Rows that differ in nothing the invariant speaks of.
LEMMA SameFits ==
    ASSUME NEW r, NEW q, NEW sd, PairFits(r, sd),
           q.state = r.state, q.set = r.set, q.token = r.token, q.side = r.side,
           q.revealed = r.revealed, q.scored = r.scored, q.epoch = r.epoch
    PROVE  PairFits(q, sd)
BY DEF PairFits, LeaseFits, ResultFits

\* Marks and reads are only added.
LEMMA GrownFits ==
    ASSUME NEW r, NEW sd, PairFits(r, sd), markers \subseteq markers', labelReads \subseteq labelReads'
    PROVE  PairFits(r, sd)'
<1>1. GoodRead(r.set) => GoodRead(r.set)'
  BY DEF GoodRead
<1>2. ResultFits(r, sd)'
  BY <1>1 DEF PairFits, ResultFits, SetOf
<1> QED
  BY <1>2 DEF PairFits, LeaseFits


\* A step that changes nothing the invariant is about.
LEMMA ScoreFrame ==
    ASSUME ScoreInv, UNCHANGED <<row, sides, tx, proc, markers, launched, labelReads>>
    PROVE  ScoreInv'
<1>1. PairFits(row, sides)' /\ MarkersFit'
  BY DEF ScoreInv, PairFits, LeaseFits, ResultFits, GoodRead, MarkersFit, SetOf
<1>2. \A q \in LedgerProcs : CommandFits(proc[q])'
  BY DEF ScoreInv, CommandFits, GoodRead, SetOf
<1>3. TxFits'
  BY DEF ScoreInv, TxFits, CommitFits, PairFits, LeaseFits, ResultFits, GoodRead, SetOf
<1> QED
  BY <1>1, <1>2, <1>3 DEF ScoreInv

\* A process moves: what it holds still fits, and so does what it has sealed.
LEMMA ScoreMove ==
    ASSUME LabelInv, ScoreInv, NEW p \in LedgerProcs, NEW k \in ProcRec,
           proc' = [proc EXCEPT ![p] = k], CommandFits(k),
           tx # NoTx /\ tx.by = {p} =>
              k.role = proc[p].role /\ (proc[p].step \in {"prepare", "finish"} => k.step = proc[p].step),
           UNCHANGED <<row, sides, tx, markers, labelReads>>, launched' \in 0..MaxLaunches
    PROVE  ScoreInv'
<1>1. /\ proc'[p] = k
      /\ \A q \in LedgerProcs : q # p => proc'[q] = proc[q]
  BY DEF LabelInv, LedgerTyped
<1>2. \A q \in LedgerProcs : CommandFits(proc'[q])
  BY <1>1 DEF ScoreInv
<1>3. \A q \in LedgerProcs : CommandFits(proc[q])'
  BY <1>2 DEF CommandFits, GoodRead, SetOf
<1>4. PairFits(row, sides)' /\ MarkersFit'
  BY DEF ScoreInv, PairFits, LeaseFits, ResultFits, GoodRead, MarkersFit, SetOf
<1>5. TxFits'
  <2> SUFFICES ASSUME NEW q \in LedgerProcs, tx # NoTx, tx.by = {q}
               PROVE  CommitFits(q, tx.row, tx.sides, tx.next)'
    BY DEF TxFits
  <2>1. CommitFits(q, tx.row, tx.sides, tx.next)
    BY DEF ScoreInv, TxFits
  <2>2. PairFits(tx.row, tx.sides)'
    BY <2>1 DEF CommitFits, PairFits, LeaseFits, ResultFits, GoodRead, SetOf
  <2>3. /\ proc'[q].role = proc[q].role
        /\ proc[q].step \in {"prepare", "finish"} => proc'[q].step = proc[q].step
    BY <1>1
  <2> QED
    BY <2>1, <2>2, <2>3 DEF CommitFits, SetOf
<1> QED
  BY <1>3, <1>4, <1>5 DEF ScoreInv

\* The same with marks or reads that are added.
LEMMA ScoreGrow ==
    ASSUME LabelInv, ScoreInv, NEW p \in LedgerProcs, NEW k \in ProcRec,
           proc' = [proc EXCEPT ![p] = k], CommandFits(k)',
           k.role = proc[p].role, proc[p].step \in {"prepare", "finish"} => k.step = proc[p].step,
           UNCHANGED <<row, sides, tx, launched>>,
           markers \subseteq markers', labelReads \subseteq labelReads', MarkersFit'
    PROVE  ScoreInv'
<1>1. /\ proc'[p] = k
      /\ \A q \in LedgerProcs : q # p => proc'[q] = proc[q]
  BY DEF LabelInv, LedgerTyped
<1>2. \A q \in LedgerProcs : CommandFits(proc[q])'
  <2> SUFFICES ASSUME NEW q \in LedgerProcs
               PROVE  CommandFits(proc[q])'
    OBVIOUS
  <2>1. CASE q = p
    BY <1>1, <2>1 DEF CommandFits
  <2>2. CASE q # p
    <3>1. CommandFits(proc[q]) /\ proc'[q] = proc[q]
      BY <1>1, <2>2 DEF ScoreInv
    <3> QED
      BY <3>1 DEF CommandFits, GoodRead, SetOf
  <2> QED
    BY <2>1, <2>2
<1>3. PairFits(row, sides)'
  BY DEF ScoreInv, PairFits, LeaseFits, ResultFits, GoodRead, SetOf
<1>4. TxFits'
  <2> SUFFICES ASSUME NEW q \in LedgerProcs, tx # NoTx, tx.by = {q}
               PROVE  CommitFits(q, tx.row, tx.sides, tx.next)'
    BY DEF TxFits
  <2>1. CommitFits(q, tx.row, tx.sides, tx.next)
    BY DEF ScoreInv, TxFits
  <2>2. PairFits(tx.row, tx.sides)'
    BY <2>1 DEF CommitFits, PairFits, LeaseFits, ResultFits, GoodRead, SetOf
  <2>3. /\ proc'[q].role = proc[q].role
        /\ proc[q].step \in {"prepare", "finish"} => proc'[q].step = proc[q].step
    BY <1>1
  <2> QED
    BY <2>1, <2>2, <2>3 DEF CommitFits, SetOf
<1> QED
  BY <1>2, <1>3, <1>4 DEF ScoreInv

LEMMA ScoreSeal ==
    ASSUME LabelInv, ScoreInv, NEW p \in LedgerProcs,
           NEW r, NEW sd, NEW used, NEW next,
           CommitFits(p, r, sd, next), Seals(p, r, sd, used, next)
    PROVE  ScoreInv'
<1>1. /\ tx' = [by |-> {p}, row |-> r, sides |-> sd, used |-> used, next |-> next]
      /\ UNCHANGED <<row, sides, proc, markers, launched, labelReads>>
  BY DEF Seals, RestOfLedger
<1>2. tx'.row = r /\ tx'.sides = sd /\ tx'.next = next /\ \A q : tx'.by = {q} => q = p
  BY <1>1
<1>3. TxFits'
  <2> SUFFICES ASSUME NEW q \in LedgerProcs, q = p
               PROVE  CommitFits(q, tx.row, tx.sides, tx.next)'
    BY <1>2 DEF TxFits
  <2>1. PairFits(tx.row, tx.sides)'
    BY <1>1, <1>2 DEF CommitFits, PairFits, LeaseFits, ResultFits, GoodRead, SetOf
  <2> QED
    BY <1>1, <1>2, <2>1 DEF CommitFits, SetOf
<1>4. PairFits(row, sides)' /\ MarkersFit'
  BY <1>1 DEF ScoreInv, PairFits, LeaseFits, ResultFits, GoodRead, MarkersFit, SetOf
<1>5. \A q \in LedgerProcs : CommandFits(proc[q])'
  BY <1>1 DEF ScoreInv, CommandFits, GoodRead, SetOf
<1> QED
  BY <1>1, <1>3, <1>4, <1>5 DEF ScoreInv

LEMMA UnlaunchedFits == Unlaunched \in ProcRec /\ CommandFits(Unlaunched)
<1>1. Unlaunched \in ProcRec
  BY DEF Unlaunched, ProcRec, Steps, Pair, AnySet
<1>2. CommandFits(Unlaunched)
  BY TokenTypes DEF Unlaunched, CommandFits, InRole, Evaluations
<1> QED
  BY <1>1, <1>2

LEMMA ScoreRaised ==
    ASSUME LabelInv, ScoreInv, NEW p \in LedgerProcs, tx = NoTx \/ tx.by # {p}, Raised(p),
           UNCHANGED <<row, sides, tx, markers, launched, labelReads>>
    PROVE  ScoreInv'
<1>1. proc[p] \in ProcRec /\ CommandFits(proc[p]) /\ launched' \in 0..MaxLaunches
  BY ScoreTypes
<1>2. CASE Ends(p)
  BY <1>1, <1>2, UnlaunchedFits, ScoreMove DEF Ends
<1>3. CASE Goes(p, "invalidate")
  <2> DEFINE k == [proc[p] EXCEPT !.step = "invalidate"]
  <2>1. k \in ProcRec
    BY <1>1 DEF ProcRec, Steps, Writing
  <2>2. CommandFits(k)
    BY <1>1 DEF ProcRec, CommandFits, InRole, Evaluations
  <2>3. proc' = [proc EXCEPT ![p] = k]
    BY <1>3 DEF Goes
  <2> HIDE DEF k
  <2> QED
    BY <1>1, <2>1, <2>2, <2>3, ScoreMove
<1> QED
  BY <1>2, <1>3 DEF Raised

\* An operation that writes keeps the invariant when what it seals fits.
LEMMA ScoreOperation ==
    ASSUME LabelInv, ScoreInv, NEW p \in LedgerProcs, NEW step, NEW ok, NEW r, NEW sd, NEW next,
           proc[p].step = step /\ row.state # "absent" /\ ok => CommitFits(p, r, sd, next),
           Operation(p, step, ok, r, sd, next)
    PROVE  ScoreInv'
<1>1. tx = NoTx /\ proc[p].step = step
  BY DEF Operation, Connected
<1>2. CASE row.state # "absent" /\ ok
  <2>1. Seals(p, r, sd, usedTokens, next)
    BY <1>2 DEF Operation
  <2> QED
    BY <1>1, <1>2, <2>1, ScoreSeal
<1>3. CASE ~(row.state # "absent" /\ ok)
  <2>1. Raises(p)
    BY <1>3 DEF Operation
  <2> QED
    BY <1>1, <2>1, ScoreRaised DEF Raises, RestOfLedger
<1> QED
  BY <1>2, <1>3


-----------------------------------------------------------------------------
(* What is scored: the operations *)

\* The pair starts again: unscored, with other sides, in another epoch.
LEMMA ScoreReauthorize ==
    ASSUME LabelInv, ScoreInv, NEW p \in LedgerProcs, Reauthorize(p)
    PROVE  ScoreInv'
<1> DEFINE r    == FreshRow("new", proc[p].set, row.epoch + 1)
           to   == IF proc[p].role = "predict" THEN "init" ELSE "snapshot"
           used == usedTokens \cup {proc[p].owner}
<1>1. proc[p].step = "reauthorize" /\ tx = NoTx /\ CommandFits(proc[p]) /\ row.epoch \in Nat
  BY ScoreTypes DEF Reauthorize, Connected
<1>2. CASE Raises(p)
  BY <1>1, <1>2, ScoreRaised DEF Raises, RestOfLedger
<1>3. CASE ~row.revealed /\ Seals(p, r, NoSides, used, To(p, to))
  <2>1. /\ r.state = "new" /\ r.set = proc[p].set /\ r.token = 0 /\ ~r.revealed /\ r.epoch # 0
        /\ \A s \in Sides : NoSides[s].status = "none" /\ NoSides[s].bundle = 0
    BY <1>1 DEF FreshRow, NoSides
  <2>2. To(p, to).step = to
    BY DEF To
  <2> HIDE DEF r, used
  <2>3. PairFits(r, NoSides)
    BY <1>1, <2>1, TokenTypes DEF PairFits, LeaseFits, ResultFits, CommandFits, InFlight
  <2>4. CommitFits(p, r, NoSides, To(p, to))
    BY <1>1, <1>3, <2>1, <2>2, <2>3 DEF CommitFits, CommandFits, InRole, Evaluations
  <2> QED
    BY <1>3, <2>4, ScoreSeal
<1> QED
  BY <1>2, <1>3 DEF Reauthorize

\* What leaves the pair as it is may be committed.
LEMMA SameCommit ==
    ASSUME LabelInv, ScoreInv, NEW p \in LedgerProcs, NEW next,
           InRole(proc[p].role, next.step),
           next.step \in {"prepare", "mark"} => proc[p].step = "prepare",
           next.step = "finish" => proc[p].step = "finish"
    PROVE  CommitFits(p, row, sides, next)
BY ScoreTypes DEF CommitFits

LEMMA ScoreInitialize ==
    ASSUME LabelInv, ScoreInv, NEW p \in LedgerProcs, Initialize(p)
    PROVE  ScoreInv'
<1> DEFINE r == FreshRow("new", Pair, 0)
<1>1. proc[p].step = "init" /\ tx = NoTx /\ CommandFits(proc[p]) /\ PairFits(row, sides)
  BY ScoreTypes DEF Initialize, Connected
<1>2. To(p, "start").step = "start" /\ InRole(proc[p].role, "start")
  BY <1>1 DEF To, CommandFits, InRole, Evaluations
<1>3. CASE Raises(p)
  BY <1>1, <1>3, ScoreRaised DEF Raises, RestOfLedger
<1>4. CASE row.state = "absent" /\ Seals(p, r, NoSides, {}, To(p, "start"))
  <2>1. /\ r.state = "new" /\ r.set = Pair /\ r.token = 0 /\ ~r.revealed
        /\ \A s \in Sides : NoSides[s].status = "none" /\ NoSides[s].bundle = 0
    BY DEF FreshRow, NoSides
  <2> HIDE DEF r
  <2>2. PairFits(r, NoSides)
    BY <2>1, TokenTypes DEF PairFits, LeaseFits, ResultFits, InFlight
  <2>3. CommitFits(p, r, NoSides, To(p, "start"))
    BY <1>1, <1>2, <1>4, <2>2 DEF CommitFits, PairFits, Frozen
  <2> QED
    BY <1>4, <2>3, ScoreSeal
<1>5. CASE Seals(p, row, sides, usedTokens, To(p, "start"))
  BY <1>2, <1>5, SameCommit, ScoreSeal
<1> QED
  BY <1>3, <1>4, <1>5 DEF Initialize

LEMMA ScoreStarted ==
    ASSUME LabelInv, ScoreInv, NEW p \in LedgerProcs, RecordSideStarted(p)
    PROVE  ScoreInv'
<1> DEFINE token == 2 * proc[p].id - 1
           s    == proc[p].side
           r    == [row EXCEPT !.state = "predicting", !.kind = "prediction", !.token = token, !.side = s]
           sd   == [t \in Sides |-> IF t \in s THEN [status |-> "started", dir |-> token, bundle |-> 0] ELSE sides[t]]
           next == WithLease(p, "beat", token)
           ok   == /\ row.state \in {"new", "predicting"} /\ ~Expired
                   /\ \A t \in Sides : sides[t].status # "started"
                   /\ \A t \in s : sides[t].status = "none"
<1>1. Operation(p, "start", ok, r, sd, next)
  BY DEF RecordSideStarted
<1>2. ASSUME proc[p].step = "start", ok
      PROVE  CommitFits(p, r, sd, next)
  <2>1. /\ row \in RowRec /\ CommandFits(proc[p]) /\ PairFits(row, sides) /\ row.state \in {"new", "predicting"}
        /\ \A t \in Sides : sides[t].status # "started"
    BY <1>2, ScoreTypes
  <2>2. proc[p].role = "predict" /\ token \in Tokens /\ token # 0
    BY <1>2, <2>1, TokenTypes DEF CommandFits, InRole
  <2>3. next.step = "beat"
    BY DEF WithLease, To
  <2> HIDE DEF token, next
  <2>4. /\ r.state = "predicting" /\ r.token = token /\ r.side = s /\ r.set = row.set
        /\ r.revealed = row.revealed /\ r.epoch = row.epoch
    BY <2>1 DEF RowRec
  <2>5. \A t \in Sides : \/ t \in s /\ sd[t].status = "started" /\ sd[t].dir = token /\ sd[t].bundle = 0
                         \/ t \notin s /\ sd[t] = sides[t]
    OBVIOUS
  <2> HIDE DEF r, sd, s
  <2>6. LeaseFits(r, sd)
    BY <2>1, <2>2, <2>4, <2>5, TokenTypes DEF PairFits, LeaseFits, InFlight
  <2>7. PairFits(r, sd)
    BY <2>1, <2>2, <2>4, <2>6 DEF PairFits, ResultFits
  <2> QED
    BY <2>1, <2>2, <2>3, <2>4, <2>7 DEF CommitFits, PairFits, Frozen, InRole, Evaluations
<1> HIDE DEF ok, r, sd, next
<1> QED
  BY <1>1, <1>2, ScoreOperation

\* The bundle is the lease of the process, which is the one the side was started under.
LEMMA ScoreSideCompleted ==
    ASSUME LabelInv, ScoreInv, NEW p \in LedgerProcs, RecordSideCompleted(p)
    PROVE  ScoreInv'
<1> DEFINE s     == proc[p].side
           sd    == [t \in Sides |-> IF t \in s THEN [sides[t] EXCEPT !.status = "completed", !.bundle = proc[p].lease]
                                                ELSE sides[t]]
           whole == \A t \in Sides : sd[t].status = "completed"
           r     == [row EXCEPT !.state = IF whole THEN "predictions_frozen" ELSE "predicting",
                                !.kind = "none", !.token = 0, !.side = {}]
           ok    == /\ row.state = "predicting" /\ ~Expired /\ HasLease(p, "prediction", s)
                    /\ \A t \in s : sides[t].status = "started"
<1>1. Operation(p, "complete", ok, r, sd, To(p, "idle"))
  BY DEF RecordSideCompleted
<1>2. ASSUME ok
      PROVE  CommitFits(p, r, sd, To(p, "idle"))
  <2>1. /\ row \in RowRec /\ sides \in [Sides -> SideRec] /\ CommandFits(proc[p]) /\ PairFits(row, sides)
        /\ row.state = "predicting" /\ row.side = s /\ proc[p].lease = row.token
        /\ \A t \in s : sides[t].status = "started"
    BY <1>2, ScoreTypes DEF HasLease
  <2>2. To(p, "idle").step = "idle"
    BY DEF To
  <2>3. \A t \in Sides : \/ /\ t \in s /\ sd[t].status = "completed"
                            /\ sd[t].dir = sides[t].dir /\ sd[t].bundle = row.token
                         \/ t \notin s /\ sd[t] = sides[t]
    BY <2>1 DEF SideRec
  <2> HIDE DEF sd, whole
  <2>4. /\ r.state \in {"predictions_frozen", "predicting"} /\ r.token = 0 /\ r.side = {} /\ r.set = row.set
        /\ r.revealed = row.revealed /\ r.epoch = row.epoch
    BY <2>1 DEF RowRec
  <2> HIDE DEF r, s
  <2>5. LeaseFits(r, sd)
    BY <2>1, <2>3, <2>4, TokenTypes DEF PairFits, LeaseFits, InFlight
  <2>6. PairFits(r, sd)
    BY <2>1, <2>4, <2>5, TokenTypes DEF PairFits, ResultFits
  <2> QED
    BY <2>1, <2>2, <2>4, <2>6 DEF CommitFits, PairFits, Frozen, InRole, Evaluations
<1> HIDE DEF ok, r, sd
<1> QED
  BY <1>1, <1>2, ScoreOperation

LEMMA ScoreHeartbeat ==
    ASSUME LabelInv, ScoreInv, NEW p \in LedgerProcs, Heartbeat(p)
    PROVE  ScoreInv'
<1> DEFINE step == proc[p].step
           to   == CASE step = "beat" -> "look" [] step = "openbeat" -> "wait" [] OTHER -> "running"
           next == [To(p, to) EXCEPT !.spawn = (step = "openbeat")]
<1>1. step \in {"beat", "openbeat", "running"} /\ \E ok : Operation(p, step, ok, row, sides, next)
  BY DEF Heartbeat
<1>2. /\ to \in {"look", "wait", "running"}
      /\ (to = "look" => step = "beat") /\ (to = "wait" => step = "openbeat") /\ (to = "running" => step = "running")
  BY <1>1
<1>3. next.step = to
  BY DEF To
<1> HIDE DEF to, next
<1>4. CommitFits(p, row, sides, next)
  <2>1. InRole(proc[p].role, next.step)
    BY <1>2, <1>3, ScoreTypes DEF CommandFits, InRole, Evaluations
  <2> QED
    BY <1>2, <1>3, <2>1, SameCommit
<1> QED
  BY <1>1, <1>4, ScoreOperation


\* The frozen set is prepared and bound while no label was open.
LEMMA ScoreFreeze ==
    ASSUME LabelInv, ScoreInv, NEW p \in LedgerProcs, PrepareFreeze(p) \/ Bind(p)
    PROVE  ScoreInv'
<1> DEFINE set == proc[p].set
<1>1. CommandFits(proc[p]) /\ row \in RowRec /\ PairFits(row, sides)
  BY ScoreTypes
<1>2. CASE PrepareFreeze(p)
  <2> DEFINE r  == IF row.bound THEN row ELSE [row EXCEPT !.freeze = set]
             ok == /\ row.state = "predictions_frozen"
                   /\ IF row.bound THEN row.set = set ELSE row.freeze \in {Pair, set}
  <2>1. Operation(p, "prepare", ok, r, sides, To(p, "mark"))
    BY <1>2 DEF PrepareFreeze
  <2>2. ASSUME proc[p].step = "prepare"
        PROVE  CommitFits(p, r, sides, To(p, "mark"))
    <3>1. To(p, "mark").step = "mark" /\ InRole(proc[p].role, "mark")
      BY <1>1, <2>2 DEF To, CommandFits, InRole, Evaluations
    <3>2. /\ r.state = row.state /\ r.set = row.set /\ r.token = row.token /\ r.side = row.side
          /\ r.revealed = row.revealed /\ r.scored = row.scored /\ r.epoch = row.epoch
      BY <1>1 DEF RowRec
    <3> HIDE DEF r
    <3>3. PairFits(r, sides)
      BY <1>1, <3>2, SameFits
    <3> QED
      BY <2>2, <3>1, <3>2, <3>3 DEF CommitFits
  <2> HIDE DEF r, ok
  <2> QED
    BY <2>1, <2>2, ScoreOperation
<1>3. ASSUME NEW step \in {"bind", "rebind"}, NEW to \in {"idle", "reserve"},
             BindSet(p, step, To(p, to)), to = "reserve" => step = "rebind"
      PROVE  ScoreInv'
  <2> DEFINE r  == [row EXCEPT !.set = set, !.bound = TRUE, !.freeze = Pair]
             ok == /\ row.state = "predictions_frozen"
                   /\ IF row.bound THEN row.set = set ELSE row.freeze = set
  <2>1. Operation(p, step, ok, r, sides, To(p, to))
    BY <1>3 DEF BindSet
  <2>2. ASSUME proc[p].step = step, ok
        PROVE  CommitFits(p, r, sides, To(p, to))
    <3>1. To(p, to).step = to /\ InRole(proc[p].role, to)
      BY <1>1, <1>3, <2>2 DEF To, CommandFits, InRole, Evaluations
    <3>2. /\ r.state = "predictions_frozen" /\ r.set = set /\ r.token = row.token /\ r.side = row.side
          /\ r.revealed = row.revealed /\ r.epoch = row.epoch /\ row.state = "predictions_frozen"
      BY <1>1, <2>2 DEF RowRec
    <3> HIDE DEF r
    <3>3. PairFits(r, sides) /\ ~row.revealed
      BY <1>1, <3>2 DEF PairFits, LeaseFits, ResultFits, CommandFits
    <3> QED
      BY <1>3, <3>1, <3>2, <3>3 DEF CommitFits
  <2> HIDE DEF r, ok
  <2> QED
    BY <2>1, <2>2, ScoreOperation
<1> QED
  BY <1>2, <1>3 DEF Bind

\* The evaluation is reserved and opened on a frozen set.
LEMMA ScoreReserve ==
    ASSUME LabelInv, ScoreInv, NEW p \in LedgerProcs,
           Reinitialize(p) \/ ReserveEvaluation(p) \/ ReserveLabelOpen(p)
    PROVE  ScoreInv'
<1>1. CommandFits(proc[p]) /\ row \in RowRec /\ PairFits(row, sides)
  BY ScoreTypes
<1>2. CASE Reinitialize(p)
  <2>1. Operation(p, "reinit", row.set = proc[p].seen, row, sides, To(p, "rebind"))
    BY <1>2 DEF Reinitialize
  <2>2. ASSUME proc[p].step = "reinit"
        PROVE  CommitFits(p, row, sides, To(p, "rebind"))
    <3>1. To(p, "rebind").step = "rebind" /\ InRole(proc[p].role, "rebind")
      BY <1>1, <2>2 DEF To, CommandFits, InRole, Evaluations
    <3> QED
      BY <3>1, SameCommit
  <2> QED
    BY <2>1, <2>2, ScoreOperation
<1>3. CASE ReserveEvaluation(p)
  <2> DEFINE token == 2 * proc[p].id - 1
             r  == [row EXCEPT !.state = "prelabel_frozen", !.kind = "prelabel", !.token = token, !.side = {}]
             ok == row.state = "predictions_frozen" /\ row.bound /\ ~row.revealed
             next == WithLease(p, "open", token)
  <2>1. Operation(p, "reserve", ok, r, sides, next)
    BY <1>3 DEF ReserveEvaluation
  <2>2. ASSUME proc[p].step = "reserve", ok
        PROVE  CommitFits(p, r, sides, next)
    <3>1. next.step = "open" /\ InRole(proc[p].role, "open") /\ token \in Tokens /\ token # 0
      BY <1>1, <2>2, TokenTypes DEF WithLease, To, CommandFits, InRole, Evaluations
    <3> HIDE DEF token
    <3>2. /\ r.state = "prelabel_frozen" /\ r.set = row.set /\ r.token = token
          /\ r.revealed = row.revealed /\ r.epoch = row.epoch
          /\ row.state = "predictions_frozen" /\ ~row.revealed
      BY <1>1, <2>2 DEF RowRec
    <3> HIDE DEF r, next
    <3>3. PairFits(r, sides)
      BY <1>1, <3>1, <3>2 DEF PairFits, LeaseFits, ResultFits, InFlight
    <3> QED
      BY <3>1, <3>2, <3>3 DEF CommitFits, Frozen
  <2> HIDE DEF r, ok, next
  <2> QED
    BY <2>1, <2>2, ScoreOperation
<1>4. CASE ReserveLabelOpen(p)
  <2> DEFINE token == 2 * proc[p].id
             r  == [row EXCEPT !.state = "labels_open", !.revealed = TRUE, !.kind = "label_open", !.token = token]
             ok == row.state = "prelabel_frozen" /\ ~Expired /\ HasLease(p, "prelabel", {}) /\ ~row.revealed
             next == WithLease(p, "openbeat", token)
  <2>1. Operation(p, "open", ok, r, sides, next)
    BY <1>4 DEF ReserveLabelOpen
  <2>2. ASSUME proc[p].step = "open", ok
        PROVE  CommitFits(p, r, sides, next)
    <3>1. next.step = "openbeat" /\ InRole(proc[p].role, "openbeat") /\ token \in Tokens /\ token # 0
      BY <1>1, <2>2, TokenTypes DEF WithLease, To, CommandFits, InRole, Evaluations
    <3> HIDE DEF token
    <3>2. /\ r.state = "labels_open" /\ r.set = row.set /\ r.token = token /\ r.epoch = row.epoch
          /\ row.state = "prelabel_frozen" /\ ~row.revealed
      BY <1>1, <2>2 DEF RowRec
    <3> HIDE DEF r, next
    <3>3. PairFits(r, sides)
      BY <1>1, <3>1, <3>2 DEF PairFits, LeaseFits, ResultFits, InFlight
    <3> QED
      BY <3>1, <3>2, <3>3 DEF CommitFits, Frozen
  <2> HIDE DEF r, ok, next
  <2> QED
    BY <2>1, <2>2, ScoreOperation
<1> QED
  BY <1>2, <1>3, <1>4

\* What is written as scored is what the child read: the set the labels were opened
\* for, which nobody could bind anew.
LEMMA ScoreFinish ==
    ASSUME LabelInv, ScoreInv, NEW p \in LedgerProcs, MarkEvaluationCompleted(p)
    PROVE  ScoreInv'
<1> DEFINE r  == [row EXCEPT !.state = "completed", !.scored = proc[p].set, !.kind = "none", !.token = 0]
           ok == row.state = "labels_open" /\ ~Expired /\ HasLease(p, "label_open", {})
<1>1. Operation(p, "finish", ok, r, sides, To(p, "idle"))
  BY DEF MarkEvaluationCompleted
<1>2. ASSUME proc[p].step = "finish", ok
      PROVE  CommitFits(p, r, sides, To(p, "idle"))
  <2>1. CommandFits(proc[p]) /\ row \in RowRec /\ PairFits(row, sides) /\ MarkersFit /\ row.state = "labels_open"
    BY <1>2, ScoreTypes
  <2>2. To(p, "idle").step = "idle" /\ InRole(proc[p].role, "idle")
    BY DEF To, InRole, Evaluations
  <2>3. proc[p].role = "evaluate" /\ proc[p].child = "good"
    BY <1>2, <2>1 DEF CommandFits, InRole, Evaluations
  <2>4. proc[p].set = row.set /\ row.set \in markers /\ GoodRead(row.set)
    BY <2>1, <2>3 DEF CommandFits
  <2>5. row.epoch = 0 => row.set = SetOf(sides)
    BY <2>1, <2>4 DEF MarkersFit
  <2>6. /\ r.state = "completed" /\ r.set = row.set /\ r.token = 0 /\ r.scored = proc[p].set
        /\ r.epoch = row.epoch
    BY <2>1 DEF RowRec
  <2> HIDE DEF r
  <2>7. LeaseFits(r, sides)
    BY <2>1, <2>6 DEF PairFits, LeaseFits, InFlight
  <2>8. PairFits(r, sides)
    BY <2>1, <2>4, <2>5, <2>6, <2>7, TokenTypes DEF PairFits, ResultFits
  <2> QED
    BY <2>2, <2>6, <2>8 DEF CommitFits, Frozen
<1> HIDE DEF r, ok
<1> QED
  BY <1>1, <1>2, ScoreOperation

\* A pair that fails keeps its bundles.
LEMMA FailedCommit ==
    ASSUME LabelInv, ScoreInv, NEW p \in LedgerProcs, NEW next, InRole(proc[p].role, next.step),
           next.step \in {"prepare", "mark"} => proc[p].step = "prepare",
           next.step = "finish" => proc[p].step = "finish"
    PROVE  CommitFits(p, FailedRow(row), FailedSides(sides), next)
<1> DEFINE r == FailedRow(row)  sd == FailedSides(sides)
<1>1. row \in RowRec /\ sides \in [Sides -> SideRec] /\ PairFits(row, sides)
  BY ScoreTypes
<1>2. /\ r.state = "failed" /\ r.set = row.set /\ r.token = 0 /\ r.revealed = row.revealed /\ r.epoch = row.epoch
  BY <1>1 DEF FailedRow, RowRec
<1>3. \A s \in Sides : sd[s].bundle = sides[s].bundle /\ sd[s].status \in {"none", "invalidated"}
  BY <1>1 DEF FailedSides, SideRec
<1>4. SetOf(sd) = SetOf(sides)
  BY <1>3 DEF SetOf
<1> HIDE DEF r, sd
<1>5. PairFits(r, sd)
  BY <1>1, <1>2, <1>3, TokenTypes DEF PairFits, LeaseFits, ResultFits, InFlight
<1> QED
  BY <1>2, <1>4, <1>5 DEF CommitFits, Frozen, r, sd

LEMMA ScoreFails ==
    ASSUME LabelInv, ScoreInv, NEW p \in LedgerProcs,
           InvalidatePair(p) \/ RecoverExpired(p) \/ ReconcileIntent(p) \/ UnlinkIntent(p)
    PROVE  ScoreInv'
<1>1. proc[p] \in ProcRec /\ CommandFits(proc[p]) /\ row \in RowRec /\ launched \in 0..MaxLaunches
  BY ScoreTypes
<1>2. To(p, "idle").step = "idle" /\ InRole(proc[p].role, "idle")
  BY DEF To, InRole, Evaluations
<1>3. CommitFits(p, FailedRow(row), FailedSides(sides), To(p, "idle"))
  BY <1>2, FailedCommit
<1>4. CASE InvalidatePair(p)
  <2>1. Operation(p, "invalidate", TRUE, FailedRow(row), FailedSides(sides), To(p, "idle"))
    BY <1>4 DEF InvalidatePair
  <2> QED
    BY <1>3, <2>1, ScoreOperation
<1>5. CASE RecoverExpired(p)
  <2> DEFINE r  == IF Expired THEN FailedRow(row) ELSE row
             sd == IF Expired THEN FailedSides(sides) ELSE sides
  <2>1. CommitFits(p, row, sides, To(p, "idle"))
    BY <1>2, SameCommit
  <2>2. CommitFits(p, r, sd, To(p, "idle"))
    BY <1>3, <2>1
  <2> HIDE DEF r, sd
  <2>3. Operation(p, "recover", TRUE, r, sd, To(p, "idle"))
    BY <1>5 DEF RecoverExpired, r, sd
  <2> QED
    BY <2>2, <2>3, ScoreOperation
<1>6. CASE ReconcileIntent(p)
  <2> DEFINE next == [To(p, proc[p].step) EXCEPT !.unlink = TRUE]
  <2>1. next.step = proc[p].step
    BY DEF To
  <2> HIDE DEF next
  <2>2. proc[p].step # "mark"
    BY <1>1, <1>6 DEF ReconcileIntent, Fencing, Reading, Writing, CommandFits, InRole
  <2>3. CASE Seals(p, FailedRow(row), FailedSides(sides), usedTokens, next)
    <3>1. CommitFits(p, FailedRow(row), FailedSides(sides), next)
      BY <1>1, <2>1, <2>2, FailedCommit DEF CommandFits
    <3> QED
      BY <2>3, <3>1, ScoreSeal
  <2>4. CASE UNCHANGED <<tx, proc>> /\ RestOfLedger
    BY <2>4, ScoreFrame DEF RestOfLedger
  <2> QED
    BY <1>6, <2>3, <2>4 DEF ReconcileIntent, next
<1>7. CASE UnlinkIntent(p)
  <2> DEFINE k == [proc[p] EXCEPT !.unlink = FALSE]
  <2>1. /\ k \in ProcRec /\ k.step = proc[p].step /\ k.child = proc[p].child /\ k.role = proc[p].role
        /\ k.set = proc[p].set /\ k.id = proc[p].id
    BY <1>1 DEF ProcRec
  <2>2. proc' = [proc EXCEPT ![p] = k] /\ UNCHANGED <<row, sides, tx, markers, launched, labelReads>>
    BY <1>7 DEF UnlinkIntent, RestOfLedger
  <2> HIDE DEF k
  <2>3. CommandFits(k)
    BY <1>1, <2>1 DEF CommandFits
  <2> QED
    BY <1>1, <2>1, <2>2, <2>3, ScoreMove
<1> QED
  BY <1>4, <1>5, <1>6, <1>7


\* Readers go on: a freeze takes the set the sides wrote.
LEMMA ScoreReads ==
    ASSUME LabelInv, ScoreInv, NEW p \in LedgerProcs, LookAndSpawn(p) \/ ReadRecords(p) \/ ReadSnapshot(p)
    PROVE  ScoreInv'
<1>1. /\ proc[p] \in ProcRec /\ CommandFits(proc[p]) /\ row \in RowRec /\ PairFits(row, sides)
      /\ launched \in 0..MaxLaunches /\ tx.by # {p}
  BY ScoreTypes DEF LookAndSpawn, ReadRecords, ReadSnapshot, Reads
<1>2. CASE Raises(p)
  BY <1>1, <1>2, ScoreRaised DEF Raises, RestOfLedger
<1>3. ASSUME NEW k \in ProcRec, proc' = [proc EXCEPT ![p] = k], CommandFits(k), UNCHANGED tx, RestOfLedger
      PROVE  ScoreInv'
  BY <1>1, <1>3, ScoreMove DEF RestOfLedger
<1>4. CASE LookAndSpawn(p) /\ ~Raises(p)
  <2> DEFINE k == [proc[p] EXCEPT !.step = "running", !.child = "runs"]
  <2>1. k \in ProcRec
    BY <1>1 DEF ProcRec, Steps
  <2>2. proc[p].step = "look"
    BY <1>4 DEF LookAndSpawn, Reads
  <2>3. CommandFits(k)
    BY <1>1, <2>2 DEF ProcRec, CommandFits, InRole, Evaluations
  <2>4. proc' = [proc EXCEPT ![p] = k] /\ UNCHANGED tx /\ RestOfLedger
    BY <1>4 DEF LookAndSpawn
  <2> HIDE DEF k
  <2> QED
    BY <1>3, <2>1, <2>3, <2>4
<1>5. CASE ReadRecords(p) /\ ~Raises(p)
  <2> DEFINE set == SetOf(sides)
             k == [proc[p] EXCEPT !.step = "prepare", !.set = set]
  <2>1. set \in AnySet /\ set \in SetIds
    BY <1>1, TokenTypes DEF SetOf, AnySet, SetIds, PairFits, LeaseFits
  <2>2. /\ proc' = [proc EXCEPT ![p] = k] /\ UNCHANGED tx /\ RestOfLedger
        /\ proc[p].step = "records" /\ row.state = "predictions_frozen"
    BY <1>5 DEF ReadRecords, Reads
  <2>3. proc[p].role = "freeze"
    BY <1>1, <2>2 DEF CommandFits, InRole
  <2> HIDE DEF set
  <2>4. k \in ProcRec /\ k.step = "prepare" /\ k.role = "freeze" /\ k.set = set
    BY <1>1, <2>1, <2>3 DEF ProcRec, Steps, Writing
  <2> HIDE DEF k
  <2>5. CommandFits(k)
    BY <2>1, <2>2, <2>4 DEF CommandFits, InRole, Evaluations, Frozen, set
  <2> QED
    BY <1>3, <2>2, <2>4, <2>5
<1>6. CASE ReadSnapshot(p) /\ ~Raises(p)
  <2> DEFINE k == [proc[p] EXCEPT !.step = "reinit", !.seen = row.set]
  <2>1. k \in ProcRec
    BY <1>1 DEF ProcRec, RowRec, Steps, Writing
  <2>2. proc[p].step = "snapshot"
    BY <1>6 DEF ReadSnapshot, Reads
  <2>3. CommandFits(k)
    BY <1>1, <2>2 DEF ProcRec, CommandFits, InRole, Evaluations
  <2>4. proc' = [proc EXCEPT ![p] = k] /\ UNCHANGED tx /\ RestOfLedger
    BY <1>6 DEF ReadSnapshot
  <2> HIDE DEF k
  <2> QED
    BY <1>3, <2>1, <2>3, <2>4
<1> QED
  BY <1>2, <1>4, <1>5, <1>6

\* The marker of a freeze: in the first epoch the set of the sides.
LEMMA ScoreMarker ==
    ASSUME LabelInv, ScoreInv, NEW p \in LedgerProcs, WriteMarker(p)
    PROVE  ScoreInv'
<1>1. proc[p] \in ProcRec /\ CommandFits(proc[p]) /\ MarkersFit
  BY ScoreTypes
<1>2. PICK k : k = [proc[p] EXCEPT !.step = "bind"]
  OBVIOUS
<1>3. /\ proc[p].step = "mark" /\ proc' = [proc EXCEPT ![p] = k]
      /\ markers' = markers \cup {proc[p].set}
      /\ UNCHANGED <<row, sides, tx, launched, labelReads>>
  BY <1>2 DEF WriteMarker, Goes
<1>4. k \in ProcRec /\ k.step = "bind" /\ k.role = proc[p].role /\ k.set = proc[p].set
  BY <1>1, <1>2 DEF ProcRec, Steps, Writing
<1>5. k.role = "freeze"
  BY <1>1, <1>3, <1>4 DEF CommandFits, InRole
<1>6. CommandFits(k)'
  BY <1>1, <1>4, <1>5 DEF CommandFits, InRole, Evaluations
<1>7. MarkersFit'
  BY <1>1, <1>3 DEF MarkersFit, CommandFits, SetOf
<1> QED
  BY <1>3, <1>4, <1>6, <1>7, ScoreGrow

\* The child reads the labels and scores.
LEMMA ScoreScores ==
    ASSUME LabelInv, ScoreInv, NEW p \in LedgerProcs, ChildScores(p)
    PROVE  ScoreInv'
<1>1. PICK result \in {"good", "bad"} :
        /\ proc' = [proc EXCEPT ![p].child = result]
        /\ labelReads' = labelReads \cup {[id |-> proc[p].id, set |-> proc[p].set, result |-> result]}
  BY DEF ChildScores
<1> DEFINE read == [id |-> proc[p].id, set |-> proc[p].set, result |-> result]
<1>2. /\ proc[p] \in ProcRec /\ CommandFits(proc[p]) /\ MarkersFit /\ proc[p].child = "fenced"
      /\ UNCHANGED <<row, sides, tx, launched, markers>>
  BY ScoreTypes DEF ChildScores
<1> PICK k : k = [proc[p] EXCEPT !.child = result]
  OBVIOUS
<1>3. /\ k \in ProcRec /\ k.step = proc[p].step /\ k.role = proc[p].role /\ k.set = proc[p].set
      /\ k.child = result /\ k.id = proc[p].id /\ proc' = [proc EXCEPT ![p] = k]
  BY <1>1, <1>2 DEF ProcRec
<1>4. read \in labelReads' /\ read.set = k.set /\ read.result = result /\ labelReads \subseteq labelReads'
  BY <1>1, <1>3
<1> HIDE DEF read
<1>5. result = "good" => GoodRead(k.set)'
  BY <1>4 DEF GoodRead
<1>6. CommandFits(k)'
  BY <1>2, <1>3, <1>5 DEF CommandFits, SetOf
<1>7. MarkersFit'
  BY <1>2 DEF MarkersFit, SetOf
<1> QED
  BY <1>2, <1>3, <1>4, <1>6, <1>7, ScoreGrow

\* A process outside the lock: its children, the errors it meets.
LEMMA ScoreMoves ==
    ASSUME LabelInv, ScoreInv, NEW p \in LedgerProcs,
           \/ PredictionEnds(p) \/ PredictionSeen(p) \/ ChildFence(p)
           \/ ChildSeen(p) \/ OrphanEnds(p) \/ Unsealed(p) \/ Busy(p) \/ KillCommand(p)
    PROVE  ScoreInv'
<1>1. /\ proc[p] \in ProcRec /\ CommandFits(proc[p]) /\ launched \in 0..MaxLaunches /\ NoTx.by # {p}
  BY ScoreTypes DEF NoTx
<1>2. tx # NoTx /\ tx.by = {p} => MayWrite(proc[p])
  BY DEF LabelInv, TxSound
<1>3. ASSUME NEW step \in {"complete", "finish", "orphan", "invalidate"},
             step = "finish" => proc[p].role = "evaluate" /\ proc[p].child = "good",
             proc' = [proc EXCEPT ![p].step = step], tx = NoTx \/ tx.by # {p},
             UNCHANGED <<row, sides, tx, markers, labelReads, launched>>
      PROVE  ScoreInv'
  <2> DEFINE k == [proc[p] EXCEPT !.step = step]
  <2>1. /\ k \in ProcRec /\ k.step = step /\ k.role = proc[p].role /\ k.set = proc[p].set
        /\ k.child = proc[p].child /\ k.id = proc[p].id /\ proc' = [proc EXCEPT ![p] = k]
    BY <1>1, <1>3 DEF ProcRec, Steps, Writing
  <2> HIDE DEF k
  <2>2. CommandFits(k)
    BY <1>1, <1>3, <2>1 DEF CommandFits, InRole, Evaluations
  <2> QED
    BY <1>1, <1>3, <2>1, <2>2, ScoreMove
<1>4. ASSUME NEW child \in {"good", "bad", "fenced"}, proc' = [proc EXCEPT ![p].child = child],
             proc[p].child = "runs",
             proc[p].role = "evaluate" => child # "good" /\ (child = "fenced" => proc[p].set = row.set),
             UNCHANGED <<row, sides, tx, markers, labelReads, launched>>
      PROVE  ScoreInv'
  <2> DEFINE k == [proc[p] EXCEPT !.child = child]
  <2>1. /\ k \in ProcRec /\ k.step = proc[p].step /\ k.role = proc[p].role /\ k.set = proc[p].set
        /\ k.child = child /\ k.id = proc[p].id /\ proc' = [proc EXCEPT ![p] = k]
    BY <1>1, <1>4 DEF ProcRec
  <2> HIDE DEF k
  <2>2. CommandFits(k)
    BY <1>1, <1>4, <2>1 DEF CommandFits
  <2> QED
    BY <1>1, <1>4, <2>1, <2>2, ScoreMove
<1>5. ASSUME proc' = [proc EXCEPT ![p] = Unlaunched], tx = NoTx \/ tx.by # {p},
             UNCHANGED <<row, sides, tx, markers, labelReads, launched>>
      PROVE  ScoreInv'
  BY <1>1, <1>5, UnlaunchedFits, ScoreMove
<1>6. CASE PredictionEnds(p)
  <2>1. PICK result \in {"good", "bad"} : proc' = [proc EXCEPT ![p].child = result]
    BY <1>6 DEF PredictionEnds
  <2>2. proc[p].role = "predict"
    BY <1>1, <1>6 DEF PredictionEnds, CommandFits, InRole
  <2> QED
    BY <1>4, <1>6, <2>1, <2>2 DEF PredictionEnds, RestOfLedger
<1>7. CASE PredictionSeen(p)
  <2>1. CASE Raised(p)
    BY <1>7, <2>1, ScoreRaised DEF PredictionSeen, RestOfLedger
  <2>2. CASE Goes(p, "complete")
    BY <1>3, <1>7, <2>2 DEF PredictionSeen, Goes, RestOfLedger
  <2> QED
    BY <1>7, <2>1, <2>2 DEF PredictionSeen
<1>8. CASE ChildFence(p)
  <2> DEFINE open == /\ Sealed /\ row.state = "labels_open"
                     /\ HasLease(p, "label_open", {}) /\ row.set = proc[p].set
             child == IF open THEN "fenced" ELSE "bad"
  <2>1. /\ proc' = [proc EXCEPT ![p].child = child]
        /\ child \in {"good", "bad", "fenced"} /\ child # "good" /\ (child = "fenced" => proc[p].set = row.set)
    BY <1>8 DEF ChildFence
  <2> HIDE DEF child
  <2> QED
    BY <1>4, <1>8, <2>1 DEF ChildFence, Fencing, RestOfLedger
<1>9. CASE ChildSeen(p)
  <2>1. tx = NoTx \/ tx.by # {p}
    BY <1>1, <1>2, <1>9 DEF ChildSeen, MayWrite, Reading, Writing
  <2>2. CASE Raised(p)
    BY <1>9, <2>1, <2>2, ScoreRaised DEF ChildSeen, RestOfLedger
  <2>3. CASE proc[p].child = "good" /\ Goes(p, "finish")
    <3>1. proc[p].role = "evaluate"
      BY <1>1, <1>9 DEF ChildSeen, CommandFits, InRole, Evaluations
    <3> QED
      BY <1>3, <1>9, <2>1, <2>3, <3>1 DEF ChildSeen, Goes, RestOfLedger
  <2> QED
    BY <1>9, <2>2, <2>3 DEF ChildSeen
<1>10. CASE OrphanEnds(p)
  <2>1. tx = NoTx \/ tx.by # {p}
    BY <1>1, <1>2, <1>10 DEF OrphanEnds, MayWrite, Reading, Writing
  <2> QED
    BY <1>5, <1>10, <2>1 DEF OrphanEnds, Ends, RestOfLedger
<1>11. CASE Unsealed(p)
  BY <1>11, ScoreRaised DEF Unsealed, Raises, RestOfLedger
<1>12. CASE Busy(p)
  <2>1. tx.by # {p} /\ UNCHANGED tx /\ RestOfLedger
    BY <1>12 DEF Busy
  <2>2. CASE Raised(p)
    BY <2>1, <2>2, ScoreRaised DEF RestOfLedger
  <2>3. CASE Ends(p)
    BY <1>5, <2>1, <2>3 DEF Ends, RestOfLedger
  <2>4. CASE Goes(p, "invalidate")
    BY <1>3, <2>1, <2>4 DEF Goes, RestOfLedger
  <2> QED
    BY <1>12, <2>2, <2>3, <2>4 DEF Busy
<1>13. CASE KillCommand(p)
  <2>1. tx = NoTx \/ tx.by # {p}
    BY <1>13 DEF KillCommand
  <2>2. UNCHANGED <<row, sides, tx, markers, launched, labelReads>>
    BY <1>13 DEF KillCommand
  <2>3. CASE proc' = [proc EXCEPT ![p] = Unlaunched]
    BY <1>5, <2>1, <2>2, <2>3
  <2>4. CASE proc' # [proc EXCEPT ![p] = Unlaunched]
    <3>1. proc' = [proc EXCEPT ![p].step = "orphan"]
      BY <1>13, <2>4 DEF KillCommand
    <3> QED
      BY <1>3, <2>1, <2>2, <3>1
  <2> QED
    BY <2>3, <2>4
<1> QED
  BY <1>6, <1>7, <1>8, <1>9, <1>10, <1>11, <1>12, <1>13


\* The transaction commits: nobody who has seen the labels finds another set, and
\* in the first epoch the frozen set stays.
LEMMA ScoreCommit ==
    ASSUME LabelInv, ScoreInv, NEW p \in LedgerProcs, Commit(p)
    PROVE  ScoreInv'
<1> PICK n : n = tx.next
  OBVIOUS
<1> PICK r : r = tx.row
  OBVIOUS
<1> PICK sd : sd = tx.sides
  OBVIOUS
<1> DEFINE on == [proc[p] EXCEPT !.step = n.step, !.lease = n.lease, !.unlink = n.unlink,
                                 !.child = IF n.spawn THEN "runs" ELSE proc[p].child]
           k  == IF n.step = "idle" THEN Unlaunched ELSE on
<1>1. /\ proc' = [proc EXCEPT ![p] = k] /\ sides' = sd /\ tx' = NoTx
      /\ row' = [r EXCEPT !.over = row.over /\ r.token = row.token]
      /\ UNCHANGED <<markers, launched, labelReads>>
  <2>1. proc' = [proc EXCEPT ![p] = k]
    BY Zenon DEF Commit
  <2>2. row' = [r EXCEPT !.over = row.over /\ r.token = row.token]
    BY Zenon DEF Commit
  <2> QED
    BY <2>1, <2>2, Zenon DEF Commit
<1>2. /\ proc[p] \in ProcRec /\ CommandFits(proc[p]) /\ MarkersFit /\ launched \in 0..MaxLaunches
      /\ proc \in [LedgerProcs -> ProcRec]
  BY ScoreTypes DEF LabelInv, LedgerTyped
<1>3. r \in RowRec /\ n \in NextRec
  BY DEF Commit, LabelInv, LedgerTyped, TxRec
<1>4. CommitFits(p, r, sd, n) /\ MayCommit(p, r, n)
  BY DEF Commit, ScoreInv, TxFits, LabelInv, TxSound
<1>5. /\ row'.state = r.state /\ row'.set = r.set /\ row'.token = r.token /\ row'.side = r.side
      /\ row'.revealed = r.revealed /\ row'.scored = r.scored /\ row'.epoch = r.epoch
  BY <1>1, <1>3 DEF RowRec
<1>6. PairFits(row, sides)'
  <2>1. PairFits(r, sd)
    BY <1>4 DEF CommitFits
  <2> QED
    BY <1>1, <1>5, <2>1 DEF PairFits, LeaseFits, ResultFits, GoodRead, SetOf
<1>7. MarkersFit'
  BY <1>1, <1>2, <1>4, <1>5 DEF CommitFits, MarkersFit, SetOf
<1>8. \A q \in LedgerProcs :
        proc[q].role = "evaluate" /\ proc[q].child \in {"fenced", "good"} => row.revealed
  <2> SUFFICES ASSUME NEW q \in LedgerProcs, proc[q].role = "evaluate", proc[q].child \in {"fenced", "good"}
               PROVE  row.revealed
    OBVIOUS
  <2>1. CASE proc[q].child = "fenced"
    BY <2>1 DEF LabelInv, Revealed, MayRead
  <2>2. CASE proc[q].child = "good"
    <3>1. labelReads # {}
      BY <2>2 DEF ScoreInv, CommandFits, GoodRead
    <3> QED
      BY <3>1 DEF LabelInv, Revealed
  <2> QED
    BY <2>1, <2>2
\* The record of a process that the commit does not move fits the new row.
<1>9. ASSUME NEW q \in LedgerProcs
      PROVE  CommandFits(proc[q]) => \A x : x = proc[q] => CommandFits(x)'
  <2> SUFFICES ASSUME NEW x, x = proc[q], CommandFits(x)
               PROVE  CommandFits(x)'
    OBVIOUS
  <2>1. x.role = "evaluate" /\ x.child \in {"fenced", "good"} => row'.set = row.set
    BY <1>4, <1>5, <1>8 DEF CommitFits
  <2>2. row'.epoch = 0 => row.epoch = 0
    BY <1>4, <1>5 DEF CommitFits
  <2>3. row'.epoch = 0 /\ row.state \in Frozen => row'.state \in Frozen /\ SetOf(sides)' = SetOf(sides)
    BY <1>1, <1>4, <1>5 DEF CommitFits, SetOf
  <2>4. GoodRead(x.set)' <=> GoodRead(x.set)
    BY <1>1 DEF GoodRead
  <2> QED
    BY <1>1, <2>1, <2>2, <2>3, <2>4 DEF CommandFits
<1>10. PICK x : x = k
  OBVIOUS
<1>11. x \in ProcRec /\ CommandFits(x)'
  <2>1. CASE n.step = "idle"
    <3>1. x = Unlaunched
      BY <1>10, <2>1
    <3>2. CommandFits(x)'
      BY <3>1, TokenTypes DEF Unlaunched, CommandFits, InRole, Evaluations
    <3> QED
      BY <3>1, <3>2, UnlaunchedFits
  <2>2. CASE n.step # "idle"
    <3>1. PICK old : old = proc[p]
      OBVIOUS
    <3>2. CommandFits(old) /\ CommandFits(old)'
      BY <1>2, <1>9, <3>1
    <3>3. /\ x \in ProcRec /\ x.step = n.step /\ x.role = old.role /\ x.set = old.set /\ x.id = old.id
          /\ x.child = IF n.spawn THEN "runs" ELSE old.child
      <4>1. PICK child : child = IF n.spawn THEN "runs" ELSE old.child
        OBVIOUS
      <4>2. x = [old EXCEPT !.step = n.step, !.lease = n.lease, !.unlink = n.unlink, !.child = child]
        BY <1>10, <2>2, <3>1, <4>1
      <4>3. old \in ProcRec /\ child \in {"none", "runs", "good", "bad", "fenced"}
        BY <1>2, <3>1, <4>1 DEF ProcRec
      <4>4. /\ n.step \in Steps \cup {"orphan"} /\ n.lease \in Int /\ n.unlink \in BOOLEAN
        BY <1>3 DEF NextRec
      <4> QED
        BY <4>1, <4>2, <4>3, <4>4 DEF ProcRec
    <3>4. /\ InRole(old.role, n.step)
          /\ n.step \in {"prepare", "mark"} => old.step = "prepare"
          /\ n.step = "finish" => old.step = "finish"
          /\ n.spawn => old.step = "openbeat"
      BY <1>4, <3>1 DEF CommitFits, MayCommit
    <3> HIDE DEF k
    <3> QED
      BY <3>2, <3>3, <3>4 DEF CommandFits
  <2> QED
    BY <2>1, <2>2
<1> HIDE DEF k
<1>12. /\ proc'[p] = x
       /\ \A q \in LedgerProcs : q # p => proc'[q] = proc[q]
  BY <1>1, <1>2, <1>10, <1>11
<1>13. \A q \in LedgerProcs : CommandFits(proc[q])'
  <2> SUFFICES ASSUME NEW q \in LedgerProcs
               PROVE  CommandFits(proc[q])'
    OBVIOUS
  <2>1. PICK y : y = proc'[q]
    OBVIOUS
  <2>2. CommandFits(y)'
    <3>1. CASE q = p
      BY <1>11, <1>12, <2>1, <3>1
    <3>2. CASE q # p
      BY <1>9, <1>12, <2>1, <3>2 DEF ScoreInv
    <3> QED
      BY <3>1, <3>2
  <2> QED
    BY <2>1, <2>2 DEF CommandFits
<1>14. TxFits' /\ launched' \in 0..MaxLaunches
  BY <1>1, <1>2 DEF TxFits
<1> QED
  BY <1>6, <1>7, <1>13, <1>14 DEF ScoreInv

\* The transaction is rolled back, its process ends.
LEMMA ScoreTorn ==
    ASSUME LabelInv, ScoreInv, NEW p \in LedgerProcs, TornCommit(p)
    PROVE  ScoreInv'
<1>1. /\ proc' = [proc EXCEPT ![p] = Unlaunched] /\ tx' = NoTx
      /\ UNCHANGED <<row, sides, markers, launched, labelReads>>
  BY DEF TornCommit, Ends, RestOfLedger
<1>2. \A q \in LedgerProcs : CommandFits(proc'[q])
  BY <1>1, UnlaunchedFits DEF LabelInv, LedgerTyped, ScoreInv
<1>3. \A q \in LedgerProcs : CommandFits(proc[q])'
  BY <1>1, <1>2 DEF CommandFits, GoodRead, SetOf
<1>4. PairFits(row, sides)' /\ MarkersFit'
  BY <1>1 DEF ScoreInv, PairFits, LeaseFits, ResultFits, GoodRead, MarkersFit, SetOf
<1>5. TxFits' /\ launched' \in 0..MaxLaunches
  BY <1>1 DEF TxFits, ScoreInv
<1> QED
  BY <1>3, <1>4, <1>5 DEF ScoreInv

\* A command starts in an idle slot; an evaluation on a marked set.
LEMMA ScoreLaunch ==
    ASSUME LabelInv, ScoreInv, NEW p \in LedgerProcs,
           LaunchPredict(p) \/ LaunchFreeze(p) \/ LaunchEvaluate(p) \/ LaunchRecovery(p)
    PROVE  ScoreInv'
<1>1. proc[p].step = "idle" /\ proc[p].child = "none"
  <2>1. Free(p)
    BY Zenon DEF LaunchPredict, LaunchFreeze, LaunchEvaluate, LaunchRecovery, Launch
  <2> QED
    BY <2>1, LedgerTypes DEF Free, InPlace
<1>2. ~(tx # NoTx /\ tx.by = {p})
  BY <1>1 DEF LabelInv, TxSound, MayWrite, Reading, Writing
<1>3. /\ MaxLaunches \in Nat /\ launched \in 0..MaxLaunches /\ markers \subseteq SetIds
      /\ markers \subseteq AnySet
  BY PairLedgerAssumption, ScoreTypes, LedgerTypes
<1>4. ASSUME NEW u \in ProcRec, Launch(p, u), u.child = "none", u.set \in SetIds, InRole(u.role, u.step),
             u.role = "evaluate" => u.set \in markers,
             u.step \in {"init", "reauthorize", "records", "snapshot"}
      PROVE  ScoreInv'
  <2> DEFINE k == [u EXCEPT !.id = launched + 1]
  <2>1. launched + 1 \in 1..MaxLaunches /\ launched + 1 \in Int
    BY <1>3, <1>4 DEF Launch
  <2>2. /\ k \in ProcRec /\ k.child = u.child /\ k.step = u.step /\ k.role = u.role /\ k.set = u.set
        /\ k.id = launched + 1
    BY <2>1 DEF ProcRec
  <2>3. /\ proc' = [proc EXCEPT ![p] = k] /\ launched' = launched + 1
        /\ UNCHANGED <<row, sides, tx, markers, labelReads>>
    BY <1>4 DEF Launch
  <2> HIDE DEF k
  <2>4. CommandFits(k)
    BY <1>4, <2>1, <2>2 DEF CommandFits
  <2>5. launched' \in 0..MaxLaunches
    BY <1>3, <2>1, <2>3
  <2> QED
    BY <1>2, <2>2, <2>3, <2>4, <2>5, ScoreMove
<1>5. /\ Unlaunched \in ProcRec /\ Unlaunched.child = "none" /\ Unlaunched.set = Pair /\ Pair \in SetIds
  BY UnlaunchedFits, TokenTypes DEF Unlaunched
<1>6. CASE LaunchPredict(p)
  <2>1. PICK s \in Sides, o \in OwnerTokens \cup {0} :
          Launch(p, [Unlaunched EXCEPT !.role = "predict", !.side = {s}, !.owner = o,
                                       !.step = IF o = 0 THEN "init" ELSE "reauthorize"])
    BY <1>6 DEF LaunchPredict
  <2> DEFINE step == IF o = 0 THEN "init" ELSE "reauthorize"
             u == [Unlaunched EXCEPT !.role = "predict", !.side = {s}, !.owner = o, !.step = step]
  <2>2. step \in Steps /\ step \in {"init", "reauthorize"}
    BY DEF Steps, Writing
  <2>3. Launch(p, u)
    BY <2>1
  <2> HIDE DEF step
  <2>4. u \in ProcRec /\ u.child = "none" /\ u.step = step /\ u.role = "predict" /\ u.set = Pair
    BY <1>5, <2>2 DEF ProcRec
  <2> HIDE DEF u
  <2>5. InRole(u.role, u.step)
    BY <2>2, <2>4 DEF InRole, Evaluations
  <2> QED
    BY <1>4, <1>5, <2>2, <2>3, <2>4, <2>5
<1>7. CASE LaunchFreeze(p)
  <2> DEFINE u == [Unlaunched EXCEPT !.role = "freeze", !.step = "records"]
  <2>1. u \in ProcRec /\ u.child = "none" /\ u.step = "records" /\ u.role = "freeze" /\ u.set = Pair
    BY <1>5 DEF ProcRec, Steps, Reading
  <2>2. Launch(p, u)
    BY <1>7 DEF LaunchFreeze
  <2> HIDE DEF u
  <2>3. InRole(u.role, u.step)
    BY <2>1 DEF InRole, Evaluations
  <2> QED
    BY <1>4, <1>5, <2>1, <2>2, <2>3
<1>8. CASE LaunchEvaluate(p)
  <2>1. PICK set \in markers, o \in OwnerTokens \cup {0} :
          Launch(p, [Unlaunched EXCEPT !.role = "evaluate", !.set = set, !.owner = o,
                                       !.step = IF o = 0 THEN "snapshot" ELSE "reauthorize"])
    BY <1>8 DEF LaunchEvaluate
  <2> DEFINE step == IF o = 0 THEN "snapshot" ELSE "reauthorize"
             u == [Unlaunched EXCEPT !.role = "evaluate", !.set = set, !.owner = o, !.step = step]
  <2>2. step \in Steps /\ step \in {"snapshot", "reauthorize"} /\ set \in AnySet /\ set \in SetIds
    BY <1>3, <2>1 DEF Steps, Reading, Writing
  <2>3. Launch(p, u)
    BY <2>1
  <2> HIDE DEF step
  <2>4. u \in ProcRec /\ u.child = "none" /\ u.step = step /\ u.role = "evaluate" /\ u.set = set
    BY <1>5, <2>2 DEF ProcRec
  <2> HIDE DEF u
  <2>5. InRole(u.role, u.step)
    BY <2>2, <2>4 DEF InRole, Evaluations
  <2> QED
    BY <1>4, <2>1, <2>2, <2>3, <2>4, <2>5
<1>9. CASE LaunchRecovery(p)
  <2> DEFINE k == [Unlaunched EXCEPT !.role = "recover", !.step = "recover"]
  <2>1. k \in ProcRec /\ k.child = "none" /\ k.step = "recover" /\ k.role = "recover" /\ k.set = Pair
    BY <1>5 DEF ProcRec, Steps, Writing
  <2>2. /\ proc' = [proc EXCEPT ![p] = k] /\ launched' \in 0..MaxLaunches
        /\ UNCHANGED <<row, sides, tx, markers, labelReads>>
    BY <1>3, <1>9 DEF LaunchRecovery, RestOfLedger
  <2> HIDE DEF k
  <2>3. CommandFits(k)
    BY <1>5, <2>1 DEF CommandFits, InRole, Evaluations
  <2> QED
    BY <1>2, <2>1, <2>2, <2>3, ScoreMove
<1> QED
  BY <1>6, <1>7, <1>8, <1>9

LEMMA ScoreLapse ==
    ASSUME LabelInv, ScoreInv, LeaseLapses
    PROVE  ScoreInv'
<1>1. /\ row' = [row EXCEPT !.over = TRUE] /\ row \in RowRec
      /\ UNCHANGED <<sides, tx, markers, proc, launched, labelReads>>
  BY DEF LeaseLapses, LabelInv, LedgerTyped
<1>2. /\ row'.state = row.state /\ row'.set = row.set /\ row'.token = row.token /\ row'.side = row.side
      /\ row'.revealed = row.revealed /\ row'.scored = row.scored /\ row'.epoch = row.epoch
  BY <1>1 DEF RowRec
<1>3. PairFits(row, sides)' /\ MarkersFit' /\ launched' \in 0..MaxLaunches
  BY <1>1, <1>2 DEF ScoreInv, PairFits, LeaseFits, ResultFits, GoodRead, MarkersFit, SetOf
<1>4. \A q \in LedgerProcs : CommandFits(proc[q])'
  BY <1>1, <1>2 DEF ScoreInv, CommandFits, GoodRead, SetOf
<1>5. TxFits'
  <2> SUFFICES ASSUME NEW q \in LedgerProcs, tx # NoTx, tx.by = {q}
               PROVE  CommitFits(q, tx.row, tx.sides, tx.next)'
    BY <1>1 DEF TxFits
  <2>1. CommitFits(q, tx.row, tx.sides, tx.next)
    BY DEF ScoreInv, TxFits
  <2>2. PairFits(tx.row, tx.sides)'
    BY <1>1, <2>1 DEF CommitFits, PairFits, LeaseFits, ResultFits, GoodRead, SetOf
  <2> QED
    BY <1>1, <1>2, <2>1, <2>2 DEF CommitFits, SetOf
<1> QED
  BY <1>3, <1>4, <1>5 DEF ScoreInv

-----------------------------------------------------------------------------
(* What is scored: the invariant holds *)

LEMMA ScoreInit == ASSUME LedgerInit PROVE ScoreInv
<1>1. MaxLaunches \in Nat
  BY PairLedgerAssumption
<1>2. /\ row.state = "absent" /\ row.set = Pair /\ row.token = 0 /\ ~row.revealed /\ row.epoch = 0
      /\ \A s \in Sides : sides[s].status = "none" /\ sides[s].bundle = 0
  BY DEF LedgerInit, FreshRow, NoSides
<1>3. PairFits(row, sides)
  BY <1>2, TokenTypes DEF PairFits, LeaseFits, ResultFits, InFlight
<1>4. \A p \in LedgerProcs : CommandFits(proc[p])
  BY UnlaunchedFits DEF LedgerInit
<1> QED
  BY <1>1, <1>3, <1>4 DEF LedgerInit, ScoreInv, MarkersFit, TxFits

\* Every step keeps what is scored within what was frozen.
LEMMA ScoreStep == ASSUME LabelInv, ScoreInv, [LedgerNext]_ledgerVars PROVE ScoreInv'
<1>1. CASE UNCHANGED ledgerVars
  BY <1>1, ScoreFrame DEF ledgerVars
<1>2. CASE LeaseLapses
  BY <1>2, ScoreLapse
<1>3. ASSUME NEW p \in LedgerProcs, ProcStep(p)
      PROVE  ScoreInv'
  BY <1>3, ScoreReauthorize, ScoreInitialize, ScoreStarted, ScoreSideCompleted, ScoreHeartbeat, ScoreReads,
     ScoreMarker, ScoreFreeze, ScoreReserve, ScoreFinish, ScoreFails, ScoreMoves, ScoreCommit DEF ProcStep
<1>4. ASSUME NEW p \in LedgerProcs, ChildStep(p) \/ Heartbeat(p) \/ Busy(p) \/ TornCommit(p) \/ KillCommand(p)
      PROVE  ScoreInv'
  BY <1>4, ScoreMoves, ScoreScores, ScoreHeartbeat, ScoreTorn DEF ChildStep
<1>5. ASSUME NEW p \in LedgerProcs,
             LaunchPredict(p) \/ LaunchFreeze(p) \/ LaunchEvaluate(p) \/ LaunchRecovery(p)
      PROVE  ScoreInv'
  BY <1>5, ScoreLaunch
<1> QED
  BY <1>1, <1>2, <1>3, <1>4, <1>5 DEF LedgerNext

LEMMA ScoreConsistent == ASSUME LabelInv, ScoreInv PROVE LedgerConsistent
<1>1. LedgerTyped /\ PairFits(row, sides)
  BY DEF LabelInv, ScoreInv
<1>2. LedgerTypeOK
  BY <1>1 DEF LedgerTyped, RowRec, SideRec, ProcRec, PairFits, LeaseFits, LedgerTypeOK
<1>3. BundleFromItsRun
  BY <1>1 DEF PairFits, LeaseFits, BundleFromItsRun
<1>4. ScoredIsFrozen
  BY <1>1 DEF PairFits, ResultFits, GoodRead, ScoredIsFrozen
<1> QED
  BY <1>2, <1>3, <1>4 DEF LedgerConsistent

\* What an evaluation writes as scored is the set that was bound when the labels were
\* opened, and in the first epoch the set the sides wrote, each side by the process that
\* held its lease (record_side_completed, prepare_prediction_set_freeze,
\* bind_prediction_set_hash, mark_evaluation_completed).
THEOREM LedgerHolds == LedgerSpec => []LedgerConsistent
<1>1. LedgerInit => LabelInv /\ ScoreInv
  BY LabelInit, ScoreInit
<1>2. LabelInv /\ ScoreInv /\ [LedgerNext]_ledgerVars => LabelInv' /\ ScoreInv'
  BY LabelStep, ScoreStep
<1>3. LabelInv /\ ScoreInv => LedgerConsistent
  BY ScoreConsistent
<1> QED
  BY <1>1, <1>2, <1>3, PTL DEF LedgerSpec
=============================================================================

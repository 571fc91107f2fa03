---------------------------- MODULE ExecutionProofs ----------------------------
(***************************************************************************)
(* Proofs about what carries out a diagnosis: the tool calls of a session, *)
(* the intake of a result and the V4 plan, for any number of sessions and  *)
(* queries, every result, every plan and every write that fails.           *)
(*                                                                         *)
(* The argument for the tool calls: a query is remembered before anything  *)
(* is awaited, so a logical call has one invocation in a process, and what *)
(* that invocation may do next is told by the last event of its call.  A   *)
(* cancelled wait for admission writes a call that nobody admitted; the    *)
(* budget therefore bounds the calls that started together with those that *)
(* are admitted.  While the run holds, an invocation settles only when its *)
(* call is closed; when it no longer does, invocations leave calls open,   *)
(* and none can be opened after the run has closed them.                   *)
(***************************************************************************)
EXTENDS ToolSession, TaskEngine, ResultIntake, FiniteSetTheorems, SequenceTheorems,
        WellFoundedInduction, TLAPS

-----------------------------------------------------------------------------
(* Typing *)

Happenings == Endings \cup {"started"}
LogicalIds == [life: 0..MaxToolFaults, session: Sessions, query: Queries]
AskRec     == [step: AskSteps, id: CallIds \cup {NoAsk}, stops: BOOLEAN]
SessionRec == [asked: 0..MaxAsks, prints: SUBSET Queries, halted: BOOLEAN, known: SUBSET CallIds,
               cancelling: BOOLEAN]

ToolTyped ==
    /\ ask \in [Asks -> AskRec] /\ session \in [Sessions -> SessionRec]
    /\ Rows \subseteq CallIds /\ \A id \in Rows : toolLog[id] \in Seq(Happenings) /\ Len(toolLog[id]) > 0
    /\ admissions \subseteq LogicalIds /\ admitLock \in Asks \cup {NoAsk}
    /\ threads \subseteq CallIds /\ fence \in Fences /\ toolDown \in BOOLEAN
    /\ toolLife \in Nat /\ toolFaults \in 0..MaxToolFaults
    /\ toolLife <= toolFaults /\ (toolDown \/ fence = "lost" => toolLife < toolFaults)

-----------------------------------------------------------------------------
(* The inductive strengthening *)

OpenSteps == AskSteps \ SettledSteps
Asked(k)  == ask[k].id # NoAsk

\* The invocation that a call belongs to.
Place(id) == <<id.session, id.n>>

\* An invocation under way has a call of this process, whose query the session
\* remembers.
AskPlaced(k) ==
    /\ ask[k].step = "idle" => ~Asked(k)
    /\ ask[k].step \in OpenSteps => Asked(k)
    /\ Asked(k) => /\ ask[k].id.life = toolLife /\ Place(ask[k].id) = k
                   /\ ask[k].id.query \in session[k[1]].prints

\* Where an invocation stands and what the store has of its call.
AskStands(k) ==
    /\ ask[k].step \in {"admit", "starting"} => ask[k].id \notin Rows
    /\ ask[k].step \in {"gate", "running", "saving", "closing"} /\ fence # "over"
         => Status(ask[k].id) = "started"
    /\ ask[k].step = "saved" => Status(ask[k].id) = "success"
    /\ ask[k].step \in {"starting", "gate", "running", "saving", "closing"}
         => Logical(ask[k].id) \in admissions
    /\ ask[k].step = "admit" /\ ask[k].id.try = 2 => Logical(ask[k].id) \in admissions
    /\ ask[k].step = "closing" => ask[k].id.try = 1

\* A session asks no query twice.
AskedOnce ==
    \A j, k \in Asks : Asked(j) /\ Asked(k) /\ j[1] = k[1] /\ ask[j].id.query = ask[k].id.query => j = k

\* The calls of this process belong to its invocations.
RowsAsked ==
    \A id \in Rows :
        /\ id.life <= toolLife
        /\ id.life = toolLife =>
              LET k == Place(id) IN Asked(k) /\ ask[k].id.query = id.query /\ id.try <= ask[k].id.try

\* A call that runs in the store is the one its invocation works on, or had to leave.
OpenRows ==
    \A id \in Rows : Status(id) = "started" =>
        id = ask[Place(id)].id /\ (ask[Place(id)].step \in SettledSteps => ~Holds)

\* The end of the run closed the calls.
OverIsClosed == fence = "over" => NoCallOpen

\* What was admitted was asked for, and does not wait for its first admission.
AdmittedAsked ==
    \A l \in admissions : \E k \in Asks :
        Asked(k) /\ Logical(ask[k].id) = l /\ ~(ask[k].step = "admit" /\ ask[k].id.try = 1)

LockHeld == \A k \in Asks : (admitLock = k) = (ask[k].step = "starting")

\* Queries are asked in turn, so that the count of a session is bounded.
InTurn ==
    /\ \A k \in Asks : ask[k].step = "idle" => session[k[1]].asked < k[2]
    /\ \A j, k \in Asks : j[1] = k[1] /\ j[2] <= k[2] /\ ask[j].step = "idle" => ask[k].step = "idle"

\* Calls that started and calls that may start.
Paid == {Logical(id) : id \in Crossed} \cup admissions
PaidWithinBudget == IsFiniteSet(Rows) /\ IsFiniteSet(admissions) /\ Cardinality(Paid) <= RunLimit

ToolInv ==
    /\ ToolTyped
    /\ \A k \in Asks : AskPlaced(k) /\ AskStands(k)
    /\ AskedOnce /\ RowsAsked /\ OpenRows /\ OverIsClosed /\ AdmittedAsked /\ LockHeld /\ InTurn
    /\ PaidWithinBudget
    /\ EvidenceIsDurable /\ QueryCrossesOnce

-----------------------------------------------------------------------------
(* The log *)

\* The last event of a log is one of its events.
LEMMA StatusType ==
    ASSUME ToolTyped, NEW id \in Rows
    PROVE  Status(id) = toolLog[id][Len(toolLog[id])] /\ Status(id) \in Happenings
<1>1. toolLog[id] \in Seq(Happenings) /\ Len(toolLog[id]) > 0
  BY DEF ToolTyped
<1>2. LogOf(id) = toolLog[id] /\ toolLog[id] # <<>>
  BY <1>1 DEF LogOf, Rows
<1>3. toolLog[id][Len(toolLog[id])] \in Happenings
  BY <1>1
<1> QED
  BY <1>2, <1>3 DEF Status

LEMMA NoStatus ==
    ASSUME NEW id, id \notin Rows
    PROVE  Status(id) = "none" /\ LogOf(id) = <<>>
BY DEF Status, LogOf, Rows

\* An event is appended to one log.
LEMMA WrittenLog ==
    ASSUME ToolTyped, NEW id \in CallIds, NEW e \in Happenings, Written(id, e)
    PROVE  /\ Rows' = Rows \cup {id}
           /\ \A i \in Rows' : toolLog'[i] \in Seq(Happenings) /\ Len(toolLog'[i]) > 0
           /\ Status(id)' = e
           /\ \A i : i # id => Status(i)' = Status(i)
           /\ Crossed' \subseteq Crossed \cup {id}
           /\ id \in Rows \/ e # "started" => Crossed' \subseteq Crossed
<1>1. /\ toolLog' = [i \in Rows \cup {id} |-> IF i = id THEN Append(LogOf(id), e) ELSE toolLog[i]]
      /\ Rows' = Rows \cup {id}
  BY DEF Written, Rows
<1>2. LogOf(id) \in Seq(Happenings)
  BY DEF LogOf, ToolTyped, Rows
<1>3. /\ Append(LogOf(id), e) \in Seq(Happenings) /\ Len(Append(LogOf(id), e)) > 0
      /\ Append(LogOf(id), e) # <<>>
      /\ Append(LogOf(id), e)[Len(Append(LogOf(id), e))] = e
      /\ Len(LogOf(id)) > 0 => Append(LogOf(id), e)[1] = LogOf(id)[1]
      /\ Len(LogOf(id)) = 0 => Append(LogOf(id), e)[1] = e
  BY <1>2
<1>4. toolLog'[id] = Append(LogOf(id), e) /\ \A i \in Rows : i # id => toolLog'[i] = toolLog[i]
  BY <1>1
<1>5. \A i \in Rows' : toolLog'[i] \in Seq(Happenings) /\ Len(toolLog'[i]) > 0
  BY <1>1, <1>3, <1>4 DEF ToolTyped
<1>6. Status(id)' = e
  BY <1>1, <1>3, <1>4 DEF Status, LogOf, Rows
<1>7. \A i : i # id => Status(i)' = Status(i)
  <2> SUFFICES ASSUME NEW i, i # id
               PROVE  LogOf(i)' = LogOf(i)
    BY DEF Status
  <2> QED
    BY <1>1, <1>4 DEF LogOf, Rows
<1>8. Crossed' \subseteq Crossed \cup {id}
  BY <1>1, <1>4 DEF Crossed
<1>9. ASSUME id \in Rows \/ e # "started"
      PROVE  Crossed' \subseteq Crossed
  <2>1. CASE id \in Rows
    <3>1. LogOf(id) = toolLog[id] /\ Len(toolLog[id]) > 0
      BY <2>1 DEF LogOf, ToolTyped, Rows
    <3>2. toolLog'[id][1] = toolLog[id][1]
      BY <1>3, <1>4, <3>1
    <3> QED
      BY <1>1, <1>4, <2>1, <3>2 DEF Crossed
  <2>2. CASE id \notin Rows
    <3>1. LogOf(id) = <<>> /\ Len(LogOf(id)) = 0
      BY <2>2, NoStatus
    <3>2. toolLog'[id][1] = e
      BY <1>3, <1>4, <3>1
    <3> QED
      BY <1>1, <1>4, <1>9, <2>2, <3>2 DEF Crossed
  <2> QED
    BY <2>1, <2>2
<1> QED
  BY <1>1, <1>5, <1>6, <1>7, <1>8, <1>9

\* The log of an invocation gets at most one event, which its call accepts, and
\* none when the run is over.
AskWrites(id) ==
    \/ UNCHANGED toolLog
    \/ \E e \in Happenings :
          /\ fence # "over" /\ Written(id, e) /\ Accepts(id, e)
          /\ e = "started" => Logical(id) \in admissions

LEMMA AskLog ==
    ASSUME ToolInv, NEW id \in CallIds, AskWrites(id)
    PROVE  /\ Rows' \subseteq Rows \cup {id} /\ Rows \subseteq Rows'
           /\ \A i \in Rows' : toolLog'[i] \in Seq(Happenings) /\ Len(toolLog'[i]) > 0
           /\ \A i : i # id => Status(i)' = Status(i)
           /\ \A i : Status(i) = "success" => Status(i)' = "success"
           /\ \A c \in Crossed' : c \in Crossed \/ (c = id /\ Logical(id) \in admissions)
           /\ IsFiniteSet(Rows')
<1>1. CASE UNCHANGED toolLog
  BY <1>1 DEF ToolInv, ToolTyped, PaidWithinBudget, Rows, Status, LogOf, Crossed
<1>2. ASSUME NEW e \in Happenings, Written(id, e), Accepts(id, e),
             e = "started" => Logical(id) \in admissions
      PROVE  /\ Rows' \subseteq Rows \cup {id} /\ Rows \subseteq Rows'
             /\ \A i \in Rows' : toolLog'[i] \in Seq(Happenings) /\ Len(toolLog'[i]) > 0
             /\ \A i : i # id => Status(i)' = Status(i)
             /\ \A i : Status(i) = "success" => Status(i)' = "success"
             /\ \A c \in Crossed' : c \in Crossed \/ (c = id /\ Logical(id) \in admissions)
             /\ IsFiniteSet(Rows')
  <2>2. ToolTyped /\ IsFiniteSet(Rows)
    BY DEF ToolInv, PaidWithinBudget
  <2>3. /\ Rows' = Rows \cup {id}
        /\ \A i \in Rows' : toolLog'[i] \in Seq(Happenings) /\ Len(toolLog'[i]) > 0
        /\ Status(id)' = e
        /\ \A i : i # id => Status(i)' = Status(i)
        /\ Crossed' \subseteq Crossed \cup {id}
        /\ id \in Rows \/ e # "started" => Crossed' \subseteq Crossed
    BY <1>2, <2>2, WrittenLog
  <2>4. IsFiniteSet(Rows')
    BY <2>2, <2>3, FS_AddElement
  <2>5. \A i : Status(i) = "success" => Status(i)' = "success"
    BY <1>2, <2>3 DEF Accepts, Endings
  <2>6. \A c \in Crossed' : c \in Crossed \/ (c = id /\ Logical(id) \in admissions)
    BY <1>2, <2>3
  <2> QED
    BY <2>3, <2>4, <2>5, <2>6
<1> QED
  BY <1>1, <1>2 DEF AskWrites

\* Everything paid for is known to the run, and finite.
LEMMA ToolPaid ==
    ASSUME ToolInv
    PROVE  IsFiniteSet(Consumed \cup admissions) /\ Paid \subseteq Consumed \cup admissions
<1>1. IsFiniteSet(Rows) /\ IsFiniteSet(admissions)
  BY DEF ToolInv, PaidWithinBudget
<1>2. IsFiniteSet(Consumed)
  <2> DEFINE f == [c \in Rows |-> Logical(c)]
  <2>1. f \in Surjection(Rows, Consumed)
    BY DEF Consumed, Surjection
  <2> QED
    BY <1>1, <2>1, FS_Surjection
<1>3. Paid \subseteq Consumed \cup admissions
  BY DEF Crossed, Paid, Consumed
<1> QED
  BY <1>1, <1>2, <1>3, FS_Union

\* What is paid for: nothing, or one more call when there was room for it.
LEMMA PaidKept ==
    ASSUME ToolInv, NEW id \in CallIds, AskWrites(id),
           \/ admissions' = admissions
           \/ /\ admissions' = admissions \cup {Logical(id)}
              /\ Logical(id) \in Paid \/ Cardinality(Consumed \cup admissions) < RunLimit
    PROVE  PaidWithinBudget'
<1> DEFINE l == Logical(id)
           started == {Logical(c) : c \in Crossed}
<1>1. IsFiniteSet(Rows') /\ \A c \in Crossed' : c \in Crossed \/ (c = id /\ l \in admissions)
  BY AskLog
<1>2. IsFiniteSet(Rows) /\ IsFiniteSet(admissions) /\ Cardinality(Paid) <= RunLimit /\ RunLimit \in Nat
  BY ToolSessionAssumption DEF ToolInv, PaidWithinBudget
<1>3. Crossed \subseteq Rows /\ Paid = started \cup admissions
  BY DEF Crossed, Paid
<1>4. IsFiniteSet(Consumed \cup admissions) /\ Paid \subseteq Consumed \cup admissions
  BY ToolPaid
<1>7. IsFiniteSet(Paid) /\ Cardinality(Paid) <= Cardinality(Consumed \cup admissions)
  BY <1>4, FS_Subset
<1>8. {Logical(c) : c \in Crossed'} \subseteq Paid
  BY <1>1, <1>3
<1>9. Paid' = {Logical(c) : c \in Crossed'} \cup admissions'
  BY DEF Paid, Logical
<1>10. Cardinality(Paid) \in Nat /\ Cardinality(Consumed \cup admissions) \in Nat
  BY <1>4, <1>7, FS_CardinalityType
<1>11. CASE Paid' \subseteq Paid /\ (admissions' = admissions \/ admissions' = admissions \cup {l})
  <2>1. Cardinality(Paid') <= Cardinality(Paid) /\ IsFiniteSet(Paid')
    BY <1>7, <1>11, FS_Subset
  <2>2. IsFiniteSet(admissions')
    BY <1>2, <1>11, FS_AddElement
  <2>3. Cardinality(Paid') \in Nat
    BY <2>1, FS_CardinalityType
  <2> QED
    BY <1>1, <1>2, <1>10, <2>1, <2>2, <2>3 DEF PaidWithinBudget
<1>12. CASE admissions' = admissions \cup {l} /\ l \notin Paid
  <2>1. Paid' \subseteq Paid \cup {l}
    BY <1>3, <1>8, <1>9, <1>12
  <2>2. Cardinality(Paid \cup {l}) = Cardinality(Paid) + 1 /\ IsFiniteSet(Paid \cup {l})
    BY <1>7, <1>12, FS_AddElement
  <2>5. Cardinality(Paid') <= Cardinality(Paid) + 1 /\ IsFiniteSet(Paid')
    BY <2>1, <2>2, FS_Subset
  <2>6. Cardinality(Paid') \in Nat
    BY <2>5, FS_CardinalityType
  <2>3. Cardinality(Consumed \cup admissions) < RunLimit
    BY <1>3, <1>12
  <2>4. IsFiniteSet(admissions')
    BY <1>2, <1>12, FS_AddElement
  <2> QED
    BY <1>1, <1>2, <1>7, <1>10, <2>3, <2>4, <2>5, <2>6 DEF PaidWithinBudget
<1>13. CASE admissions' = admissions
  BY <1>3, <1>8, <1>9, <1>11, <1>13
<1>14. CASE admissions' = admissions \cup {l} /\ l \in Paid
  BY <1>3, <1>8, <1>9, <1>11, <1>14
<1> QED
  BY <1>12, <1>13, <1>14

-----------------------------------------------------------------------------
(* One invocation goes on *)

\* No call is neither a call nor an invocation.
LEMMA NoAskIsNone == NoAsk \notin CallIds /\ NoAsk \notin Asks
<1>1. DOMAIN NoAsk = {}
  BY DEF NoAsk
<1>2. ASSUME NoAsk \in CallIds PROVE DOMAIN NoAsk = {"life", "session", "query", "n", "try"}
  BY <1>2 DEF CallIds
<1>3. ASSUME NoAsk \in Asks PROVE DOMAIN NoAsk = 1..2
  BY <1>3 DEF Asks
<1> QED
  BY <1>1, <1>2, <1>3

LEMMA AsksPlaced ==
    ASSUME NEW k \in Asks
    PROVE  k = <<k[1], k[2]>> /\ k[1] \in Sessions /\ k[2] \in 1..MaxAsks
BY DEF Asks

\* The rest of the state: lives, time and faults.
ToolsRun ==
    /\ UNCHANGED <<fence, toolLife, toolDown>>
    /\ threads' \subseteq CallIds
    /\ toolFaults' \in 0..MaxToolFaults /\ toolFaults <= toolFaults'

\* An invocation goes on with its call: it moves to a step in which it may stand,
\* writes what the call accepts, and nobody else is touched.
LEMMA AskMoves ==
    ASSUME ToolInv, NEW k \in Asks, NEW a \in AskRec, NEW id, id = ask[k].id, Asked(k),
           ask' = [ask EXCEPT ![k] = a],
           a.step # "idle", a.id \in CallIds, Logical(a.id) = Logical(id),
           a.id.n = id.n, id.try <= a.id.try,
           a.step = "admit" /\ a.id.try = 1 => ask[k].step = "admit",
           AskWrites(id), AskStands(k)',
           Status(id)' = "started" => a.id = id /\ (a.step \in SettledSteps => ~Holds),
           session' \in [Sessions -> SessionRec],
           \A s \in Sessions : session'[s].asked = session[s].asked /\ session'[s].prints = session[s].prints,
           \A s \in Sessions : \A i \in session'[s].known :
               i \in session[s].known \/ Status(i)' = "success",
           \/ admissions' = admissions
           \/ /\ admissions' = admissions \cup {Logical(id)} /\ a.step # "admit"
              /\ Logical(id) \in Paid \/ Cardinality(Consumed \cup admissions) < RunLimit,
           admitLock' \in Asks \cup {NoAsk}, (admitLock' = k) = (a.step = "starting"),
           \A j \in Asks : j # k => (admitLock' = j) = (admitLock = j),
           ToolsRun
    PROVE  ToolInv'
<1>1. /\ ask' \in [Asks -> AskRec] /\ ask'[k] = a /\ \A j \in Asks : j # k => ask'[j] = ask[j]
      /\ ToolTyped /\ AskPlaced(k) /\ ask[k] \in AskRec
  BY DEF ToolInv, ToolTyped
<1>2. id \in CallIds /\ id.life = toolLife /\ Place(id) = k
  BY <1>1 DEF Asked, AskPlaced, AskRec
<1>3. /\ Rows' \subseteq Rows \cup {id} /\ Rows \subseteq Rows'
      /\ \A i \in Rows' : toolLog'[i] \in Seq(Happenings) /\ Len(toolLog'[i]) > 0
      /\ \A i : i # id => Status(i)' = Status(i)
      /\ \A i : Status(i) = "success" => Status(i)' = "success"
  BY <1>2, AskLog
<1>4. /\ a.id.life = id.life /\ a.id.session = id.session /\ a.id.query = id.query /\ a.id.n = id.n
      /\ Place(a.id) = k /\ a.id # NoAsk
  <2>1. Logical(a.id) = Logical(id)
    OBVIOUS
  <2>2. a.id.life = id.life /\ a.id.session = id.session /\ a.id.query = id.query
    BY <2>1 DEF Logical
  <2>3. a.id # NoAsk
    BY NoAskIsNone
  <2> QED
    BY <1>2, <2>2, <2>3 DEF Place
<1>5. Logical(id) \in LogicalIds
  BY <1>2 DEF CallIds, Logical, LogicalIds
<1>6. ToolTyped'
  BY <1>1, <1>2, <1>3, <1>5 DEF ToolTyped, ToolsRun
<1>7. \A j \in Asks : (AskPlaced(j) /\ AskStands(j))'
  <2> SUFFICES ASSUME NEW j \in Asks
               PROVE  (AskPlaced(j) /\ AskStands(j))'
    OBVIOUS
  <2>1. AskPlaced(j) /\ AskStands(j)
    BY DEF ToolInv
  <2>2. \A s \in Sessions : session'[s].prints = session[s].prints
    OBVIOUS
  <2>3. j[1] \in Sessions
    BY DEF Asks
  <2>4. AskPlaced(j)'
    <3>1. CASE j = k
      BY <1>1, <1>2, <1>4, <2>1, <2>2, <2>3, <3>1 DEF AskPlaced, Asked, ToolsRun, Place
    <3>2. CASE j # k
      BY <1>1, <2>1, <2>2, <2>3, <3>2 DEF AskPlaced, Asked, ToolsRun, Place
    <3> QED
      BY <3>1, <3>2
  <2>5. ASSUME j # k
        PROVE  AskStands(j)'
    <3>1. ask'[j] = ask[j]
      BY <1>1, <2>5
    <3>2. Asked(j) => ask[j].id # id
      BY <1>2, <2>1, <2>5 DEF AskPlaced
    <3>3. ask[j].step \in OpenSteps => Asked(j)
      BY <2>1 DEF AskPlaced
    <3>4. ask[j].step \in {"admit", "starting", "gate", "running", "saving", "closing", "saved"}
            => ask[j].id # id
      BY <3>2, <3>3 DEF OpenSteps, AskSteps, SettledSteps
    <3>5. admissions \subseteq admissions'
      OBVIOUS
    <3> QED
      BY <1>3, <2>1, <3>1, <3>4, <3>5 DEF AskStands, ToolsRun
  <2> QED
    BY <2>4, <2>5
<1>8. \A j \in Asks : Asked(j)' = Asked(j)
  BY <1>1, <1>4 DEF Asked
<1>9. AskedOnce'
  BY <1>1, <1>4, <1>8 DEF ToolInv, AskedOnce
<1>10. RowsAsked'
  <2> SUFFICES ASSUME NEW i \in Rows'
               PROVE  /\ i.life <= toolLife
                      /\ i.life = toolLife =>
                           Asked(Place(i))' /\ ask'[Place(i)].id.query = i.query /\ i.try <= ask'[Place(i)].id.try
    BY DEF RowsAsked, ToolsRun, Place
  <2>1. i \in CallIds /\ Place(i) \in Asks /\ toolLife \in Nat
    BY <1>1, <1>6 DEF ToolTyped, Place, CallIds, Asks
  <2>2. CASE i = id
    <3>1. Asked(Place(i))'
      BY <1>2, <1>8, <2>2
    <3>2. id.try \in Int /\ a.id.try \in Int /\ id.query = a.id.query /\ toolLife <= toolLife
      BY <1>2, <1>4, <2>1 DEF CallIds
    <3> QED
      BY <1>1, <1>2, <2>2, <3>1, <3>2
  <2>3. CASE i # id
    <3>1. i \in Rows
      BY <1>3, <2>3
    <3>2. /\ i.life <= toolLife
          /\ i.life = toolLife =>
               Asked(Place(i)) /\ ask[Place(i)].id.query = i.query /\ i.try <= ask[Place(i)].id.try
      BY <3>1 DEF ToolInv, RowsAsked
    <3>3. CASE Place(i) = k
      <4>1. id.try \in Int /\ a.id.try \in Int /\ i.try \in Int
        BY <1>2, <2>1 DEF CallIds
      <4>2. ask[Place(i)].id = id /\ ask'[Place(i)].id = a.id
        BY <1>1, <3>3
      <4> QED
        BY <1>4, <1>8, <2>1, <3>2, <4>1, <4>2
    <3>4. CASE Place(i) # k
      BY <1>1, <1>8, <2>1, <3>2, <3>4
    <3> QED
      BY <3>3, <3>4
  <2> QED
    BY <2>2, <2>3
<1>11. OpenRows'
  <2> SUFFICES ASSUME NEW i \in Rows', Status(i)' = "started"
               PROVE  i = ask'[Place(i)].id /\ (ask'[Place(i)].step \in SettledSteps => ~Holds)
    BY DEF OpenRows, Place, Holds, ToolsRun
  <2>1. Place(i) \in Asks
    BY <1>6 DEF ToolTyped, Place, CallIds, Asks
  <2>2. CASE i = id
    <3>1. Status(id)' = "started"
      BY <2>2 DEF Status, LogOf
    <3>2. a.id = id /\ (a.step \in SettledSteps => ~Holds)
      BY <3>1
    <3> QED
      BY <1>1, <1>2, <2>2, <3>2
  <2>3. CASE i # id
    <3>1. i \in Rows /\ Status(i) = "started"
      BY <1>3, <2>3
    <3>2. i = ask[Place(i)].id /\ (ask[Place(i)].step \in SettledSteps => ~Holds)
      BY <3>1 DEF ToolInv, OpenRows
    <3>3. Place(i) # k
      BY <2>3, <3>2
    <3> QED
      BY <1>1, <2>1, <3>2, <3>3
  <2> QED
    BY <2>2, <2>3
<1>12. AdmittedAsked'
  <2> SUFFICES ASSUME NEW l \in admissions'
               PROVE  \E j \in Asks : /\ Asked(j)' /\ Logical(ask'[j].id) = l
                                      /\ ~(ask'[j].step = "admit" /\ ask'[j].id.try = 1)
    BY DEF AdmittedAsked, Logical
  <2>1. CASE l \in admissions
    <3>1. PICK j \in Asks : /\ Asked(j) /\ Logical(ask[j].id) = l
                            /\ ~(ask[j].step = "admit" /\ ask[j].id.try = 1)
      BY <2>1 DEF ToolInv, AdmittedAsked
    <3>2. CASE j = k
      <4>1. id.try \in 1..2 /\ a.id.try \in 1..2
        BY <1>2 DEF CallIds
      <4>2. ~(a.step = "admit" /\ a.id.try = 1)
        BY <3>1, <3>2, <4>1
      <4> QED
        BY <1>1, <1>8, <3>1, <3>2, <4>2
    <3>3. CASE j # k
      BY <1>1, <1>8, <3>1, <3>3
    <3> QED
      BY <3>2, <3>3
  <2>2. CASE l \notin admissions
    BY <1>1, <1>8, <2>2
  <2> QED
    BY <2>1, <2>2
<1>13. LockHeld'
  BY <1>1 DEF ToolInv, LockHeld
<1>14. InTurn'
  <2>1. ask[k].step # "idle" /\ \A j \in Asks : ask'[j].step = "idle" <=> ask[j].step = "idle"
    BY <1>1 DEF AskPlaced
  <2>2. \A j \in Asks : session'[j[1]].asked = session[j[1]].asked
    BY DEF Asks
  <2> QED
    BY <2>1, <2>2 DEF ToolInv, InTurn
<1>15. PaidWithinBudget'
  BY <1>2, PaidKept
<1>16. EvidenceIsDurable'
  BY <1>3 DEF ToolInv, EvidenceIsDurable
<1>17. QueryCrossesOnce'
  <2> SUFFICES ASSUME NEW i \in Rows', NEW j \in Rows', Logical(i) = Logical(j), i.try = j.try
               PROVE  i = j
    BY DEF QueryCrossesOnce, Logical
  <2>1. i \in CallIds /\ j \in CallIds
    BY <1>6 DEF ToolTyped
  <2>2. i.life = j.life /\ i.session = j.session /\ i.query = j.query
    BY DEF Logical
  <2>3. CASE i.life = toolLife
    <3>1. /\ Place(i) \in Asks /\ Asked(Place(i))' /\ ask'[Place(i)].id.query = i.query
          /\ Place(j) \in Asks /\ Asked(Place(j))' /\ ask'[Place(j)].id.query = j.query
          /\ Place(i)[1] = Place(j)[1]
      BY <1>10, <2>1, <2>2, <2>3 DEF RowsAsked, Place, CallIds, Asks, ToolsRun
    <3>2. Place(i) = Place(j)
      BY <1>9, <2>2, <3>1 DEF AskedOnce
    <3>3. i.n = j.n
      BY <3>2 DEF Place
    <3> QED
      BY <2>1, <2>2, <3>3 DEF CallIds
  <2>4. CASE i.life # toolLife
    BY <1>2, <1>3, <2>2, <2>4 DEF ToolInv, QueryCrossesOnce
  <2> QED
    BY <2>3, <2>4
<1>18. OverIsClosed'
  <2> SUFFICES ASSUME fence = "over"
               PROVE  NoCallOpen'
    BY DEF OverIsClosed, ToolsRun
  <2>1. UNCHANGED toolLog
    BY DEF AskWrites
  <2> QED
    BY <2>1 DEF ToolInv, OverIsClosed, NoCallOpen, Rows, Status, LogOf
<1> QED
  BY <1>6, <1>7, <1>9, <1>10, <1>11, <1>12, <1>13, <1>14, <1>15, <1>16, <1>17, <1>18 DEF ToolInv

-----------------------------------------------------------------------------
(* The steps of an invocation *)

\* What a step of an invocation under way uses of the invariant.
LEMMA AskFacts ==
    ASSUME ToolInv, NEW k \in Asks, ask[k].step \in OpenSteps
    PROVE  /\ Asked(k) /\ ask[k] \in AskRec /\ ask[k].id \in CallIds /\ ask[k].id.try \in 1..2
           /\ ask[k].id.n \in Nat /\ AskPlaced(k) /\ AskStands(k)
           /\ k[1] \in Sessions /\ session[k[1]] \in SessionRec
           /\ (admitLock = k) = (ask[k].step = "starting")
<1>1. /\ Asked(k) /\ ask[k] \in AskRec /\ AskPlaced(k) /\ AskStands(k)
      /\ k[1] \in Sessions /\ session[k[1]] \in SessionRec
      /\ (admitLock = k) = (ask[k].step = "starting")
  BY AsksPlaced DEF ToolInv, ToolTyped, AskPlaced, LockHeld
<1>2. ask[k].id \in CallIds
  BY <1>1 DEF AskRec, Asked
<1> QED
  BY <1>1, <1>2, ToolSessionAssumption DEF CallIds

\* The invocation goes to another step, and nothing but the sessions changes.
LEMMA AskGoesOn ==
    ASSUME ToolInv, NEW k \in Asks, NEW id, id = ask[k].id, ask[k].step \in OpenSteps \ {"starting"},
           NEW a \in AskRec, ask' = [ask EXCEPT ![k] = a], a.id = id,
           a.step \notin {"idle", "starting"}, a.step = "admit" => ask[k].step = "admit",
           AskWrites(id),
           a.step \in {"gate", "running", "saving", "closing"} =>
              (fence = "over" \/ Status(id)' = "started") /\ Logical(id) \in admissions,
           a.step = "admit" => UNCHANGED toolLog, a.step = "closing" => id.try = 1,
           a.step = "saved" => Status(id)' = "success",
           Status(id)' = "started" => (a.step \in SettledSteps => ~Holds),
           session' \in [Sessions -> SessionRec],
           \A s \in Sessions : session'[s].asked = session[s].asked /\ session'[s].prints = session[s].prints,
           \A s \in Sessions : \A i \in session'[s].known :
               i \in session[s].known \/ Status(i)' = "success",
           UNCHANGED <<admissions, admitLock>>, ToolsRun
    PROVE  ToolInv'
<1>1. /\ Asked(k) /\ ask[k] \in AskRec /\ ask[k].id \in CallIds /\ ask[k].id.try \in 1..2
      /\ ask[k].id.n \in Nat /\ AskPlaced(k) /\ AskStands(k)
      /\ (admitLock = k) = (ask[k].step = "starting")
  BY AskFacts
<1>2. ask'[k] = a
  BY DEF ToolInv, ToolTyped
<1>3. AskStands(k)'
  BY <1>1, <1>2 DEF AskStands, Rows, ToolsRun
<1>4. /\ admitLock' \in Asks \cup {NoAsk} /\ (admitLock' = k) = (a.step = "starting")
      /\ \A j \in Asks : j # k => (admitLock' = j) = (admitLock = j)
  BY <1>1 DEF ToolInv, ToolTyped
<1>5. /\ Logical(a.id) = Logical(id) /\ a.id.n = id.n /\ id.try <= a.id.try /\ a.id \in CallIds
      /\ a.step # "idle" /\ (a.step = "admit" /\ a.id.try = 1 => ask[k].step = "admit")
      /\ (Status(id)' = "started" => a.id = id /\ (a.step \in SettledSteps => ~Holds))
      /\ admissions' = admissions
  BY <1>1
<1> QED
  BY <1>1, <1>3, <1>4, <1>5, AskMoves

\* The invocation goes on and nothing is written.
LEMMA AskWaits ==
    ASSUME ToolInv, NEW k \in Asks, NEW id, id = ask[k].id, ask[k].step \in OpenSteps \ {"starting"},
           NEW a \in AskRec, ask' = [ask EXCEPT ![k] = a], a.id = id,
           \/ a.step \in OpenSteps \ {"starting", "admit", "saved"}
           \/ a.step \in SettledSteps \ {"idle"} /\ (Status(id) \in Endings \/ ~Holds),
           a.step \in {"gate", "running", "saving", "closing"} =>
              ask[k].step \in {"gate", "running", "saving", "closing"},
           a.step = "closing" => id.try = 1,
           UNCHANGED <<toolLog, session, admissions, admitLock>>, ToolsRun
    PROVE  ToolInv'
<1>1. Status(id)' = Status(id)
  BY DEF Status, LogOf
<1>2. AskStands(k)
  BY AskFacts
<1>3. a.step \notin {"idle", "starting", "admit", "saved"}
  BY DEF OpenSteps, SettledSteps
<1>4. Status(id)' = "started" => (a.step \in SettledSteps => ~Holds)
  BY <1>1 DEF OpenSteps, Endings
<1>5. a.step \in {"gate", "running", "saving", "closing"} =>
        (fence = "over" \/ Status(id)' = "started") /\ Logical(id) \in admissions
  BY <1>1, <1>2 DEF AskStands
<1>6. AskWrites(id)
  BY DEF AskWrites
<1>7. session' \in [Sessions -> SessionRec] /\ session' = session
  BY DEF ToolInv, ToolTyped
<1>8. /\ \A s \in Sessions : session'[s].asked = session[s].asked /\ session'[s].prints = session[s].prints
      /\ \A s \in Sessions : \A i \in session'[s].known : i \in session[s].known \/ Status(i)' = "success"
      /\ UNCHANGED <<admissions, admitLock>>
  BY <1>7
<1> QED
  BY <1>3, <1>4, <1>5, <1>6, <1>7, <1>8, AskGoesOn

\* The end of a call is written.
LEMMA AskCloses ==
    ASSUME ToolInv, NEW k \in Asks, NEW id, id = ask[k].id, ask[k].step \in OpenSteps \ {"starting"},
           NEW e \in Endings, Written(id, e), Accepts(id, e), Holds,
           NEW a \in AskRec, ask' = [ask EXCEPT ![k] = a], a.id = id,
           a.step \in {"interrupting", "saved"} \cup (SettledSteps \ {"idle"}),
           a.step = "saved" => e = "success",
           session' \in [Sessions -> SessionRec],
           \A s \in Sessions : session'[s].asked = session[s].asked /\ session'[s].prints = session[s].prints,
           \A s \in Sessions : session'[s].known \subseteq session[s].known,
           UNCHANGED <<admissions, admitLock>>, ToolsRun
    PROVE  ToolInv'
<1>1. id \in CallIds /\ e \in Happenings /\ ToolTyped
  BY AskFacts DEF Happenings, ToolInv
<1>2. Status(id)' = e
  BY <1>1, WrittenLog
<1>3. AskWrites(id)
  BY <1>1 DEF AskWrites, Endings, Holds
<1>4. a.step \notin {"idle", "starting", "admit", "gate", "running", "saving", "closing"}
  BY DEF SettledSteps
<1>5. Status(id)' # "started"
  BY <1>2 DEF Endings
<1>6. \A s \in Sessions : \A i \in session'[s].known : i \in session[s].known
  OBVIOUS
<1>7. a.step = "saved" => Status(id)' = "success"
  BY <1>2
<1> QED
  BY <1>3, <1>4, <1>5, <1>6, <1>7, AskGoesOn

\* A session in which only `halted' or `known' changes.
LEMMA SessionKeeps ==
    ASSUME ToolInv, NEW s \in Sessions, NEW h \in BOOLEAN, NEW ids \in SUBSET CallIds,
           session' = [session EXCEPT ![s] = [@ EXCEPT !.halted = h, !.known = ids]]
    PROVE  /\ session' \in [Sessions -> SessionRec]
           /\ \A r \in Sessions : /\ session'[r].asked = session[r].asked
                                  /\ session'[r].prints = session[r].prints
                                  /\ r # s => session'[r].known = session[r].known
           /\ session'[s].known = ids
<1>1. session \in [Sessions -> SessionRec] /\ session[s] \in SessionRec
  BY DEF ToolInv, ToolTyped
<1>2. [session[s] EXCEPT !.halted = h, !.known = ids] \in SessionRec
  BY <1>1 DEF SessionRec
<1> QED
  BY <1>1, <1>2 DEF SessionRec

LEMMA ToolWaits ==
    ASSUME ToolInv, NEW k \in Asks, EnterGate(k) \/ CancelHits(k) \/ ToolTimeout(k)
    PROVE  ToolInv'
<1>1. PICK id : id = ask[k].id
  OBVIOUS
<1>2. /\ ask[k].step \in OpenSteps \ {"starting"}
      /\ UNCHANGED <<toolLog, session, admissions, admitLock, fence, toolLife, toolDown>>
  BY DEF EnterGate, CancelHits, ToolTimeout, Up, OpenSteps, AskSteps, SettledSteps
<1>3. ask[k] \in AskRec /\ id \in CallIds
  BY <1>1, <1>2, AskFacts
<1>4. ToolsRun
  BY <1>1, <1>2, <1>3, ToolSessionAssumption
     DEF EnterGate, CancelHits, ToolTimeout, ToolFault, ToolsRun, ToolInv, ToolTyped
<1>5. CASE EnterGate(k)
  <2>1. PICK step \in {"running", "failing"} : AskGoes(k, step)
    BY <1>5 DEF EnterGate
  <2> DEFINE a == [ask[k] EXCEPT !.step = step]
  <2>2. a \in AskRec /\ a.id = id /\ a.step = step
    BY <1>1, <1>3 DEF AskRec, AskSteps
  <2>3. ask' = [ask EXCEPT ![k] = a] /\ ask[k].step = "gate"
    BY <1>5, <2>1 DEF EnterGate, AskGoes, Up
  <2> HIDE DEF a
  <2> QED
    BY <1>1, <1>2, <1>4, <2>2, <2>3, AskWaits DEF OpenSteps, AskSteps, SettledSteps
<1>6. CASE CancelHits(k)
  <2> DEFINE a == [ask[k] EXCEPT !.step = "interrupting"]
  <2>1. a \in AskRec /\ a.id = id /\ a.step = "interrupting"
    BY <1>1, <1>3 DEF AskRec, AskSteps
  <2>2. ask' = [ask EXCEPT ![k] = a]
    BY <1>6 DEF CancelHits, AskGoes
  <2> HIDE DEF a
  <2> QED
    BY <1>1, <1>2, <1>4, <2>1, <2>2, AskWaits DEF OpenSteps, AskSteps, SettledSteps
<1>7. CASE ToolTimeout(k)
  <2> DEFINE a == [ask[k] EXCEPT !.step = "failing", !.stops = TRUE]
  <2>1. a \in AskRec /\ a.id = id /\ a.step = "failing"
    BY <1>1, <1>3 DEF AskRec, AskSteps
  <2>2. ask' = [ask EXCEPT ![k] = a]
    BY <1>7 DEF ToolTimeout
  <2> HIDE DEF a
  <2> QED
    BY <1>1, <1>2, <1>4, <2>1, <2>2, AskWaits DEF OpenSteps, AskSteps, SettledSteps
<1> QED
  BY <1>5, <1>6, <1>7

\* A thread returns: to its invocation, or to nobody.
LEMMA ToolThreadEnds ==
    ASSUME ToolInv, NEW id \in threads, ThreadEnds(id)
    PROVE  ToolInv'
<1>1. /\ threads' = threads \ {id} /\ UNCHANGED <<toolLog, session, admissions, admitLock>>
      /\ UNCHANGED <<fence, toolLife, toolDown>> /\ threads' \subseteq CallIds
      /\ toolFaults \in 0..MaxToolFaults
  BY DEF ThreadEnds, ToolInv, ToolTyped
<1>2. toolFaults' \in 0..MaxToolFaults /\ toolFaults <= toolFaults'
  <2>1. UNCHANGED toolFaults \/ ToolFault
    BY Zenon DEF ThreadEnds
  <2> QED
    BY <1>1, <2>1, ToolSessionAssumption DEF ToolFault
<1>3. ToolsRun
  BY <1>1, <1>2 DEF ToolsRun
<1>4. CASE UNCHANGED ask
  BY <1>1, <1>2, <1>4 DEF ToolInv, ToolTyped, AskPlaced, AskStands, AskedOnce, RowsAsked, OpenRows,
     AdmittedAsked, LockHeld, InTurn, PaidWithinBudget, Paid, Crossed, EvidenceIsDurable, QueryCrossesOnce,
     Asked, Status, LogOf, Rows, OverIsClosed, NoCallOpen, Holds
<1>5. ASSUME NEW k \in Asks, ask[k].step = "running", ask[k].id = id,
             NEW next \in {"failing", "saving", "closing"}, next = "closing" => id.try = 1,
             AskGoes(k, next)
      PROVE  ToolInv'
  <2> DEFINE a == [ask[k] EXCEPT !.step = next]
  <2>1. ask[k].step \in OpenSteps \ {"starting"}
    BY <1>5 DEF OpenSteps, AskSteps, SettledSteps
  <2>2. ask[k] \in AskRec
    BY <2>1, AskFacts
  <2>3. a \in AskRec /\ a.id = id /\ a.step = next
    BY <1>1, <1>5, <2>2 DEF AskRec, AskSteps
  <2>4. ask' = [ask EXCEPT ![k] = a]
    BY <1>5 DEF AskGoes
  <2> HIDE DEF a
  <2>5. a.step \in OpenSteps \ {"starting", "admit", "saved"}
    BY <2>3 DEF OpenSteps, AskSteps, SettledSteps
  <2>6. /\ id = ask[k].id /\ (a.step = "closing" => id.try = 1)
        /\ ask[k].step \in {"gate", "running", "saving", "closing"}
    BY <1>5, <2>3
  <2> QED
    BY <1>1, <1>3, <2>1, <2>3, <2>4, <2>5, <2>6, AskWaits
<1>6. CASE ~UNCHANGED ask
  <2>1. PICK k \in Asks, next \in {"failing", "saving", "closing"} :
          ask[k].step = "running" /\ ask[k].id = id /\ (next = "closing" => id.try = 1) /\ AskGoes(k, next)
    BY <1>6, Zenon DEF ThreadEnds
  <2> QED
    BY <1>5, <2>1
<1> QED
  BY <1>4, <1>6

\* The call is closed as failed or interrupted, or its result is saved and learned.
LEMMA ToolCloses ==
    ASSUME ToolInv, NEW k \in Asks,
           CloseFailed(k) \/ SaveResult(k) \/ Learn(k) \/ CloseInterrupted(k)
    PROVE  ToolInv'
<1>1. PICK id : id = ask[k].id
  OBVIOUS
<1>2. /\ ask[k].step \in OpenSteps \ {"starting"}
      /\ UNCHANGED <<admissions, admitLock, threads, fence, toolLife, toolDown, toolFaults>>
  BY DEF CloseFailed, SaveResult, Learn, CloseInterrupted, Up, OpenSteps, AskSteps, SettledSteps
<1>3. /\ ask[k] \in AskRec /\ id \in CallIds /\ k[1] \in Sessions /\ session[k[1]] \in SessionRec
      /\ session \in [Sessions -> SessionRec] /\ AskStands(k)
  BY <1>1, <1>2, AskFacts DEF ToolInv, ToolTyped
<1>4. ToolsRun
  BY <1>2 DEF ToolsRun, ToolInv, ToolTyped
<1>5. ASSUME NEW step \in (SettledSteps \ {"idle"}) \cup {"saved"}, AskGoes(k, step)
      PROVE  \E a \in AskRec : /\ ask' = [ask EXCEPT ![k] = a] /\ a.id = id /\ a.step = step
  <2> DEFINE a == [ask[k] EXCEPT !.step = step]
  <2>1. a \in AskRec /\ a.id = id /\ a.step = step
    BY <1>1, <1>3 DEF AskRec, AskSteps, SettledSteps
  <2>2. ask' = [ask EXCEPT ![k] = a]
    BY <1>5 DEF AskGoes
  <2> HIDE DEF a
  <2> QED
    BY <2>1, <2>2
<1>6. ASSUME NEW step \in SettledSteps \ {"idle"}, AskGoes(k, step), UNCHANGED <<toolLog, session>>,
             Status(id) \in Endings \/ ~Holds
      PROVE  ToolInv'
  <2>1. PICK a \in AskRec : ask' = [ask EXCEPT ![k] = a] /\ a.id = id /\ a.step = step
    BY <1>5, <1>6
  <2>2. a.step \in SettledSteps \ {"idle"} /\ a.step \notin {"gate", "running", "saving", "closing"}
    BY <2>1 DEF SettledSteps
  <2> QED
    BY <1>1, <1>2, <1>4, <1>6, <2>1, <2>2, AskWaits
<1>7. ASSUME NEW e \in Endings, Written(id, e), Accepts(id, e), Holds,
             NEW step \in (SettledSteps \ {"idle"}) \cup {"saved"}, AskGoes(k, step),
             step = "saved" => e = "success",
             session' \in [Sessions -> SessionRec],
             \A s \in Sessions : session'[s].asked = session[s].asked /\ session'[s].prints = session[s].prints,
             \A s \in Sessions : session'[s].known \subseteq session[s].known
      PROVE  ToolInv'
  <2>1. PICK a \in AskRec : ask' = [ask EXCEPT ![k] = a] /\ a.id = id /\ a.step = step
    BY <1>5, <1>7
  <2> QED
    BY <1>1, <1>2, <1>4, <1>7, <2>1, AskCloses
<1>8. CASE CloseFailed(k)
  <2>1. CASE Holds /\ Accepts(id, "failed")
    <3> DEFINE step == IF session[k[1]].cancelling THEN "cancelled" ELSE "rejected"
               h    == session[k[1]].halted \/ (ask[k].stops /\ ~session[k[1]].cancelling)
    <3>1. /\ Written(id, "failed") /\ AskGoes(k, step)
          /\ session' = [session EXCEPT ![k[1]].halted = h]
      BY <1>1, <1>8, <2>1 DEF CloseFailed
    <3>2. h \in BOOLEAN /\ session[k[1]].known \in SUBSET CallIds
      BY <1>3 DEF SessionRec, AskRec
    <3>3. session' = [session EXCEPT ![k[1]] = [@ EXCEPT !.halted = h, !.known = session[k[1]].known]]
      BY <1>3, <3>1 DEF SessionRec
    <3>4. step \in SettledSteps \ {"idle"}
      BY DEF SettledSteps
    <3> HIDE DEF h, step
    <3>5. /\ session' \in [Sessions -> SessionRec]
          /\ \A r \in Sessions : /\ session'[r].asked = session[r].asked
                                 /\ session'[r].prints = session[r].prints
                                 /\ session'[r].known = session[r].known
      BY <1>3, <3>2, <3>3, SessionKeeps, ZenonT(60)
    <3>6. step # "saved"
      BY <3>4 DEF SettledSteps
    <3> QED
      BY <1>7, <2>1, <3>1, <3>4, <3>5, <3>6 DEF Endings
  <2>2. CASE ~(Holds /\ Accepts(id, "failed"))
    BY <1>1, <1>6, <1>8, <2>2 DEF CloseFailed, Accepts, SettledSteps
  <2> QED
    BY <2>1, <2>2
<1>9. CASE SaveResult(k)
  <2>1. CASE Holds /\ Accepts(id, "success")
    <3>1. Written(id, "success") /\ AskGoes(k, "saved") /\ UNCHANGED session
      BY <1>1, <1>9, <2>1 DEF SaveResult
    <3> QED
      BY <1>3, <1>7, <2>1, <3>1 DEF Endings
  <2>2. CASE ~(Holds /\ Accepts(id, "success"))
    BY <1>1, <1>6, <1>9, <2>2 DEF SaveResult, Accepts, SettledSteps
  <2> QED
    BY <2>1, <2>2
<1>10. CASE Learn(k)
  <2>1. Status(id) = "success" /\ UNCHANGED toolLog
    BY <1>1, <1>3, <1>10 DEF Learn, Up, AskStands
  <2>2. CASE UNCHANGED session
    <3>1. PICK step \in SettledSteps \ {"idle"} : AskGoes(k, step)
      BY <1>10 DEF Learn, SettledSteps
    <3> QED
      BY <1>6, <2>1, <2>2, <3>1 DEF Endings
  <2>3. CASE ~UNCHANGED session
    <3> DEFINE ids == session[k[1]].known \cup {id}
    <3>1. /\ AskGoes(k, "returned") /\ session' = [session EXCEPT ![k[1]].known = ids]
      BY <1>1, <1>10, <2>3 DEF Learn
    <3>2. ids \in SUBSET CallIds /\ session[k[1]].halted \in BOOLEAN
      BY <1>3 DEF SessionRec
    <3>3. session' = [session EXCEPT ![k[1]] = [@ EXCEPT !.halted = session[k[1]].halted, !.known = ids]]
      BY <1>3, <3>1 DEF SessionRec
    <3> HIDE DEF ids
    <3>4. /\ session' \in [Sessions -> SessionRec] /\ session'[k[1]].known = ids
          /\ \A r \in Sessions : /\ session'[r].asked = session[r].asked
                                 /\ session'[r].prints = session[r].prints
                                 /\ r # k[1] => session'[r].known = session[r].known
      BY <1>3, <3>2, <3>3, SessionKeeps, ZenonT(60)
    <3>5. PICK a \in AskRec : ask' = [ask EXCEPT ![k] = a] /\ a.id = id /\ a.step = "returned"
      BY <1>5, <3>1 DEF SettledSteps
    <3>6. AskWrites(id) /\ Status(id)' = "success"
      BY <2>1 DEF AskWrites, Status, LogOf
    <3>7. \A r \in Sessions : \A i \in session'[r].known : i \in session[r].known \/ Status(i)' = "success"
      BY <3>4, <3>6 DEF ids
    <3>8. a.step \notin {"idle", "starting", "admit", "gate", "running", "saving", "closing", "saved"}
      BY <3>5
    <3> QED
      BY <1>1, <1>2, <1>4, <3>4, <3>5, <3>6, <3>7, <3>8, AskGoesOn
  <2> QED
    BY <2>2, <2>3
<1>11. CASE CloseInterrupted(k)
  <2>1. CASE Holds /\ Accepts(id, "interrupted")
    <3>1. Written(id, "interrupted") /\ AskGoes(k, "cancelled") /\ UNCHANGED session
      BY <1>1, <1>11, <2>1 DEF CloseInterrupted
    <3> QED
      BY <1>3, <1>7, <2>1, <3>1 DEF Endings, SettledSteps
  <2>2. CASE ~(Holds /\ Accepts(id, "interrupted"))
    BY <1>1, <1>6, <1>11, <2>2 DEF CloseInterrupted, Accepts, SettledSteps
  <2> QED
    BY <2>1, <2>2
<1> QED
  BY <1>8, <1>9, <1>10, <1>11

\* The first attempt is closed and the call goes back for its second one.
LEMMA ToolRetries ==
    ASSUME ToolInv, NEW k \in Asks, CloseForRetry(k)
    PROVE  ToolInv'
<1>1. PICK id : id = ask[k].id
  OBVIOUS
<1>2. /\ ask[k].step = "closing" /\ ask[k].step \in OpenSteps \ {"starting"}
      /\ Holds => Written(id, "failed")
      /\ UNCHANGED <<admissions, admitLock, threads, fence, toolLife, toolDown, toolFaults>>
  BY <1>1 DEF CloseForRetry, Up, OpenSteps, AskSteps, SettledSteps
<1>3. /\ ask[k] \in AskRec /\ id \in CallIds /\ Asked(k) /\ AskPlaced(k) /\ AskStands(k)
      /\ k[1] \in Sessions /\ session[k[1]] \in SessionRec
      /\ session \in [Sessions -> SessionRec] /\ ToolTyped /\ (admitLock = k) = FALSE
  BY <1>1, <1>2, AskFacts DEF ToolInv, ToolTyped
<1>4. ToolsRun
  BY <1>2 DEF ToolsRun, ToolInv, ToolTyped
<1>5. (Holds => Status(id) = "started") /\ id.try = 1 /\ Logical(id) \in admissions
  BY <1>1, <1>2, <1>3 DEF AskStands, Holds
<1>6. Holds => Accepts(id, "failed")
  BY <1>5 DEF Accepts, Endings
<1>7. ASSUME NEW a \in AskRec, ask' = [ask EXCEPT ![k] = a], a.id = id,
             a.step \in {"interrupting", "rejected"}, Holds,
             NEW h \in BOOLEAN,
             session' = [session EXCEPT ![k[1]] = [@ EXCEPT !.halted = h, !.known = session[k[1]].known]]
      PROVE  ToolInv'
  <2> DEFINE ids == session[k[1]].known
  <2>1. ids \in SUBSET CallIds /\ session' = [session EXCEPT ![k[1]] = [@ EXCEPT !.halted = h, !.known = ids]]
    BY <1>3, <1>7 DEF SessionRec
  <2> HIDE DEF ids
  <2>6. /\ session' \in [Sessions -> SessionRec] /\ session'[k[1]].known = ids
        /\ \A r \in Sessions : /\ session'[r].asked = session[r].asked
                               /\ session'[r].prints = session[r].prints
                               /\ r # k[1] => session'[r].known = session[r].known
    BY <1>3, <2>1, SessionKeeps
  <2>2. /\ session' \in [Sessions -> SessionRec]
        /\ \A r \in Sessions : /\ session'[r].asked = session[r].asked
                               /\ session'[r].prints = session[r].prints
                               /\ session'[r].known = session[r].known
    BY <2>6 DEF ids
  <2>3. "failed" \in Endings
    BY DEF Endings
  <2>4. a.step \in {"interrupting", "saved"} \cup (SettledSteps \ {"idle"}) /\ a.step # "saved"
    BY <1>7 DEF SettledSteps
  <2>5. \A s \in Sessions : session'[s].known \subseteq session[s].known
    BY <2>2
  <2> QED
    BY <1>1, <1>2, <1>4, <1>6, <1>7, <2>2, <2>3, <2>4, <2>5, AskCloses, ZenonT(60)
<1>8. UNCHANGED session => \E h \in BOOLEAN :
        session' = [session EXCEPT ![k[1]] = [@ EXCEPT !.halted = h, !.known = session[k[1]].known]]
  <2>1. session[k[1]] = [session[k[1]] EXCEPT !.halted = session[k[1]].halted, !.known = session[k[1]].known]
    BY <1>3 DEF SessionRec
  <2> QED
    BY <1>3, <2>1, ZenonT(60) DEF SessionRec
<1> DEFINE spent == session[k[1]].asked > SpecialistLimit \/ session[k[1]].asked > RunLimit
<1>9. CASE Holds /\ session[k[1]].cancelling
  <2> DEFINE a == [ask[k] EXCEPT !.step = "interrupting"]
  <2>1. a \in AskRec /\ a.id = id /\ a.step = "interrupting"
    BY <1>1, <1>3 DEF AskRec, AskSteps
  <2>2. ask' = [ask EXCEPT ![k] = a] /\ UNCHANGED session
    BY <1>9 DEF CloseForRetry, AskGoes
  <2> HIDE DEF a
  <2> QED
    BY <1>7, <1>8, <1>9, <2>1, <2>2
<1>10. CASE Holds /\ ~session[k[1]].cancelling /\ spent
  <2> DEFINE a == [ask[k] EXCEPT !.step = "rejected"]
  <2>1. a \in AskRec /\ a.id = id /\ a.step = "rejected"
    BY <1>1, <1>3 DEF AskRec, AskSteps
  <2>2. ask' = [ask EXCEPT ![k] = a] /\ session' = [session EXCEPT ![k[1]].halted = TRUE]
    BY <1>10 DEF CloseForRetry, AskGoes
  <2>3. session' = [session EXCEPT ![k[1]] = [@ EXCEPT !.halted = TRUE, !.known = session[k[1]].known]]
    BY <1>3, <2>2 DEF SessionRec
  <2> HIDE DEF a
  <2> QED
    BY <1>7, <1>10, <2>1, <2>2, <2>3
<1>11. CASE ~Holds
  <2> DEFINE a == [ask[k] EXCEPT !.step = "failing"]
  <2>1. a \in AskRec /\ a.id = id /\ a.step = "failing"
    BY <1>1, <1>3 DEF AskRec, AskSteps
  <2>2. ask' = [ask EXCEPT ![k] = a] /\ UNCHANGED <<toolLog, session>>
    BY <1>11 DEF CloseForRetry, AskGoes
  <2> HIDE DEF a
  <2>3. a.step \in OpenSteps \ {"starting", "admit", "saved"}
    BY <2>1 DEF OpenSteps, AskSteps, SettledSteps
  <2> QED
    BY <1>1, <1>2, <1>4, <2>1, <2>2, <2>3, AskWaits
<1>12. CASE Holds /\ ~session[k[1]].cancelling /\ ~spent
  <2> DEFINE again == [id EXCEPT !.try = 2]
             a == [ask[k] EXCEPT !.step = "admit", !.id = again]
  <2>1. /\ again \in CallIds /\ again.try = 2 /\ again.n = id.n /\ Logical(again) = Logical(id)
        /\ again # id /\ Place(again) = Place(id) /\ again.life = id.life
    BY <1>3, <1>5 DEF CallIds, Logical, Place
  <2>2. a \in AskRec /\ a.id = again /\ a.step = "admit"
    BY <1>3, <2>1 DEF AskRec, AskSteps
  <2>3. ask' = [ask EXCEPT ![k] = a] /\ UNCHANGED session
    <3>1. ask' = [ask EXCEPT ![k].step = "admit", ![k].id.try = 2] /\ UNCHANGED session
      BY <1>12 DEF CloseForRetry
    <3>2. a = [[ask[k] EXCEPT !.step = "admit"] EXCEPT !.id.try = 2]
      BY <1>1, <1>3 DEF AskRec
    <3> QED
      BY <1>3, <3>1, <3>2 DEF ToolTyped
  <2>4. again \notin Rows
    <3> SUFFICES ASSUME again \in Rows
                 PROVE  FALSE
      OBVIOUS
    <3>1. again.life = toolLife /\ Place(again) = k
      BY <1>1, <1>3, <2>1 DEF AskPlaced
    <3>2. again.try <= ask[k].id.try
      BY <3>1 DEF ToolInv, RowsAsked
    <3> QED
      BY <1>1, <1>5, <2>1, <3>2
  <2>5. Rows' = Rows \cup {id} /\ Status(id)' = "failed"
    BY <1>2, <1>3, <1>12, WrittenLog DEF Happenings, Endings
  <2> HIDE DEF a, again
  <2>6. ask'[k] = a
    BY <1>3, <2>3 DEF ToolTyped
  <2>7. AskStands(k)'
    BY <1>2, <1>5, <2>1, <2>2, <2>4, <2>5, <2>6 DEF AskStands, Logical
  <2>8. AskWrites(id)
    BY <1>2, <1>6, <1>12 DEF AskWrites, Happenings, Endings, Holds
  <2>9. admitLock' \in Asks \cup {NoAsk} /\ admitLock' = admitLock /\ (admitLock' = k) = (a.step = "starting")
    BY <1>2, <1>3, <2>2 DEF ToolTyped
  <2>10. /\ session' \in [Sessions -> SessionRec] /\ session' = session
         /\ id.try <= a.id.try /\ a.id.try # 1 /\ admissions' = admissions
    BY <1>2, <1>3, <1>5, <2>1, <2>2, <2>3
  <2> QED
    BY <1>1, <1>3, <1>4, <2>1, <2>2, <2>3, <2>5, <2>7, <2>8, <2>9, <2>10, AskMoves
<1> QED
  BY <1>9, <1>10, <1>11, <1>12

\* A call that waits for its first admission is unknown to the run.
LEMMA NewCall ==
    ASSUME ToolInv, NEW k \in Asks, ask[k].step = "admit", ask[k].id.try = 1
    PROVE  Logical(ask[k].id) \notin Consumed \cup admissions
<1> DEFINE id == ask[k].id
<1>1. /\ Asked(k) /\ id \in CallIds /\ AskPlaced(k) /\ AskStands(k) /\ id \notin Rows
  BY AskFacts DEF OpenSteps, AskSteps, SettledSteps, AskStands
<1>2. id.life = toolLife /\ Place(id) = k
  BY <1>1 DEF AskPlaced
<1>3. ASSUME NEW r \in Rows, Logical(r) = Logical(id)
      PROVE  FALSE
  <2>1. r.life = id.life /\ r.session = id.session /\ r.query = id.query /\ r \in CallIds
    BY <1>3 DEF Logical, ToolInv, ToolTyped
  <2>2. Asked(Place(r)) /\ ask[Place(r)].id.query = r.query /\ r.try <= ask[Place(r)].id.try
    BY <1>2, <2>1 DEF ToolInv, RowsAsked
  <2>3. Place(r) \in Asks /\ Place(r)[1] = k[1]
    BY <1>2, <2>1 DEF Place, CallIds, Asks
  <2>4. Place(r) = k
    BY <1>1, <2>1, <2>2, <2>3 DEF ToolInv, AskedOnce
  <2>5. r.n = id.n /\ r.try = 1
    BY <1>2, <2>1, <2>2, <2>4 DEF Place, CallIds
  <2>6. r = id
    BY <1>1, <2>1, <2>5 DEF CallIds
  <2> QED
    BY <1>1, <2>6
<1>4. ASSUME Logical(id) \in admissions
      PROVE  FALSE
  <2>1. PICK j \in Asks : Asked(j) /\ Logical(ask[j].id) = Logical(id) /\ ~(ask[j].step = "admit" /\ ask[j].id.try = 1)
    BY <1>4 DEF ToolInv, AdmittedAsked
  <2>2. ask[j].id.session = id.session /\ ask[j].id.query = id.query /\ AskPlaced(j)
    BY <2>1 DEF Logical, ToolInv
  <2>3. Place(ask[j].id) = j
    BY <2>1, <2>2 DEF AskPlaced
  <2>4. j[1] = k[1]
    BY <1>2, <2>2, <2>3 DEF Place
  <2>5. j = k
    BY <1>1, <2>1, <2>2, <2>4 DEF ToolInv, AskedOnce
  <2> QED
    BY <2>1, <2>5
<1> QED
  BY <1>3, <1>4 DEF Consumed

LEMMA ToolAdmits ==
    ASSUME ToolInv, NEW k \in Asks, Admit(k)
    PROVE  ToolInv'
<1>1. PICK id : id = ask[k].id
  OBVIOUS
<1>2. /\ ask[k].step = "admit" /\ ask[k].step \in OpenSteps \ {"starting"}
      /\ UNCHANGED <<toolLog, threads, fence, toolLife, toolDown, toolFaults>>
  BY DEF Admit, Up, OpenSteps, AskSteps, SettledSteps
<1>3. /\ ask[k] \in AskRec /\ id \in CallIds /\ Asked(k) /\ AskPlaced(k) /\ AskStands(k)
      /\ k[1] \in Sessions /\ session[k[1]] \in SessionRec /\ id.try \in 1..2
      /\ session \in [Sessions -> SessionRec] /\ ToolTyped /\ id \notin Rows
  BY <1>1, <1>2, AskFacts DEF ToolInv, ToolTyped, AskStands
<1>4. ToolsRun
  BY <1>2 DEF ToolsRun, ToolInv, ToolTyped
<1>5. AskWrites(id) /\ Status(id)' = "none" /\ Rows' = Rows
  BY <1>2, <1>3 DEF AskWrites, Status, LogOf, Rows
<1> DEFINE full == Logical(id) \notin Consumed \cup admissions /\ Cardinality(Consumed \cup admissions) >= RunLimit
           refused == /\ admitLock = NoAsk /\ full /\ AskGoes(k, "rejected")
                      /\ session' = [session EXCEPT ![k[1]].halted = TRUE]
                      /\ UNCHANGED <<admissions, admitLock>>
           admitted == /\ admitLock = NoAsk /\ ~full
                       /\ AskGoes(k, IF Holds THEN "starting" ELSE "failing")
                       /\ admissions' = admissions \cup {Logical(id)}
                       /\ admitLock' = IF Holds THEN k ELSE NoAsk
                       /\ UNCHANGED session
           tooLate == /\ fence = "late"
                      /\ AskGoes(k, IF id.try = 1 THEN "rejected" ELSE "failing")
                      /\ UNCHANGED <<session, admissions, admitLock>>
<1>6. CASE refused
  <2> DEFINE a == [ask[k] EXCEPT !.step = "rejected"]
             ids == session[k[1]].known
  <2>1. a \in AskRec /\ a.id = id /\ a.step = "rejected"
    BY <1>1, <1>3 DEF AskRec, AskSteps
  <2>2. /\ ask' = [ask EXCEPT ![k] = a] /\ session' = [session EXCEPT ![k[1]].halted = TRUE]
        /\ UNCHANGED <<admissions, admitLock>>
    BY <1>1, <1>6 DEF AskGoes
  <2>3. /\ session' = [session EXCEPT ![k[1]] = [@ EXCEPT !.halted = TRUE, !.known = ids]]
        /\ ids \in SUBSET CallIds
    BY <1>3, <2>2 DEF SessionRec
  <2> HIDE DEF a, ids
  <2>4. /\ session' \in [Sessions -> SessionRec] /\ session'[k[1]].known = ids
        /\ \A r \in Sessions : /\ session'[r].asked = session[r].asked
                               /\ session'[r].prints = session[r].prints
                               /\ r # k[1] => session'[r].known = session[r].known
    BY <1>3, <2>3, SessionKeeps
  <2>5. \A s \in Sessions : \A i \in session'[s].known : i \in session[s].known \/ Status(i)' = "success"
    BY <2>4 DEF ids
  <2>6. a.step \notin {"idle", "starting", "admit", "gate", "running", "saving", "closing"}
    BY <2>1
  <2> QED
    BY <1>1, <1>2, <1>4, <1>5, <2>1, <2>2, <2>4, <2>5, <2>6, AskGoesOn
<1>7. CASE admitted
  <2> DEFINE step == IF Holds THEN "starting" ELSE "failing"
             a == [ask[k] EXCEPT !.step = step]
  <2>1. a \in AskRec /\ a.id = id /\ a.step = step /\ step \in {"starting", "failing"}
    BY <1>1, <1>3 DEF AskRec, AskSteps
  <2>2. /\ ask' = [ask EXCEPT ![k] = a] /\ UNCHANGED session
        /\ admissions' = admissions \cup {Logical(id)}
        /\ admitLock' = IF step = "starting" THEN k ELSE NoAsk
    BY <1>1, <1>7 DEF AskGoes
  <2> HIDE DEF a, step
  <2>3. Logical(id) \in Paid \/ Cardinality(Consumed \cup admissions) < RunLimit
    <3>1. CASE Logical(id) \in Consumed \cup admissions
      <4>1. id.try = 2
        BY <1>1, <1>2, <1>3, <3>1, NewCall
      <4> QED
        BY <1>1, <1>2, <1>3, <4>1 DEF AskStands, Paid
    <3>2. CASE ~(Cardinality(Consumed \cup admissions) >= RunLimit)
      <4>1. IsFiniteSet(Consumed \cup admissions)
        BY ToolPaid
      <4> QED
        BY <3>2, <4>1, FS_CardinalityType, ToolSessionAssumption
    <3> QED
      BY <1>7, <3>1, <3>2
  <2>4. ask'[k] = a
    BY <1>3, <2>2 DEF ToolTyped
  <2>5. AskStands(k)'
    BY <1>3, <1>5, <2>1, <2>2, <2>4 DEF AskStands, Logical
  <2>6. /\ admitLock' \in Asks \cup {NoAsk} /\ (admitLock' = k) = (a.step = "starting")
        /\ \A j \in Asks : j # k => (admitLock' = j) = (admitLock = j)
    BY <1>7, <2>1, <2>2, NoAskIsNone
  <2>7. /\ session' \in [Sessions -> SessionRec] /\ session' = session /\ id.try <= a.id.try
        /\ Logical(a.id) = Logical(id) /\ a.id.n = id.n /\ a.step \notin {"idle", "admit"}
    BY <1>3, <2>1, <2>2
  <2>8. Status(id)' # "started"
    BY <1>5
  <2> QED
    BY <1>1, <1>3, <1>4, <1>5, <2>1, <2>2, <2>3, <2>5, <2>6, <2>7, <2>8, AskMoves
<1>8. CASE tooLate
  <2> DEFINE step == IF id.try = 1 THEN "rejected" ELSE "failing"
             a == [ask[k] EXCEPT !.step = step]
  <2>1. a \in AskRec /\ a.id = id /\ a.step = step /\ step \in {"rejected", "failing"}
    BY <1>1, <1>3 DEF AskRec, AskSteps
  <2>2. ask' = [ask EXCEPT ![k] = a] /\ ~Holds /\ UNCHANGED <<toolLog, session, admissions, admitLock>>
    BY <1>1, <1>2, <1>8 DEF AskGoes, Holds
  <2> HIDE DEF a, step
  <2> QED
    BY <1>1, <1>2, <1>4, <2>1, <2>2, AskWaits DEF OpenSteps, AskSteps, SettledSteps
<1>9. refused \/ admitted \/ tooLate
  BY <1>1 DEF Admit
<1> QED
  BY <1>6, <1>7, <1>8, <1>9

LEMMA ToolStarts ==
    ASSUME ToolInv, NEW k \in Asks, Started(k)
    PROVE  ToolInv'
<1>1. PICK id : id = ask[k].id
  OBVIOUS
<1>2. /\ ask[k].step = "starting" /\ ask[k].step \in OpenSteps /\ admitLock' = NoAsk
      /\ UNCHANGED <<session, admissions, threads, fence, toolLife, toolDown, toolFaults>>
  BY DEF Started, Up, OpenSteps, AskSteps, SettledSteps
<1>3. /\ ask[k] \in AskRec /\ id \in CallIds /\ Asked(k) /\ AskPlaced(k) /\ AskStands(k)
      /\ id.try \in 1..2 /\ admitLock = k /\ Logical(id) \in admissions
      /\ session \in [Sessions -> SessionRec] /\ ToolTyped /\ id \notin Rows
  BY <1>1, <1>2, AskFacts DEF ToolInv, ToolTyped, AskStands
<1>4. ToolsRun
  BY <1>2 DEF ToolsRun, ToolInv, ToolTyped
<1>5. ASSUME NEW a \in AskRec, ask' = [ask EXCEPT ![k] = a], a.id = id, a.step \in {"gate", "failing"},
             AskWrites(id), a.step = "gate" => Status(id)' = "started"
      PROVE  ToolInv'
  <2>1. ask'[k] = a
    BY <1>3, <1>5 DEF ToolTyped
  <2>2. AskStands(k)'
    BY <1>2, <1>3, <1>5, <2>1 DEF AskStands, Logical, Status, LogOf
  <2>3. /\ admitLock' \in Asks \cup {NoAsk} /\ (admitLock' = k) = (a.step = "starting")
        /\ \A j \in Asks : j # k => (admitLock' = j) = (admitLock = j)
    BY <1>2, <1>3, <1>5, NoAskIsNone
  <2>4. /\ session' \in [Sessions -> SessionRec] /\ session' = session /\ id.try <= a.id.try
        /\ Logical(a.id) = Logical(id) /\ a.id.n = id.n /\ a.step \notin {"idle", "admit"}
        /\ a.step \notin SettledSteps /\ admissions' = admissions
    BY <1>2, <1>3, <1>5 DEF SettledSteps
  <2> QED
    BY <1>1, <1>3, <1>4, <1>5, <2>2, <2>3, <2>4, AskMoves
<1>6. CASE StoreTakes /\ StartAllowed(id)
  <2> DEFINE step == IF Holds THEN "gate" ELSE "failing"
             a == [ask[k] EXCEPT !.step = step]
  <2>1. a \in AskRec /\ a.id = id /\ a.step \in {"gate", "failing"}
    BY <1>1, <1>3 DEF AskRec, AskSteps
  <2>2. Written(id, "started") /\ ask' = [ask EXCEPT ![k] = a]
    BY <1>1, <1>6 DEF Started, AskGoes
  <2> HIDE DEF a, step
  <2>3. Accepts(id, "started")
    BY <1>3, NoStatus DEF Accepts, Endings
  <2>4. AskWrites(id) /\ Status(id)' = "started"
    BY <1>3, <1>6, <2>2, <2>3, WrittenLog DEF AskWrites, Happenings, StoreTakes
  <2> QED
    BY <1>5, <2>1, <2>2, <2>4
<1>7. CASE ~(StoreTakes /\ StartAllowed(id))
  <2> DEFINE a == [ask[k] EXCEPT !.step = "failing"]
  <2>1. a \in AskRec /\ a.id = id /\ a.step = "failing"
    BY <1>1, <1>3 DEF AskRec, AskSteps
  <2>2. ask' = [ask EXCEPT ![k] = a] /\ AskWrites(id)
    BY <1>1, <1>7 DEF Started, AskGoes, AskWrites
  <2> HIDE DEF a
  <2> QED
    BY <1>5, <2>1, <2>2
<1> QED
  BY <1>6, <1>7

-----------------------------------------------------------------------------
(* Queries and sessions *)

\* A query is asked in its turn: it gets a call, or is answered at once.
LEMMA AskBegins ==
    ASSUME ToolInv, NEW s \in Sessions, NEW n \in 1..MaxAsks, ask[<<s, n>>].step = "idle",
           n > 1 => ask[<<s, n - 1>>].step # "idle",
           NEW a \in AskRec, ask' = [ask EXCEPT ![<<s, n>>] = a],
           NEW f \in SessionRec, session' = [session EXCEPT ![s] = f],
           f.asked \in {session[s].asked, session[s].asked + 1}, f.known = session[s].known,
           \/ a.step \in {"rejected", "returned", "raised"} /\ a.id = NoAsk /\ f.prints = session[s].prints
           \/ /\ a.step = "admit" /\ a.id \in CallIds /\ a.id.query \notin session[s].prints
              /\ a.id.life = toolLife /\ Place(a.id) = <<s, n>> /\ a.id.try = 1
              /\ f.prints = session[s].prints \cup {a.id.query},
           UNCHANGED <<toolLog, admissions, admitLock, threads, fence, toolLife, toolDown, toolFaults>>
    PROVE  ToolInv'
<1> DEFINE k == <<s, n>>
<1>1. /\ k \in Asks /\ k[1] = s /\ k[2] = n /\ ToolTyped
      /\ session \in [Sessions -> SessionRec] /\ ask \in [Asks -> AskRec] /\ ~Asked(k)
  BY DEF Asks, ToolInv, ToolTyped, AskPlaced
<1> HIDE DEF k
<1>2. /\ ask' \in [Asks -> AskRec] /\ ask'[k] = a /\ \A j \in Asks : j # k => ask'[j] = ask[j]
      /\ session' \in [Sessions -> SessionRec] /\ session'[s] = f
      /\ \A r \in Sessions : r # s => session'[r] = session[r]
  BY <1>1 DEF k
<1>3. \A r \in Sessions : /\ session'[r].known = session[r].known
                          /\ session[r].prints \subseteq session'[r].prints
  BY <1>2
<1>4. Rows' = Rows /\ (\A i : Status(i)' = Status(i)) /\ Crossed' = Crossed
  BY DEF Rows, Status, LogOf, Crossed
<1>5. ToolTyped'
  BY <1>1, <1>2 DEF ToolTyped, Rows
<1>6. Rows \subseteq CallIds /\ \A i \in CallIds : Place(i) \in Asks /\ i # NoAsk
  BY <1>1, NoAskIsNone DEF ToolTyped, Place, CallIds, Asks
<1>7. \A j \in Asks : Asked(j) => j # k /\ ask'[j] = ask[j] /\ Asked(j)'
  BY <1>1, <1>2 DEF Asked
<1>8. ASSUME NEW j \in Asks
      PROVE  (AskPlaced(j) /\ AskStands(j))'
  <2>1. AskPlaced(j) /\ AskStands(j) /\ j[1] \in Sessions
    BY AsksPlaced DEF ToolInv
  <2>2. CASE j # k
    <3>1. ask'[j] = ask[j]
      BY <1>2, <2>2
    <3>2. AskPlaced(j)'
      BY <1>3, <2>1, <3>1 DEF AskPlaced, Asked, Place
    <3>3. AskStands(j)'
      BY <1>4, <2>1, <3>1 DEF AskStands, Logical
    <3> QED
      BY <3>2, <3>3
  <2>3. CASE j = k /\ a.step # "admit"
    BY <1>1, <1>2, <2>3 DEF AskPlaced, AskStands, Asked, OpenSteps, SettledSteps
  <2>4. CASE j = k /\ a.step = "admit"
    <3>1. a.id \in CallIds /\ a.id # NoAsk /\ a.id.life = toolLife /\ Place(a.id) = k /\ a.id.try = 1
      BY <1>6, <2>4 DEF k
    <3>2. a.id \notin Rows
      BY <1>1, <3>1 DEF ToolInv, RowsAsked
    <3>3. a.id.query \in session'[s].prints
      BY <1>2, <2>4
    <3>4. AskPlaced(j)'
      BY <1>1, <1>2, <2>4, <3>1, <3>3 DEF AskPlaced, Asked, Place
    <3>5. AskStands(j)'
      BY <1>2, <1>4, <2>4, <3>1, <3>2 DEF AskStands
    <3> QED
      BY <3>4, <3>5
  <2> QED
    BY <2>2, <2>3, <2>4
<1>9. AskedOnce'
  <2>1. \A j \in Asks : Asked(j) /\ j[1] = s => ask[j].id.query \in session[s].prints
    BY DEF ToolInv, AskPlaced
  <2>2. Asked(k)' => a.id.query \notin session[s].prints
    BY <1>2 DEF Asked
  <2>3. \A j \in Asks : Asked(j)' /\ j # k => Asked(j) /\ ask'[j] = ask[j]
    BY <1>2 DEF Asked
  <2> QED
    BY <1>1, <1>2, <2>1, <2>2, <2>3 DEF ToolInv, AskedOnce
<1>10. RowsAsked'
  <2> SUFFICES ASSUME NEW i \in Rows
               PROVE  /\ i.life <= toolLife
                      /\ i.life = toolLife =>
                           Asked(Place(i))' /\ ask'[Place(i)].id.query = i.query /\ i.try <= ask'[Place(i)].id.try
    BY <1>4 DEF RowsAsked, Place
  <2>1. /\ i.life <= toolLife
        /\ i.life = toolLife =>
             Asked(Place(i)) /\ ask[Place(i)].id.query = i.query /\ i.try <= ask[Place(i)].id.try
    BY DEF ToolInv, RowsAsked
  <2> QED
    BY <1>6, <1>7, <2>1
<1>11. OpenRows'
  <2> SUFFICES ASSUME NEW i \in Rows, Status(i) = "started"
               PROVE  i = ask'[Place(i)].id /\ (ask'[Place(i)].step \in SettledSteps => ~Holds)
    BY <1>4 DEF OpenRows, Place, Holds
  <2>1. i = ask[Place(i)].id /\ (ask[Place(i)].step \in SettledSteps => ~Holds)
    BY DEF ToolInv, OpenRows
  <2> QED
    BY <1>6, <1>7, <2>1 DEF Asked
<1>12. AdmittedAsked'
  <2> SUFFICES ASSUME NEW l \in admissions
               PROVE  \E j \in Asks : /\ Asked(j)' /\ Logical(ask'[j].id) = l
                                      /\ ~(ask'[j].step = "admit" /\ ask'[j].id.try = 1)
    BY DEF AdmittedAsked, Logical
  <2>1. PICK j \in Asks : Asked(j) /\ Logical(ask[j].id) = l /\ ~(ask[j].step = "admit" /\ ask[j].id.try = 1)
    BY DEF ToolInv, AdmittedAsked
  <2> QED
    BY <1>7, <2>1
<1>13. LockHeld'
  BY <1>1, <1>2 DEF ToolInv, LockHeld, k
<1>14. InTurn'
  <2>1. \A j \in Asks : j[1] = s /\ j # k /\ ask[j].step = "idle" => j[2] > n
    <3> SUFFICES ASSUME NEW j \in Asks, j[1] = s, j # k, ask[j].step = "idle", ~(j[2] > n)
                 PROVE  FALSE
      OBVIOUS
    <3>1. j[2] \in 1..MaxAsks /\ j = <<j[1], j[2]>>
      BY AsksPlaced
    <3>2. MaxAsks \in Nat
      BY ToolSessionAssumption
    <3>3. n - 1 \in 1..MaxAsks /\ j[2] <= n - 1 /\ n > 1
      BY <3>1, <3>2 DEF k
    <3>4. <<s, n - 1>> \in Asks
      BY <3>3 DEF Asks
    <3>5. ask[<<s, n - 1>>].step = "idle"
      BY <3>3, <3>4 DEF ToolInv, InTurn
    <3> QED
      BY <3>3, <3>5
  <2>2. session[s].asked < n /\ f.asked \in 0..MaxAsks /\ session[s].asked \in 0..MaxAsks
    BY <1>1 DEF ToolInv, InTurn, SessionRec, k
  <2>3. f.asked <= n
    BY <2>2, ToolSessionAssumption
  <2>4. \A j \in Asks : ask'[j].step = "idle" <=> j # k /\ ask[j].step = "idle"
    BY <1>2
  <2>5. \A j \in Asks : j[1] \in Sessions /\ j[2] \in 1..MaxAsks
    BY AsksPlaced
  <2>6. \A j \in Asks : ask'[j].step = "idle" => session'[j[1]].asked < j[2]
    <3> SUFFICES ASSUME NEW j \in Asks, ask'[j].step = "idle"
                 PROVE  session'[j[1]].asked < j[2]
      OBVIOUS
    <3>1. CASE j[1] = s
      BY <1>2, <2>1, <2>2, <2>3, <2>4, <2>5, <3>1, ToolSessionAssumption
    <3>2. CASE j[1] # s
      BY <1>2, <2>4, <2>5, <3>2 DEF ToolInv, InTurn
    <3> QED
      BY <3>1, <3>2
  <2>7. \A i, j \in Asks : i[1] = j[1] /\ i[2] <= j[2] /\ ask'[i].step = "idle" => ask'[j].step = "idle"
    <3> SUFFICES ASSUME NEW i \in Asks, NEW j \in Asks, i[1] = j[1], i[2] <= j[2], ask'[i].step = "idle"
                 PROVE  ask'[j].step = "idle"
      OBVIOUS
    <3>1. ask[i].step = "idle" /\ i # k /\ ask[j].step = "idle"
      BY <2>4 DEF ToolInv, InTurn
    <3>2. j # k
      BY <1>1, <2>1, <2>5, <3>1, ToolSessionAssumption
    <3> QED
      BY <2>4, <3>1, <3>2
  <2> QED
    BY <2>6, <2>7 DEF InTurn
<1>15. PaidWithinBudget' /\ QueryCrossesOnce'
  BY <1>4 DEF ToolInv, PaidWithinBudget, Paid, QueryCrossesOnce
<1>16. EvidenceIsDurable' /\ OverIsClosed'
  BY <1>3, <1>4 DEF ToolInv, EvidenceIsDurable, OverIsClosed, NoCallOpen
<1> QED
  BY <1>5, <1>8, <1>9, <1>10, <1>11, <1>12, <1>13, <1>14, <1>15, <1>16 DEF ToolInv

LEMMA ToolAsks ==
    ASSUME ToolInv, NEW s \in Sessions, NEW n \in 1..MaxAsks, NEW q \in Queries, AskQuery(s, n, q)
    PROVE  ToolInv'
<1> DEFINE k == <<s, n>>
           asked == session[s].asked + 1
<1>1. /\ ask[k].step = "idle" /\ (n > 1 => ask[<<s, n - 1>>].step # "idle")
      /\ UNCHANGED <<toolLog, admissions, admitLock, threads, fence, toolLife, toolDown, toolFaults>>
  BY DEF AskQuery
<1>2. k \in Asks /\ k[1] = s /\ k[2] = n /\ ask[k] \in AskRec /\ session[s] \in SessionRec
  BY DEF Asks, ToolInv, ToolTyped
<1>3. ask[k].id = NoAsk /\ session[s].asked < n
  BY <1>1, <1>2 DEF ToolInv, AskPlaced, Asked, InTurn
<1>4. asked \in 0..MaxAsks
  BY <1>2, <1>3, ToolSessionAssumption DEF SessionRec
<1>5. ASSUME NEW step \in {"rejected", "returned", "raised"}, AskGoes(k, step),
             NEW f \in SessionRec, session' = [session EXCEPT ![s] = f],
             f.asked \in {session[s].asked, session[s].asked + 1}, f.known = session[s].known,
             f.prints = session[s].prints
      PROVE  ToolInv'
  <2> DEFINE a == [ask[k] EXCEPT !.step = step]
  <2>1. a \in AskRec /\ a.step = step /\ a.id = NoAsk
    BY <1>2, <1>3 DEF AskRec, AskSteps
  <2>2. ask' = [ask EXCEPT ![<<s, n>>] = a]
    BY <1>5 DEF AskGoes
  <2> HIDE DEF a
  <2>3. a.step \in {"rejected", "returned", "raised"}
    BY <2>1
  <2> QED
    BY <1>1, <1>5, <2>1, <2>2, <2>3, AskBegins
<1>6. CASE AskGoes(k, "rejected") /\ UNCHANGED session
  <2>1. session' = [session EXCEPT ![s] = session[s]]
    BY <1>6 DEF ToolInv, ToolTyped
  <2> QED
    BY <1>2, <1>5, <1>6, <2>1
<1>7. CASE \E step \in {"rejected", "returned", "raised"} :
             AskGoes(k, step) /\ session' = [session EXCEPT ![s].asked = asked]
  <2> DEFINE f == [session[s] EXCEPT !.asked = asked]
  <2>1. PICK step \in {"rejected", "returned", "raised"} :
          AskGoes(k, step) /\ session' = [session EXCEPT ![s].asked = asked]
    BY <1>7 DEF AskGoes
  <2>2. /\ f \in SessionRec /\ f.asked = asked /\ f.known = session[s].known
        /\ f.prints = session[s].prints /\ session' = [session EXCEPT ![s] = f]
    BY <1>2, <1>4, <2>1 DEF SessionRec
  <2> HIDE DEF f
  <2> QED
    BY <1>5, <2>1, <2>2
<1>8. ASSUME NEW h \in BOOLEAN, AskGoes(k, "rejected"),
             session' = [session EXCEPT ![s].asked = asked, ![s].halted = h]
      PROVE  ToolInv'
  <2> DEFINE f == [session[s] EXCEPT !.asked = asked, !.halted = h]
  <2>1. /\ f \in SessionRec /\ f.asked = asked /\ f.known = session[s].known
        /\ f.prints = session[s].prints /\ session' = [session EXCEPT ![s] = f]
    BY <1>2, <1>4, <1>8 DEF SessionRec
  <2> HIDE DEF f
  <2> QED
    BY <1>5, <1>8, <2>1
<1>9. CASE /\ q \notin session[s].prints
           /\ session' = [session EXCEPT ![s].asked = asked, ![s].prints = @ \cup {q}]
           /\ ask' = [ask EXCEPT ![k] = [step |-> "admit", stops |-> FALSE,
                        id |-> [life |-> toolLife, session |-> s, query |-> q, n |-> n, try |-> 1]]]
  <2> DEFINE f  == [session[s] EXCEPT !.asked = asked, !.prints = session[s].prints \cup {q}]
             id == [life |-> toolLife, session |-> s, query |-> q, n |-> n, try |-> 1]
             a  == [step |-> "admit", stops |-> FALSE, id |-> id]
  <2>1. /\ f \in SessionRec /\ f.asked = asked /\ f.known = session[s].known
        /\ f.prints = session[s].prints \cup {q} /\ session' = [session EXCEPT ![s] = f]
    BY <1>2, <1>4, <1>9 DEF SessionRec
  <2>2. toolLife \in 0..MaxToolFaults
    BY ToolSessionAssumption DEF ToolInv, ToolTyped
  <2>3. id \in CallIds /\ id.query = q /\ id.life = toolLife /\ Place(id) = <<s, n>> /\ id.try = 1
    BY <2>2 DEF CallIds, Place
  <2>4. a \in AskRec /\ a.step = "admit" /\ a.id = id
    BY <2>3 DEF AskRec, AskSteps
  <2>5. ask' = [ask EXCEPT ![<<s, n>>] = a]
    BY <1>9
  <2> HIDE DEF f, a, id
  <2>6. /\ a.step = "admit" /\ a.id \in CallIds /\ a.id.query \notin session[s].prints
        /\ a.id.life = toolLife /\ Place(a.id) = <<s, n>> /\ a.id.try = 1
        /\ f.prints = session[s].prints \cup {a.id.query}
    BY <1>9, <2>1, <2>3, <2>4
  <2>7. f.asked \in {session[s].asked, session[s].asked + 1} /\ f \in SessionRec /\ a \in AskRec
    BY <2>1, <2>4
  <2> HIDE DEF asked, k
  <2>8. ask[<<s, n>>].step = "idle"
    BY <1>1 DEF k
  <2> QED
    BY <1>1, <2>1, <2>5, <2>6, <2>7, <2>8, AskBegins
<1>10. \/ AskGoes(k, "rejected") /\ UNCHANGED session
       \/ \E step \in {"rejected", "returned", "raised"} :
             AskGoes(k, step) /\ session' = [session EXCEPT ![s].asked = asked]
       \/ \E h \in BOOLEAN : AskGoes(k, "rejected") /\ session' = [session EXCEPT ![s].asked = asked, ![s].halted = h]
       \/ /\ q \notin session[s].prints
          /\ session' = [session EXCEPT ![s].asked = asked, ![s].prints = @ \cup {q}]
          /\ ask' = [ask EXCEPT ![k] = [step |-> "admit", stops |-> FALSE,
                       id |-> [life |-> toolLife, session |-> s, query |-> q, n |-> n, try |-> 1]]]
  <2>1. session[s].halted \in BOOLEAN
    BY <1>2 DEF SessionRec
  <2>2. ASSUME NEW over \in BOOLEAN,
               session' = [session EXCEPT ![s].asked = asked,
                             ![s].halted = @ \/ (over /\ q \notin session[s].prints)]
        PROVE  \E h \in BOOLEAN : session' = [session EXCEPT ![s].asked = asked, ![s].halted = h]
    <3> DEFINE h == session[s].halted \/ (over /\ q \notin session[s].prints)
    <3>1. h \in BOOLEAN /\ session' = [session EXCEPT ![s].asked = asked, ![s].halted = h]
      BY <1>2, <2>1, <2>2 DEF SessionRec, ToolInv, ToolTyped
    <3> QED
      BY <3>1
  <2> QED
    BY <2>2 DEF AskQuery
<1> QED
  BY <1>6, <1>7, <1>8, <1>9, <1>10

\* Faults are counted; the run still has one life for each.
LEMMA FaultsFit ==
    ASSUME ToolInv, UNCHANGED toolFaults \/ ToolFault
    PROVE  toolFaults' \in 0..MaxToolFaults /\ toolFaults <= toolFaults' /\ (ToolFault => toolFaults < toolFaults')
BY ToolSessionAssumption DEF ToolFault, ToolInv, ToolTyped

\* The session is cancelled or goes on; the run is given up; the process dies.
LEMMA ToolAround ==
    ASSUME ToolInv,
           \/ \E s \in Sessions : CancelSession(s) \/ SessionRetries(s)
           \/ RunGivenUp \/ RoundDies
    PROVE  ToolInv'
<1>1. UNCHANGED <<ask, toolLog, admissions, admitLock, toolLife>>
  BY DEF CancelSession, SessionRetries, RunGivenUp, RoundDies
<1>2. /\ session' \in [Sessions -> SessionRec]
      /\ \A s \in Sessions : /\ session'[s].asked = session[s].asked /\ session'[s].prints = session[s].prints
                             /\ session'[s].known = session[s].known
  <2>1. session \in [Sessions -> SessionRec]
    BY DEF ToolInv, ToolTyped
  <2>2. CASE UNCHANGED session
    BY <2>1, <2>2
  <2>3. ASSUME NEW s \in Sessions, NEW c \in BOOLEAN, session' = [session EXCEPT ![s].cancelling = c]
        PROVE  /\ session' \in [Sessions -> SessionRec]
               /\ \A r \in Sessions : /\ session'[r].asked = session[r].asked
                                      /\ session'[r].prints = session[r].prints
                                      /\ session'[r].known = session[r].known
    BY <2>1, <2>3 DEF SessionRec
  <2> QED
    BY <2>2, <2>3 DEF CancelSession, SessionRetries, RunGivenUp, RoundDies
<1>3. /\ UNCHANGED toolFaults \/ ToolFault
      /\ UNCHANGED fence \/ (Holds /\ ToolFault /\ fence' \in {"late", "cancelling", "lost"})
      /\ UNCHANGED <<threads, toolDown>> \/ (threads' = {} /\ toolDown' = TRUE /\ ToolFault)
  BY Zenon DEF CancelSession, SessionRetries, RunGivenUp, RoundDies
<1>4. /\ fence' \in Fences /\ toolDown' \in BOOLEAN /\ threads' \subseteq CallIds
      /\ toolFaults' \in 0..MaxToolFaults /\ toolLife <= toolFaults'
      /\ (toolDown' \/ fence' = "lost" => toolLife < toolFaults')
  <2>1. /\ fence \in Fences /\ toolDown \in BOOLEAN /\ threads \subseteq CallIds
        /\ toolLife \in Nat /\ toolFaults \in 0..MaxToolFaults
        /\ toolLife <= toolFaults /\ (toolDown \/ fence = "lost" => toolLife < toolFaults)
    BY DEF ToolInv, ToolTyped
  <2>2. /\ toolFaults' \in 0..MaxToolFaults /\ toolFaults <= toolFaults'
        /\ ToolFault => toolFaults < toolFaults'
    BY <1>3, FaultsFit
  <2>3. MaxToolFaults \in Nat
    BY ToolSessionAssumption
  <2>4. toolLife <= toolFaults' /\ (toolDown' \/ fence' = "lost" => toolLife < toolFaults')
    <3>1. CASE ToolFault
      BY <2>1, <2>2, <2>3, <3>1
    <3>2. CASE UNCHANGED <<toolDown, fence>>
      BY <2>1, <2>2, <2>3, <3>2
    <3> QED
      BY <1>3, <3>1, <3>2
  <2>5. fence' \in Fences /\ toolDown' \in BOOLEAN /\ threads' \subseteq CallIds
    BY <1>3, <2>1 DEF Fences
  <2> QED
    BY <2>2, <2>4, <2>5
<1>5. ToolTyped'
  BY <1>1, <1>2, <1>4 DEF ToolInv, ToolTyped, Rows
<1>6. \A k \in Asks : (AskPlaced(k) /\ AskStands(k))'
  <2>1. fence' # "over" => fence # "over"
    BY <1>3 DEF Holds
  <2> QED
    BY <1>1, <1>2, <2>1, AsksPlaced DEF ToolInv, AskPlaced, AskStands, Asked, Rows, Status, LogOf
<1>7. InTurn'
  BY <1>1, <1>2, AsksPlaced DEF ToolInv, InTurn
<1>8. EvidenceIsDurable'
  BY <1>1, <1>2 DEF ToolInv, EvidenceIsDurable, Status, LogOf
<1>9. OpenRows' /\ OverIsClosed'
  BY <1>1, <1>3 DEF ToolInv, OpenRows, OverIsClosed, NoCallOpen, Holds, Status, LogOf, Rows
<1> QED
  BY <1>1, <1>5, <1>6, <1>7, <1>8, <1>9
     DEF ToolInv, AskedOnce, RowsAsked, AdmittedAsked, LockHeld, PaidWithinBudget, Paid, Crossed,
         QueryCrossesOnce, Asked, Rows, Status, LogOf

\* The open calls are interrupted, and every other log stays.
LEMMA InterruptedLog ==
    ASSUME ToolTyped, OpenInterrupted
    PROVE  /\ Rows' = Rows /\ Crossed' = Crossed
           /\ \A i \in Rows : /\ toolLog'[i] \in Seq(Happenings) /\ Len(toolLog'[i]) > 0
                              /\ Status(i)' # "started"
                              /\ Status(i) # "started" => Status(i)' = Status(i)
<1>1. /\ Rows' = Rows
      /\ \A i \in Rows : toolLog'[i] = IF Status(i) = "started" THEN Append(toolLog[i], "interrupted")
                                                                ELSE toolLog[i]
  BY DEF OpenInterrupted, Rows
<1>2. ASSUME NEW i \in Rows
      PROVE  /\ toolLog'[i] \in Seq(Happenings) /\ Len(toolLog'[i]) > 0 /\ Status(i)' # "started"
             /\ Status(i) # "started" => Status(i)' = Status(i)
             /\ toolLog'[i][1] = toolLog[i][1]
  <2>1. toolLog[i] \in Seq(Happenings) /\ Len(toolLog[i]) > 0 /\ "interrupted" \in Happenings
    BY DEF ToolTyped, Happenings, Endings
  <2>2. /\ Append(toolLog[i], "interrupted") \in Seq(Happenings)
        /\ Len(Append(toolLog[i], "interrupted")) = Len(toolLog[i]) + 1
        /\ Append(toolLog[i], "interrupted")[Len(toolLog[i]) + 1] = "interrupted"
        /\ Append(toolLog[i], "interrupted")[1] = toolLog[i][1]
    BY <2>1
  <2>3. Status(i) = toolLog[i][Len(toolLog[i])]
    BY StatusType
  <2>4. CASE Status(i) = "started"
    <3>1. toolLog'[i] = Append(toolLog[i], "interrupted")
      BY <1>1, <2>4
    <3>2. toolLog'[i] # <<>> /\ toolLog'[i][Len(toolLog'[i])] = "interrupted"
      BY <2>1, <2>2, <3>1
    <3>3. Status(i)' = "interrupted"
      BY <1>1, <3>2 DEF Status, LogOf, Rows
    <3> QED
      BY <2>1, <2>2, <2>4, <3>1, <3>3
  <2>5. CASE Status(i) # "started"
    <3>1. toolLog'[i] = toolLog[i]
      BY <1>1, <2>5
    <3>2. Status(i)' = Status(i)
      BY <1>1, <3>1 DEF Status, LogOf, Rows
    <3> QED
      BY <2>1, <2>5, <3>1, <3>2
  <2> QED
    BY <2>4, <2>5
<1>3. Crossed' = Crossed
  BY <1>1, <1>2 DEF Crossed
<1> QED
  BY <1>1, <1>2, <1>3

\* The run ends while its queries are under way: the calls are closed for them.
LEMMA ToolRunEnds ==
    ASSUME ToolInv, RunEnds
    PROVE  ToolInv'
<1>1. /\ UNCHANGED <<ask, session, admissions, admitLock, threads, toolLife, toolDown, toolFaults>>
      /\ fence \in {"late", "cancelling"} /\ fence' = "over" /\ OpenInterrupted /\ ToolTyped
  BY DEF RunEnds, ToolInv
<1>2. /\ Rows' = Rows /\ Crossed' = Crossed
      /\ \A i \in Rows : /\ toolLog'[i] \in Seq(Happenings) /\ Len(toolLog'[i]) > 0
                         /\ Status(i)' # "started"
                         /\ Status(i) # "started" => Status(i)' = Status(i)
  BY <1>1, InterruptedLog
<1>3. \A i : Status(i) = "success" => Status(i)' = "success"
  BY <1>2, NoStatus
<1>4. ToolTyped'
  BY <1>1, <1>2 DEF ToolTyped, Fences
<1>5. \A k \in Asks : (AskPlaced(k) /\ AskStands(k))'
  BY <1>1, <1>2, <1>3 DEF ToolInv, AskPlaced, AskStands, Asked
<1>6. AskedOnce' /\ RowsAsked' /\ AdmittedAsked' /\ LockHeld' /\ InTurn'
  BY <1>1, <1>2 DEF ToolInv, AskedOnce, RowsAsked, AdmittedAsked, LockHeld, InTurn, Asked
<1>7. OpenRows' /\ OverIsClosed'
  BY <1>2 DEF OpenRows, OverIsClosed, NoCallOpen
<1>8. PaidWithinBudget' /\ EvidenceIsDurable' /\ QueryCrossesOnce'
  BY <1>1, <1>2, <1>3 DEF ToolInv, PaidWithinBudget, Paid, EvidenceIsDurable, QueryCrossesOnce
<1> QED
  BY <1>4, <1>5, <1>6, <1>7, <1>8 DEF ToolInv

\* The run is resumed: the calls of the dead process are closed and of another life.
LEMMA ToolResumes ==
    ASSUME ToolInv, RoundResumes
    PROVE  ToolInv'
<1>1. /\ OpenInterrupted /\ ask' = [k \in Asks |-> Unasked] /\ session' = [s \in Sessions |-> FreshSession]
      /\ admissions' = {} /\ admitLock' = NoAsk /\ toolLife' = toolLife + 1 /\ toolDown' = FALSE
      /\ UNCHANGED <<threads, toolFaults>> /\ fence' = "holds" /\ (toolDown \/ fence = "lost") /\ ToolTyped
  BY DEF RoundResumes, ToolInv
<1>2. /\ Rows' = Rows /\ Crossed' = Crossed
      /\ \A i \in Rows : toolLog'[i] \in Seq(Happenings) /\ Len(toolLog'[i]) > 0 /\ Status(i)' # "started"
  BY <1>1, InterruptedLog
<1>4. Unasked \in AskRec /\ FreshSession \in SessionRec /\ FreshSession.known = {} /\ FreshSession.asked = 0
  BY ToolSessionAssumption DEF Unasked, AskRec, AskSteps, FreshSession, SessionRec
<1>5. /\ ask' \in [Asks -> AskRec] /\ session' \in [Sessions -> SessionRec]
      /\ \A k \in Asks : ask'[k].step = "idle" /\ ask'[k].id = NoAsk
      /\ \A s \in Sessions : session'[s].known = {} /\ session'[s].asked = 0
  BY <1>1, <1>4 DEF Unasked
<1>6. ToolTyped'
  <2>1. toolLife' \in Nat /\ toolLife' <= toolFaults
    BY <1>1 DEF ToolTyped
  <2>2. Rows' \subseteq CallIds /\ \A i \in Rows' : toolLog'[i] \in Seq(Happenings) /\ Len(toolLog'[i]) > 0
    BY <1>1, <1>2 DEF ToolTyped
  <2>3. /\ admissions' \subseteq LogicalIds /\ admitLock' \in Asks \cup {NoAsk}
        /\ toolDown' \in BOOLEAN
    BY <1>1
  <2>4. threads' \subseteq CallIds /\ fence' \in Fences /\ toolFaults' \in 0..MaxToolFaults
    BY <1>1 DEF ToolTyped, Fences
  <2>5. toolLife' <= toolFaults' /\ (toolDown' \/ fence' = "lost" => toolLife' < toolFaults')
    BY <1>1, <2>1
  <2>6. ToolTyped' <=>
          /\ ask' \in [Asks -> AskRec] /\ session' \in [Sessions -> SessionRec]
          /\ Rows' \subseteq CallIds /\ \A i \in Rows' : toolLog'[i] \in Seq(Happenings) /\ Len(toolLog'[i]) > 0
          /\ admissions' \subseteq LogicalIds /\ admitLock' \in Asks \cup {NoAsk}
          /\ threads' \subseteq CallIds /\ fence' \in Fences /\ toolDown' \in BOOLEAN
          /\ toolLife' \in Nat /\ toolFaults' \in 0..MaxToolFaults
          /\ toolLife' <= toolFaults' /\ (toolDown' \/ fence' = "lost" => toolLife' < toolFaults')
    BY Zenon DEF ToolTyped
  <2> QED
    BY <1>5, <2>1, <2>2, <2>3, <2>4, <2>5, <2>6, Zenon
<1>7. \A k \in Asks : (AskPlaced(k) /\ AskStands(k))'
  BY <1>5 DEF AskPlaced, AskStands, Asked, OpenSteps, SettledSteps
<1>8. AskedOnce' /\ AdmittedAsked' /\ EvidenceIsDurable'
  BY <1>1, <1>5 DEF AskedOnce, AdmittedAsked, EvidenceIsDurable, Asked
<1>9. RowsAsked'
  BY <1>1, <1>2 DEF ToolInv, RowsAsked, ToolTyped, CallIds
<1>10. OpenRows' /\ OverIsClosed'
  BY <1>1, <1>2 DEF OpenRows, OverIsClosed
<1>11. LockHeld'
  BY <1>1, <1>5, NoAskIsNone DEF LockHeld
<1>12. InTurn'
  BY <1>5, AsksPlaced, ToolSessionAssumption DEF InTurn
<1>13. PaidWithinBudget'
  <2>2. Paid' \subseteq Paid
    BY <1>1, <1>2 DEF Paid
  <2>3. IsFiniteSet(Paid) /\ IsFiniteSet(Rows) /\ Cardinality(Paid) <= RunLimit
    BY ToolPaid, FS_Subset DEF ToolInv, PaidWithinBudget
  <2>4. Cardinality(Paid') <= Cardinality(Paid) /\ IsFiniteSet(Paid')
    BY <2>2, <2>3, FS_Subset
  <2>5. Cardinality(Paid') \in Nat /\ Cardinality(Paid) \in Nat
    BY <2>3, <2>4, FS_CardinalityType
  <2>6. IsFiniteSet(admissions')
    BY <1>1, FS_EmptySet
  <2> QED
    BY <1>2, <2>3, <2>4, <2>5, <2>6, ToolSessionAssumption DEF PaidWithinBudget
<1>14. QueryCrossesOnce'
  BY <1>2 DEF ToolInv, QueryCrossesOnce
<1> QED
  BY <1>6, <1>7, <1>8, <1>9, <1>10, <1>11, <1>12, <1>13, <1>14 DEF ToolInv

-----------------------------------------------------------------------------
(* The invariant *)

LEMMA ToolStarting == ASSUME ToolInit PROVE ToolInv
<1>1. Unasked \in AskRec /\ FreshSession \in SessionRec /\ FreshSession.known = {} /\ FreshSession.asked = 0
  BY ToolSessionAssumption DEF Unasked, AskRec, AskSteps, FreshSession, SessionRec
<1>2. /\ ask \in [Asks -> AskRec] /\ session \in [Sessions -> SessionRec]
      /\ \A k \in Asks : ask[k].step = "idle" /\ ask[k].id = NoAsk
      /\ \A s \in Sessions : session[s].known = {} /\ session[s].asked = 0
  BY <1>1 DEF ToolInit, Unasked
<1>3. Rows = {}
  BY DEF ToolInit, Rows
<1>4. ToolTyped
  <2>1. /\ Rows \subseteq CallIds /\ \A id \in Rows : toolLog[id] \in Seq(Happenings) /\ Len(toolLog[id]) > 0
        /\ admissions \subseteq LogicalIds /\ admitLock \in Asks \cup {NoAsk}
        /\ threads \subseteq CallIds /\ fence \in Fences /\ toolDown \in BOOLEAN
    BY <1>3 DEF ToolInit, Fences
  <2>2. /\ toolLife \in Nat /\ toolFaults \in 0..MaxToolFaults
        /\ toolLife <= toolFaults /\ (toolDown \/ fence = "lost" => toolLife < toolFaults)
    BY ToolSessionAssumption DEF ToolInit
  <2> QED
    BY <1>2, <2>1, <2>2, Zenon DEF ToolTyped
<1>5. \A k \in Asks : AskPlaced(k) /\ AskStands(k)
  BY <1>2 DEF AskPlaced, AskStands, Asked, OpenSteps, SettledSteps
<1>6. AskedOnce /\ AdmittedAsked /\ EvidenceIsDurable /\ RowsAsked /\ OpenRows /\ OverIsClosed /\ QueryCrossesOnce
  BY <1>2, <1>3 DEF ToolInit, AskedOnce, AdmittedAsked, EvidenceIsDurable, Asked, RowsAsked, OpenRows,
     OverIsClosed, NoCallOpen, QueryCrossesOnce
<1>7. LockHeld
  BY <1>2, NoAskIsNone DEF ToolInit, LockHeld
<1>8. InTurn
  BY <1>2, AsksPlaced, ToolSessionAssumption DEF InTurn
<1>9. PaidWithinBudget
  <2>1. Paid = {} /\ admissions = {}
    BY <1>3 DEF ToolInit, Paid, Crossed
  <2> QED
    BY <1>3, <2>1, FS_EmptySet, ToolSessionAssumption DEF PaidWithinBudget
<1> QED
  BY <1>4, <1>5, <1>6, <1>7, <1>8, <1>9 DEF ToolInv

LEMMA ToolStep == ASSUME ToolInv, [ToolNext]_toolVars PROVE ToolInv'
<1>1. CASE UNCHANGED toolVars
  BY <1>1 DEF toolVars, ToolInv, ToolTyped, AskPlaced, AskStands, AskedOnce, RowsAsked, OpenRows,
     AdmittedAsked, LockHeld, InTurn, PaidWithinBudget, Paid, Crossed, EvidenceIsDurable, QueryCrossesOnce,
     Asked, Status, LogOf, Rows, OverIsClosed, NoCallOpen, Holds
<1>2. ASSUME NEW k \in Asks, AskStep(k) \/ ToolTimeout(k)
      PROVE  ToolInv'
  BY <1>2, ToolAdmits, ToolStarts, ToolWaits, ToolRetries, ToolCloses DEF AskStep
<1>3. ASSUME NEW s \in Sessions, NEW n \in 1..MaxAsks, NEW q \in Queries, AskQuery(s, n, q)
      PROVE  ToolInv'
  BY <1>3, ToolAsks
<1>4. ASSUME NEW id \in threads, ThreadEnds(id)
      PROVE  ToolInv'
  BY <1>4, ToolThreadEnds
<1>5. CASE (\E s \in Sessions : CancelSession(s) \/ SessionRetries(s)) \/ RunGivenUp \/ RoundDies
  BY <1>5, ToolAround
<1>6. CASE RunEnds \/ RoundResumes
  BY <1>6, ToolRunEnds, ToolResumes
<1> QED
  BY <1>1, <1>2, <1>3, <1>4, <1>5, <1>6 DEF ToolNext

LEMMA ToolsAgree == ASSUME ToolInv PROVE ToolCallsConsistent
<1>1. ToolTypeOK
  BY DEF ToolInv, ToolTyped, ToolTypeOK, AskRec, SessionRec, Happenings, LockHeld
<1>2. NothingLeftOpen
  <2>1. fence = "over" => NoCallOpen
    BY DEF ToolInv, OverIsClosed
  <2>2. ASSUME Holds, QueriesSettled, NEW id \in Rows, Status(id) = "started"
        PROVE  FALSE
    <3>1. ask[Place(id)].step \notin SettledSteps
      BY <2>2 DEF ToolInv, OpenRows
    <3>2. Place(id) \in Asks
      BY DEF ToolInv, ToolTyped, Place, CallIds, Asks
    <3> QED
      BY <2>2, <3>1, <3>2 DEF QueriesSettled
  <2> QED
    BY <2>1, <2>2 DEF NothingLeftOpen, NoCallOpen
<1>3. CrossedWithinBudget
  <2> DEFINE started == {Logical(id) : id \in Crossed}
  <2>1. IsFiniteSet(Paid) /\ Cardinality(Paid) <= RunLimit
    BY ToolPaid, FS_Subset DEF ToolInv, PaidWithinBudget
  <2>2. started \subseteq Paid
    BY DEF Paid
  <2>3. Cardinality(started) <= Cardinality(Paid) /\ IsFiniteSet(started)
    BY <2>1, <2>2, FS_Subset
  <2>4. Cardinality(Paid) \in Nat /\ Cardinality(started) \in Nat
    BY <2>1, <2>3, FS_CardinalityType
  <2> QED
    BY <2>1, <2>3, <2>4, ToolSessionAssumption DEF CrossedWithinBudget
<1> QED
  BY <1>1, <1>2, <1>3 DEF ToolInv, ToolCallsConsistent

\* The calls of a round are asked once, stay within the budget, and are seen by an
\* Investigator only when they are durable.  While the run holds they are closed before
\* their queries settle, whatever is cancelled, times out or fails; when the deadline
\* passed, the user cancelled or the lease was lost, the sessions leave them open, and
\* the end of the run or the audit closes them (AdaptiveToolSession._invoke,
\* admit_tool, check_execution, commit_tool, commit_terminal, audit_expired_leases).
THEOREM ToolCallsHold == ToolSpec => []ToolCallsConsistent
<1>1. ToolInit => ToolInv
  BY ToolStarting
<1>2. ToolInv /\ [ToolNext]_toolVars => ToolInv'
  BY ToolStep
<1>3. ToolInv => ToolCallsConsistent
  BY ToolsAgree
<1> QED
  BY <1>1, <1>2, <1>3, PTL DEF ToolSpec


-----------------------------------------------------------------------------
(* The intake of a result *)

\* A result at any step: the runtime's own, or one that stands for it.
OutputRec == [tasks: OutputTasks, executed: BOOLEAN, coord: {"completed", "failed", "skipped"},
              first: {"completed", "failed", "missing"},
              again: {"completed", "failed"}, findings: OutputFindings, review: OutputReviews,
              status: MultiStatus, artifacts: Artifacts, origin: Origins]
StoredTasks == {"coord", "first", "again"}
RepoRec == [tasks: SUBSET (Origins \X StoredTasks), executions: SUBSET (Origins \X StoredTasks),
            findings: SUBSET (Origins \X {"f1", "f2"}), review: {"none", "v5", "earlier", "new"},
            evidence: BOOLEAN, calls: BOOLEAN]
Unread  == {"run", "artifacts", "validate", "tasks", "result", "recover"}
Intakes == Unread \cup {"reload", "summary", "done"}

IntakeTyped ==
    /\ intake \in Intakes /\ repo \in RepoRec /\ faultsLeft \in 0..IntakeFaults
    /\ multiRun \in MultiStatus \cup {"none"}
    /\ IF intake = "run" THEN output = NoOutput /\ received = NoOutput
                         ELSE output \in OutputRec /\ received \in Outputs

\* The result at hand is the runtime's, or a failed one that is empty.
AtHand == output = received \/ output.origin # "runtime"
Stands(o) == o.origin # "runtime" => o.review = "none" /\ o.findings = {} /\ o.tasks \subseteq {"coord"}
\* From its validation on, the runtime's result keeps the contract.
Kept == output.origin = "runtime" => output = received /\ Verdict(received) = "valid"

\* Until the result is written, the store has what it had, and perhaps its tasks.
NothingWritten ==
    repo.review # "new" /\ \A x \in repo.executions \cup repo.findings : x[1] = "earlier"
TasksAreKept ==
    received = NoOutput \/ Verdict(received) # "valid" => \A x \in repo.tasks : x[1] # "runtime"

\* Once it is, the store has the result at hand and nothing else.
ResultWritten ==
    /\ repo.findings = {<<output.origin, f>> : f \in output.findings}
    /\ IF output.origin = "persistence" THEN repo.executions = {<<"persistence", "coord">>}
       ELSE repo.executions = {StoredTask(output, t) : t \in output.tasks}
    /\ IF output.review = "none" THEN repo.review \in {"none", "v5"} ELSE repo.review = "new"

\* What is returned is the result at hand, under the status of its Coordinator
\* when it has no review.
IsReturned ==
    /\ returned.origin = output.origin /\ returned.findings = output.findings
    /\ returned.tasks = output.tasks /\ returned.review = output.review
    /\ returned.status = IF output.review = "none" THEN output.coord ELSE output.status
    /\ output.review = "none" => output.coord # "completed"

IntakeInv ==
    /\ IntakeTyped /\ TasksAreKept
    /\ intake # "run" => Stands(output) /\ AtHand
    /\ intake \in {"artifacts", "validate", "tasks", "result", "recover"} => output.origin # "persistence"
    /\ intake \in Unread => NothingWritten
    /\ intake \in {"tasks", "result", "reload"} => Kept
    /\ intake = "reload" => ResultWritten
    /\ intake \in {"summary", "done"} => NothingWritten \/ (ResultWritten /\ Kept)
    /\ returned # NoOutput => intake \in {"summary", "done"} /\ ResultWritten /\ Kept /\ IsReturned
    /\ intake # "done" => multiRun = "none"
    /\ intake = "done" => \/ returned # NoOutput /\ multiRun = returned.status
                          \/ returned = NoOutput /\ multiRun \in {"none", "skipped"}

-----------------------------------------------------------------------------
(* What the checks of a result say *)

LEMMA OutputFacts ==
    /\ \A o \in Outputs : o \in OutputRec /\ o.origin = "runtime"
    /\ \A o \in OutputRec : o # NoOutput /\ o.origin \in Origins
    /\ NoOutput \notin Outputs
<1>1. \A o \in Outputs : o \in OutputRec /\ o.origin = "runtime"
  BY DEF Outputs, AnyOutput, OutputRec, Origins
<1>2. ASSUME NEW o \in OutputRec
      PROVE  o # NoOutput /\ o.origin \in Origins
  <2>1. o.origin \in Origins
    BY DEF OutputRec
  <2>2. NoOutput.origin \notin Origins
    BY DEF NoOutput, Origins
  <2> QED
    BY <2>1, <2>2
<1> QED
  BY <1>1, <1>2

\* The record that stands for a result is a failed one, without findings or review.
LEMMA FallbackFacts ==
    ASSUME NEW o \in OutputRec, NEW origin \in Origins \ {"runtime"}
    PROVE  /\ Fallback(o, origin) \in OutputRec /\ Stands(Fallback(o, origin))
           /\ Fallback(o, origin).origin = origin
           /\ [Fallback(o, origin) EXCEPT !.artifacts = "none"] \in OutputRec
           /\ Stands([Fallback(o, origin) EXCEPT !.artifacts = "none"])
           /\ [Fallback(o, origin) EXCEPT !.artifacts = "none"].origin = origin
           /\ [Fallback(o, origin) EXCEPT !.tasks = {}] \in OutputRec
           /\ Stands([Fallback(o, origin) EXCEPT !.tasks = {}])
           /\ [Fallback(o, origin) EXCEPT !.tasks = {}].origin = origin
<1>1. /\ {"coord"} \in OutputTasks /\ {} \in OutputTasks /\ {} \in OutputFindings
      /\ "none" \in OutputReviews /\ "failed" \in MultiStatus /\ "none" \in Artifacts
  BY DEF OutputTasks, OutputFindings, OutputReviews, MultiStatus, Artifacts
<1> DEFINE r == Fallback(o, origin)
<1>2. /\ r \in OutputRec /\ r.origin = origin /\ r.review = "none" /\ r.findings = {} /\ r.tasks = {"coord"}
  BY <1>1 DEF Fallback, OutputRec
<1> HIDE DEF r
<1>3. /\ [r EXCEPT !.artifacts = "none"] \in OutputRec /\ [r EXCEPT !.artifacts = "none"].origin = origin
      /\ Stands([r EXCEPT !.artifacts = "none"])
  BY <1>1, <1>2 DEF OutputRec, Stands
<1>4. /\ [r EXCEPT !.tasks = {}] \in OutputRec /\ [r EXCEPT !.tasks = {}].origin = origin
      /\ Stands([r EXCEPT !.tasks = {}])
  BY <1>1, <1>2 DEF OutputRec, Stands
<1> QED
  BY <1>2, <1>3, <1>4 DEF Stands, r

\* A result that keeps the contract: its tasks and findings are its own, and its
\* status is backed by them.
LEMMA ValidFacts ==
    ASSUME NEW o \in OutputRec, Verdict(o) = "valid"
    PROVE  /\ o.tasks \subseteq StoredTasks /\ o.findings \subseteq {"f1", "f2"}
           /\ o.review # "none" => o.status \in {"completed", "partial"} /\ o.findings # {}
<1>1. o.tasks \in OutputTasks /\ o.findings \in OutputFindings /\ o.status \in MultiStatus
  BY DEF OutputRec
<1>2. /\ "plan" \notin o.tasks /\ "stray" \notin o.findings
      /\ ReviewVerdict(o) = "valid" /\ ValidRun(o)
  BY DEF Verdict, ReviewVerdict
<1>3. o.review # "none" => o.status \in {"completed", "partial"}
  BY <1>2 DEF ReviewVerdict
<1>4. o.status \in {"completed", "partial"} => o.findings # {}
  BY <1>2 DEF ValidRun
<1>5. o.tasks \subseteq StoredTasks
  BY <1>1, <1>2 DEF OutputTasks, StoredTasks
<1>6. o.findings \subseteq {"f1", "f2"}
  <2>1. o.findings \in SUBSET {"f1", "f2"} \/ o.findings = {"f1", "stray"}
    BY <1>1 DEF OutputFindings
  <2>2. o.findings # {"f1", "stray"}
    BY <1>2
  <2> QED
    BY <2>1, <2>2
<1> QED
  BY <1>3, <1>4, <1>5, <1>6

LEMMA CheckedFacts ==
    ASSUME NEW o \in OutputRec, Stands(o)
    PROVE  /\ Checked(o) \in OutputRec /\ Stands(Checked(o))
           /\ Checked(o).origin = "runtime" => Checked(o) = o /\ Verdict(o) = "valid"
           /\ Checked(o).origin \in {o.origin, "failure", "validation"}
<1>1. CASE Verdict(o) = "valid"
  BY <1>1 DEF Checked
<1>2. CASE Verdict(o) # "valid"
  <2>1. PICK origin \in {"failure", "validation"} : Checked(o) = Fallback(o, origin)
    BY <1>2 DEF Checked
  <2>2. origin \in Origins \ {"runtime"}
    BY <2>1 DEF Origins
  <2>3. /\ Fallback(o, origin) \in OutputRec /\ Stands(Fallback(o, origin))
        /\ Fallback(o, origin).origin = origin
    BY <2>2, FallbackFacts, Zenon
  <2> QED
    BY <2>1, <2>2, <2>3
<1> QED
  BY <1>1, <1>2

\* What is kept of a result has its place in the repository.
LEMMA KeptFacts ==
    ASSUME IntakeInv, intake # "run", Kept
    PROVE  /\ output.tasks \subseteq StoredTasks /\ output.findings \subseteq {"f1", "f2"}
           /\ output.review # "none" => output.status \in {"completed", "partial"} /\ output.findings # {}
           /\ output.review = "none" \/ output.origin = "runtime"
<1>1. output \in OutputRec /\ Stands(output)
  BY DEF IntakeInv, IntakeTyped
<1>2. CASE output.origin = "runtime"
  BY <1>1, <1>2, ValidFacts DEF Kept
<1>3. CASE output.origin # "runtime"
  BY <1>1, <1>3 DEF Stands, StoredTasks
<1> QED
  BY <1>2, <1>3

\* The repository after the result at hand has replaced what it had.
LEMMA ReplacedFacts ==
    ASSUME NEW r \in RepoRec, r.review # "new", NEW o \in OutputRec,
           o.tasks \subseteq StoredTasks, o.findings \subseteq {"f1", "f2"}
    PROVE  /\ Replaced(r, o) \in RepoRec
           /\ Replaced(r, o).tasks = r.tasks
           /\ Replaced(r, o).findings = {<<o.origin, f>> : f \in o.findings}
           /\ Replaced(r, o).executions = {StoredTask(o, t) : t \in o.tasks}
           /\ IF o.review = "none" THEN Replaced(r, o).review \in {"none", "v5"}
                                   ELSE Replaced(r, o).review = "new"
<1>1. /\ {<<o.origin, f>> : f \in o.findings} \in SUBSET (Origins \X {"f1", "f2"})
      /\ {StoredTask(o, t) : t \in o.tasks} \in SUBSET (Origins \X StoredTasks)
  BY OutputFacts DEF StoredTask
<1> DEFINE review == IF o.review # "none" THEN "new" ELSE IF r.review = "earlier" THEN "none" ELSE r.review
<1>2. /\ review \in {"none", "v5", "earlier", "new"}
      /\ IF o.review = "none" THEN review \in {"none", "v5"} ELSE review = "new"
  BY DEF RepoRec
<1>3. Replaced(r, o) = [r EXCEPT !.findings = {<<o.origin, f>> : f \in o.findings},
                                 !.executions = {StoredTask(o, t) : t \in o.tasks},
                                 !.review = review]
  BY DEF Replaced, RepoRec
<1> HIDE DEF review
<1>4. /\ Replaced(r, o).tasks = r.tasks
      /\ Replaced(r, o).findings = {<<o.origin, f>> : f \in o.findings}
      /\ Replaced(r, o).executions = {StoredTask(o, t) : t \in o.tasks}
      /\ Replaced(r, o).review = review
  BY <1>3 DEF RepoRec
<1>5. Replaced(r, o) \in RepoRec
  BY <1>1, <1>2, <1>3 DEF RepoRec
<1> QED
  BY <1>2, <1>4, <1>5

-----------------------------------------------------------------------------
(* The steps of the intake *)

LEMMA IntakeStarts == ASSUME IntakeInit PROVE IntakeInv
<1>1. IntakeTyped
  BY IntakeAssumption DEF IntakeInit, IntakeTyped, RepoRec, Intakes, Unread, Origins, StoredTasks
<1> QED
  BY <1>1 DEF IntakeInit, IntakeInv, TasksAreKept, NothingWritten, Unread

\* The runtime answers.
LEMMA IntakeReceives == ASSUME IntakeInv, RuntimeAnswers PROVE IntakeInv'
<1>1. PICK o \in Outputs : /\ received' = o
                           /\ output' \in {o, [Fallback(o, "failure") EXCEPT !.artifacts = "none"]}
  BY DEF RuntimeAnswers
<1>2. /\ intake = "run" /\ intake' = "artifacts" /\ UNCHANGED <<repo, returned, multiRun, faultsLeft>>
  BY DEF RuntimeAnswers, Step
<1>3. /\ output' \in OutputRec /\ Stands(output') /\ (output' = o \/ output'.origin # "runtime")
      /\ output'.origin # "persistence"
  <2>1. o \in OutputRec /\ o.origin = "runtime" /\ "failure" \in Origins \ {"runtime"}
    BY OutputFacts DEF Origins
  <2>2. CASE output' = o
    BY <2>1, <2>2 DEF Stands
  <2>3. CASE output' = [Fallback(o, "failure") EXCEPT !.artifacts = "none"]
    BY <2>1, <2>3, FallbackFacts
  <2> QED
    BY <1>1, <2>2, <2>3
<1>4. IntakeTyped'
  BY <1>1, <1>2, <1>3 DEF IntakeInv, IntakeTyped, Intakes, Unread
<1>5. TasksAreKept' /\ NothingWritten' /\ returned' = NoOutput /\ multiRun' = "none"
  BY <1>2 DEF IntakeInv, IntakeTyped, TasksAreKept, NothingWritten, Unread
<1> QED
  BY <1>1, <1>2, <1>3, <1>4, <1>5 DEF IntakeInv, AtHand

\* The artifacts are written, or the write is refused after part of them.
LEMMA IntakeArtifacts == ASSUME IntakeInv, PersistArtifacts \/ ArtifactsRefused PROVE IntakeInv'
<1>1. /\ intake = "artifacts" /\ intake' \in {"validate", "recover"}
      /\ UNCHANGED <<output, received, returned, multiRun>>
  BY DEF PersistArtifacts, ArtifactsRefused, Step
<1>2. /\ repo \in RepoRec /\ faultsLeft \in 0..IntakeFaults
  BY DEF IntakeInv, IntakeTyped
<1>3. PICK e \in BOOLEAN, c \in BOOLEAN : repo' = [repo EXCEPT !.evidence = e, !.calls = c]
  <2>1. repo = [repo EXCEPT !.evidence = repo.evidence, !.calls = repo.calls]
    BY <1>2 DEF RepoRec
  <2>2. /\ repo.evidence \in BOOLEAN /\ repo.calls \in BOOLEAN
        /\ (repo.evidence \/ output.artifacts = "new") \in BOOLEAN
        /\ (repo.calls \/ output.artifacts = "new") \in BOOLEAN
    BY <1>2 DEF RepoRec
  <2>3. CASE PersistArtifacts
    <3>1. repo' = [repo EXCEPT !.evidence = @ \/ output.artifacts = "new",
                               !.calls = @ \/ output.artifacts = "new"]
      BY <2>3 DEF PersistArtifacts
    <3> QED
      BY <2>2, <3>1
  <2>4. CASE ArtifactsRefused
    <3>1. repo' = repo \/ repo' = [repo EXCEPT !.evidence = @ \/ output.artifacts = "new"]
      BY <2>4 DEF ArtifactsRefused
    <3>2. [repo EXCEPT !.evidence = @ \/ output.artifacts = "new"]
             = [repo EXCEPT !.evidence = repo.evidence \/ output.artifacts = "new", !.calls = repo.calls]
      BY <1>2 DEF RepoRec
    <3> QED
      BY <2>1, <2>2, <3>1, <3>2
  <2> QED
    BY <2>3, <2>4
<1>4. repo' \in RepoRec /\ repo'.review = repo.review /\ repo'.tasks = repo.tasks
      /\ repo'.executions = repo.executions /\ repo'.findings = repo.findings
  BY <1>2, <1>3 DEF RepoRec
<1>5. faultsLeft' \in 0..IntakeFaults
  BY <1>2, IntakeAssumption DEF PersistArtifacts, ArtifactsRefused, Raises7
<1>6. IntakeTyped'
  BY <1>1, <1>4, <1>5 DEF IntakeInv, IntakeTyped, Intakes, Unread
<1>7. TasksAreKept' /\ NothingWritten'
  BY <1>1, <1>4 DEF IntakeInv, TasksAreKept, NothingWritten, Unread
<1> QED
  BY <1>1, <1>6, <1>7 DEF IntakeInv, Stands, AtHand, Unread

LEMMA IntakeValidates == ASSUME IntakeInv, ValidateResult PROVE IntakeInv'
<1>1. /\ intake = "validate" /\ intake' = "tasks" /\ output' = Checked(output)
      /\ UNCHANGED <<received, repo, returned, multiRun, faultsLeft>>
  BY DEF ValidateResult, Step
<1>2. output \in OutputRec /\ Stands(output) /\ AtHand /\ output.origin # "persistence"
  BY <1>1 DEF IntakeInv, IntakeTyped
<1>3. /\ output' \in OutputRec /\ Stands(output')
      /\ output'.origin = "runtime" => output' = output /\ Verdict(output) = "valid"
      /\ output'.origin # "persistence"
  BY <1>1, <1>2, CheckedFacts
<1>4. Kept' /\ AtHand'
  BY <1>1, <1>2, <1>3 DEF Kept, AtHand
<1>5. IntakeTyped' /\ TasksAreKept' /\ NothingWritten'
  BY <1>1, <1>3 DEF IntakeInv, IntakeTyped, Intakes, Unread, TasksAreKept, NothingWritten
<1> QED
  BY <1>1, <1>3, <1>4, <1>5 DEF IntakeInv

LEMMA IntakeTasks == ASSUME IntakeInv, PersistTasks PROVE IntakeInv'
<1>1. /\ intake = "tasks" /\ intake' = "result"
      /\ repo' = [repo EXCEPT !.tasks = @ \cup {StoredTask(output, t) : t \in output.tasks}]
      /\ UNCHANGED <<output, received, returned, multiRun, faultsLeft>>
  BY DEF PersistTasks, Step
<1>2. /\ repo \in RepoRec /\ output \in OutputRec /\ output.origin \in Origins /\ Kept
      /\ output.tasks \subseteq StoredTasks
  BY <1>1, KeptFacts, OutputFacts DEF IntakeInv, IntakeTyped
<1>3. {StoredTask(output, t) : t \in output.tasks} \in SUBSET (Origins \X StoredTasks)
  BY <1>2 DEF StoredTask
<1>4. /\ repo' \in RepoRec /\ repo'.review = repo.review
      /\ repo'.executions = repo.executions /\ repo'.findings = repo.findings
      /\ repo'.tasks = repo.tasks \cup {StoredTask(output, t) : t \in output.tasks}
  BY <1>1, <1>2, <1>3 DEF RepoRec
<1>5. TasksAreKept'
  <2>1. \A x \in {StoredTask(output, t) : t \in output.tasks} : x[1] = output.origin
    BY DEF StoredTask
  <2> QED
    BY <1>1, <1>2, <1>4, <2>1, OutputFacts DEF IntakeInv, IntakeTyped, TasksAreKept, Kept
<1>6. IntakeTyped' /\ NothingWritten'
  BY <1>1, <1>4 DEF IntakeInv, IntakeTyped, Intakes, Unread, NothingWritten
<1> QED
  BY <1>1, <1>5, <1>6 DEF IntakeInv, Stands, AtHand, Kept, Unread

LEMMA IntakeStores == ASSUME IntakeInv, PersistResult PROVE IntakeInv'
<1>1. /\ intake = "result" /\ intake' = "reload" /\ repo' = Replaced(repo, output)
      /\ UNCHANGED <<output, received, returned, multiRun, faultsLeft>>
  BY DEF PersistResult, Step
<1>2. /\ repo \in RepoRec /\ repo.review # "new" /\ output \in OutputRec /\ Kept
      /\ output.tasks \subseteq StoredTasks /\ output.findings \subseteq {"f1", "f2"}
      /\ output.origin # "persistence" /\ Stands(output) /\ AtHand
      /\ returned = NoOutput /\ multiRun = "none"
  BY <1>1, KeptFacts DEF IntakeInv, IntakeTyped, Unread, NothingWritten
<1>3. /\ repo' \in RepoRec /\ repo'.tasks = repo.tasks
      /\ repo'.findings = {<<output.origin, f>> : f \in output.findings}
      /\ repo'.executions = {StoredTask(output, t) : t \in output.tasks}
      /\ IF output.review = "none" THEN repo'.review \in {"none", "v5"} ELSE repo'.review = "new"
  BY <1>1, <1>2, ReplacedFacts
<1>4. ResultWritten'
  BY <1>1, <1>2, <1>3 DEF ResultWritten, StoredTask
<1>5. IntakeTyped' /\ TasksAreKept'
  BY <1>1, <1>3 DEF IntakeInv, IntakeTyped, Intakes, Unread, TasksAreKept
<1> QED
  BY <1>1, <1>2, <1>4, <1>5 DEF IntakeInv, Stands, AtHand, Kept, Unread

\* A write raises: nothing is written, or only the tasks.
LEMMA IntakeRaises == ASSUME IntakeInv, PersistRaises PROVE IntakeInv'
<1>1. /\ intake \in {"tasks", "result"} /\ intake' = "recover" /\ Raises7
      /\ UNCHANGED <<output, received, repo, returned, multiRun>>
  BY DEF PersistRaises
<1>2. faultsLeft' \in 0..IntakeFaults
  BY <1>1, IntakeAssumption DEF IntakeInv, IntakeTyped, Raises7
<1>3. IntakeTyped' /\ TasksAreKept' /\ NothingWritten'
  BY <1>1, <1>2 DEF IntakeInv, IntakeTyped, Intakes, Unread, TasksAreKept, NothingWritten
<1> QED
  BY <1>1, <1>3 DEF IntakeInv, Stands, AtHand, Unread

\* The failure is recorded in place of the result, or not even that.
LEMMA IntakeRecovers == ASSUME IntakeInv, RecordPersistenceFailure PROVE IntakeInv'
<1>1. /\ intake = "recover" /\ UNCHANGED <<received, multiRun>>
      /\ repo \in RepoRec /\ output \in OutputRec /\ NothingWritten
      /\ returned = NoOutput /\ multiRun = "none" /\ faultsLeft \in 0..IntakeFaults
      /\ TasksAreKept
  BY DEF RecordPersistenceFailure, Step, IntakeInv, IntakeTyped, Unread
<1>2. CASE intake' = "reload"
  <2> DEFINE o == Recovery(output)
  <2>1. /\ output' = o /\ repo' = [Replaced(repo, o) EXCEPT !.executions = {<<"persistence", "coord">>}]
        /\ UNCHANGED <<returned, faultsLeft>>
    BY <1>2 DEF RecordPersistenceFailure
  <2>2. o \in OutputRec /\ Stands(o) /\ o.origin = "persistence"
    BY <1>1, FallbackFacts DEF Recovery, Origins
  <2>3. o.review = "none" /\ o.findings = {} /\ o.tasks \subseteq StoredTasks
    BY <2>2 DEF Stands, StoredTasks
  <2> HIDE DEF o
  <2>4. /\ Replaced(repo, o) \in RepoRec /\ Replaced(repo, o).tasks = repo.tasks
        /\ Replaced(repo, o).findings = {<<o.origin, f>> : f \in o.findings}
        /\ Replaced(repo, o).review \in {"none", "v5"}
    BY <1>1, <2>2, <2>3, ReplacedFacts DEF NothingWritten
  <2>5. /\ repo' \in RepoRec /\ repo'.tasks = repo.tasks
        /\ repo'.findings = {<<o.origin, f>> : f \in o.findings}
        /\ repo'.review \in {"none", "v5"} /\ repo'.executions = {<<"persistence", "coord">>}
    BY <2>1, <2>4 DEF RepoRec, Origins, StoredTasks
  <2>6. ResultWritten' /\ Kept' /\ Stands(output') /\ AtHand'
    BY <2>1, <2>2, <2>3, <2>5 DEF ResultWritten, Kept, AtHand
  <2>7. IntakeTyped' /\ TasksAreKept'
    BY <1>1, <1>2, <2>1, <2>2, <2>5 DEF IntakeInv, IntakeTyped, Intakes, Unread, TasksAreKept
  <2> QED
    BY <1>1, <1>2, <2>1, <2>6, <2>7 DEF IntakeInv, Unread
<1>3. CASE intake' # "reload"
  <2>1. /\ intake' = "summary" /\ Raises7 /\ returned' = NoOutput /\ UNCHANGED <<output, repo>>
    BY <1>3 DEF RecordPersistenceFailure
  <2>2. faultsLeft' \in 0..IntakeFaults
    BY <1>1, <2>1, IntakeAssumption DEF Raises7
  <2>3. IntakeTyped' /\ TasksAreKept' /\ NothingWritten'
    BY <1>1, <2>1, <2>2 DEF IntakeInv, IntakeTyped, Intakes, Unread, TasksAreKept, NothingWritten
  <2> QED
    BY <1>1, <2>1, <2>3 DEF IntakeInv, Stands, AtHand, Unread
<1> QED
  BY <1>2, <1>3

\* What is read back is what was written, or there is no result.
LEMMA IntakeReloads == ASSUME IntakeInv, ReloadResult PROVE IntakeInv'
<1>1. /\ intake = "reload" /\ intake' = "summary" /\ UNCHANGED <<output, received, repo, multiRun>>
      /\ faultsLeft' = faultsLeft \/ Raises7
  BY DEF ReloadResult, Step
<1>2. faultsLeft' \in 0..IntakeFaults
  BY <1>1, IntakeAssumption DEF IntakeInv, IntakeTyped, Raises7
<1>3. IntakeTyped' /\ TasksAreKept' /\ ResultWritten' /\ Kept'
  BY <1>1, <1>2 DEF IntakeInv, IntakeTyped, Intakes, Unread, TasksAreKept, ResultWritten, Kept
<1>4. returned' # NoOutput => IsReturned'
  <2>1. SUFFICES ASSUME returned' # NoOutput PROVE IsReturned'
    OBVIOUS
  <2>2. /\ Agrees(repo, output)
        /\ returned' = IF output.review = "none" THEN [output EXCEPT !.status = output.coord] ELSE output
    BY <2>1 DEF ReloadResult
  <2>3. output \in OutputRec
    BY <1>1 DEF IntakeInv, IntakeTyped
  <2>4. output.review = "none" => output.coord # "completed"
    BY <2>2 DEF Agrees
  <2> QED
    BY <1>1, <2>2, <2>3, <2>4 DEF IsReturned, OutputRec
<1> QED
  BY <1>1, <1>3, <1>4 DEF IntakeInv, Stands, AtHand, Unread

LEMMA IntakeSummarises == ASSUME IntakeInv, ResolveSummary PROVE IntakeInv'
<1>1. /\ intake = "summary" /\ intake' = "done"
      /\ UNCHANGED <<output, received, repo, returned, faultsLeft>>
      /\ \E adaptive \in BOOLEAN : multiRun' = Summary(returned, adaptive)
  BY DEF ResolveSummary, Step
<1>2. \/ returned # NoOutput /\ multiRun' = returned.status
      \/ returned = NoOutput /\ multiRun' \in {"none", "skipped"}
  BY <1>1 DEF Summary
<1>3. multiRun' \in MultiStatus \cup {"none"}
  <2>1. CASE returned # NoOutput
    <3>1. output \in OutputRec /\ IsReturned
      BY <1>1, <2>1 DEF IntakeInv, IntakeTyped
    <3> QED
      BY <1>2, <2>1, <3>1 DEF IsReturned, OutputRec, MultiStatus
  <2> QED
    BY <1>2, <2>1 DEF MultiStatus
<1>4. IntakeTyped' /\ TasksAreKept' /\ (ResultWritten <=> ResultWritten') /\ (Kept <=> Kept')
      /\ (NothingWritten <=> NothingWritten')
  BY <1>1, <1>3
     DEF IntakeInv, IntakeTyped, Intakes, Unread, TasksAreKept, ResultWritten, Kept, NothingWritten
<1>5. IsReturned <=> IsReturned'
  BY <1>1 DEF IsReturned
<1> QED
  BY <1>1, <1>2, <1>4, <1>5 DEF IntakeInv, Stands, AtHand, Unread

-----------------------------------------------------------------------------
(* The theorem *)

LEMMA IntakeStep == ASSUME IntakeInv, [IntakeNext]_intakeVars PROVE IntakeInv'
<1>1. CASE UNCHANGED intakeVars
  BY <1>1 DEF intakeVars, IntakeInv, IntakeTyped, TasksAreKept, Stands, AtHand, NothingWritten, Kept,
     ResultWritten, IsReturned
<1> QED
  BY <1>1, IntakeReceives, IntakeArtifacts, IntakeValidates, IntakeTasks, IntakeStores, IntakeRaises,
     IntakeRecovers, IntakeReloads, IntakeSummarises DEF IntakeNext

LEMMA IntakePromise == ASSUME IntakeInv PROVE IntakeConsistent
<1>1. IntakeTypeOK
  BY DEF IntakeInv, IntakeTyped, IntakeTypeOK, RepoRec, Intakes, Unread, StoredTasks
<1>2. ReturnedIsStored
  BY DEF IntakeInv, ReturnedIsStored, ResultWritten, IsReturned, StoredTask
<1>3. RejectedLeavesNoTrace
  <2>1. SUFFICES ASSUME received # NoOutput, Verdict(received) # "valid"
                 PROVE  /\ repo.review # "new"
                        /\ \A x \in repo.executions \cup repo.tasks : x[1] # "runtime"
                        /\ \A f \in repo.findings : f[1] = "earlier"
    BY DEF RejectedLeavesNoTrace
  <2>2. intake # "run" /\ \A x \in repo.tasks : x[1] # "runtime"
    BY <2>1 DEF IntakeInv, IntakeTyped, TasksAreKept
  <2>3. CASE NothingWritten
    BY <2>2, <2>3 DEF NothingWritten
  <2>4. CASE ResultWritten /\ Kept
    <3>1. output.origin # "runtime" /\ output.review = "none" /\ output.findings = {}
      BY <2>1, <2>2, <2>4 DEF IntakeInv, Kept, Stands
    <3> QED
      BY <2>2, <2>4, <3>1 DEF ResultWritten, StoredTask
  <2> QED
    BY <2>2, <2>3, <2>4 DEF IntakeInv, IntakeTyped, Intakes
<1>4. SummaryIsBacked
  <2>1. SUFFICES ASSUME multiRun \in {"completed", "partial"}
                 PROVE  repo.review = "new" /\ repo.findings # {}
    BY DEF SummaryIsBacked
  <2>2. /\ intake = "done" /\ returned # NoOutput /\ multiRun = returned.status
        /\ ResultWritten /\ Kept /\ IsReturned /\ output \in OutputRec
    BY <2>1 DEF IntakeInv, IntakeTyped
  <2>3. output.review # "none" /\ output.findings # {}
    <3>1. output.review # "none"
      BY <2>1, <2>2 DEF IsReturned, OutputRec
    <3> QED
      BY <2>2, <3>1, KeptFacts
  <2> QED
    BY <2>2, <2>3 DEF ResultWritten
<1> QED
  BY <1>1, <1>2, <1>3, <1>4 DEF IntakeConsistent

\* Whatever the agents runtime returns and whichever repository call raises, what
\* the phase goes on with is stored, of a rejected result nothing is, and a summary
\* that says the agents did their part has their review behind it
\* (_record_v7_coordination_async, _validate_v7_result, _reload_v7_result).
THEOREM IntakeIsSound == IntakeSpec => []IntakeConsistent
<1>1. IntakeInit => IntakeInv
  BY IntakeStarts
<1>2. IntakeInv /\ [IntakeNext]_intakeVars => IntakeInv'
  BY IntakeStep
<1>3. IntakeInv => IntakeConsistent
  BY IntakePromise
<1> QED
  BY <1>1, <1>2, <1>3, PTL DEF IntakeSpec

-----------------------------------------------------------------------------
(* The execution of a plan *)

Writing == {"tasks", "execution", "fact"}

\* The tasks of a cycle are being skipped.
Cyclic == ~progress /\ engine \in {"cycle"} \cup Writing

\* A task that will never have its dependencies: one of them has ended without
\* success, is missing, or belongs to the cycle.
NotReady(t) ==
    \E d \in dependsOn[t] : \/ StatusOf(d) \in {"missing", "failed", "skipped"}
                            \/ Cyclic /\ StatusOf(d) = "pending"
Settles(t, ran) == IF ran THEN DependenciesCompleted(t) ELSE NotReady(t)

Recorded(t) ==
    /\ Len(execSaved[t]) = 1 /\ execSaved[t][1].status = taskStatus[t]
    /\ planSaved[t] = taskStatus[t]
Unrecorded(t) == execSaved[t] = <<>> /\ t \notin factSaved

EngineTyped ==
    /\ EngineTypeOK /\ \A t \in PlanTasks : Unrecorded(t) \/ Recorded(t)

\* Where the engine stands: the pass looks at pending tasks only, and the task
\* whose end is being written is the only one without its record.
EngineStands ==
    /\ visiting \subseteq Pending4
    /\ task # NoTask <=> engine \in Writing
    /\ \A t \in PlanTasks : t # task /\ taskStatus[t] # "pending" => Recorded(t)
    /\ engine \in Writing => taskStatus[task] # "pending"
    /\ engine \in {"tasks", "execution"} => Unrecorded(task)
    /\ engine = "execution" => planSaved = taskStatus
    /\ engine = "fact" => Recorded(task)
    /\ engine = "start" => Pending4 = PlanTasks
    /\ engine = "cycle" => ~progress
    /\ engine \in {"finish", "done"} => Pending4 = {}

\* Who ran had its dependencies, who was skipped never gets them; the tasks a pass
\* without progress leaves wait for each other.
EngineDecides ==
    /\ \A t \in PlanTasks : Recorded(t) => Settles(t, execSaved[t][1].ran)
    /\ engine \in {"tasks", "execution"} => Settles(task, results4.ran)
    /\ engine = "scan" /\ ~progress =>
          \A t \in Pending4 \ visiting : \E d \in dependsOn[t] : StatusOf(d) = "pending"
    /\ Cyclic => visiting = Pending4 /\ \A t \in Pending4 : NotReady(t)

EngineInv == EngineTyped /\ (engine # "broken" => EngineStands /\ EngineDecides)

-----------------------------------------------------------------------------
(* The decisions of a pass *)

LEMMA LeastNat ==
    ASSUME NEW T, T \subseteq Nat, T # {}
    PROVE  \E x \in T : \A y \in T : x <= y
<1> DEFINE R == OpToRel(<, Nat)
<1>1. IsWellFoundedOn(R, Nat)
  BY NatLessThanWellFounded
<1>2. \A x, y \in Nat : y < x => <<y, x>> \in R
  BY DEF OpToRel
<1> HIDE DEF R
<1>3. PICK x \in T : \A y \in T : ~ (<<y, x>> \in R)
  BY <1>1, WFMin, Zenon
<1>4. ASSUME NEW y \in T PROVE x <= y
  <2>1. x \in Nat /\ y \in Nat
    BY <1>3
  <2>2. ~(y < x)
    BY <1>2, <1>3, <2>1, Zenon
  <2> QED
    BY <2>1, <2>2
<1> QED
  BY <1>4

LEMMA FirstIsVisited == ASSUME EngineTypeOK, visiting # {} PROVE First4 \in visiting
<1>1. visiting \subseteq Nat
  BY EngineAssumption DEF EngineTypeOK, PlanTasks
<1>2. \E t \in visiting : \A u \in visiting : t <= u
  BY <1>1, LeastNat
<1> QED
  BY <1>2 DEF First4

\* A task has one record or none, and a recorded task has ended.
LEMMA RecordFacts ==
    ASSUME EngineTypeOK, NEW t \in PlanTasks
    PROVE  /\ execSaved[t] = <<>> <=> Len(execSaved[t]) = 0
           /\ Unrecorded(t) => ~Recorded(t)
           /\ Recorded(t) => taskStatus[t] # "pending" /\ execSaved[t][1].ran \in BOOLEAN
<1>1. execSaved[t] \in Seq([status: Ended4, ran: BOOLEAN])
  BY DEF EngineTypeOK
<1>2. execSaved[t] = <<>> <=> Len(execSaved[t]) = 0
  <2>1. execSaved[t] # <<>> => Len(execSaved[t]) \in Nat \ {0}
    BY <1>1, EmptySeq
  <2>2. execSaved[t] = <<>> => Len(execSaved[t]) = 0
    BY EmptySeq
  <2> QED
    BY <2>1, <2>2
<1>3. ASSUME Recorded(t) PROVE execSaved[t][1] \in [status: Ended4, ran: BOOLEAN]
  <2>1. 1 \in 1..Len(execSaved[t])
    BY <1>3 DEF Recorded
  <2> QED
    BY <1>1, <2>1, ElementOfSeq
<1> QED
  BY <1>2, <1>3 DEF Unrecorded, Recorded, Ended4

LEMMA StatusFacts ==
    ASSUME NEW d
    PROVE  /\ StatusOf(d) = "pending" <=> d \in Pending4
           /\ d \in PlanTasks => StatusOf(d) = taskStatus[d]
  BY DEF StatusOf, Pending4

\* What was decided stays decided while no status changes.
LEMMA DecisionKept ==
    ASSUME UNCHANGED <<dependsOn, taskStatus>>, Cyclic => Cyclic' \/ Pending4 = {}, NEW t, NEW ran \in BOOLEAN
    PROVE  /\ Settles(t, ran) => Settles(t, ran)'
           /\ NotReady(t) => NotReady(t)'
           /\ \A d : StatusOf(d)' = StatusOf(d)
           /\ Pending4' = Pending4
<1>1. \A d : StatusOf(d)' = StatusOf(d)
  BY DEF StatusOf
<1>2. Pending4' = Pending4
  BY DEF Pending4
<1>3. NotReady(t) => NotReady(t)'
  <2>1. SUFFICES ASSUME NEW d \in dependsOn[t],
                        \/ StatusOf(d) \in {"missing", "failed", "skipped"}
                        \/ Cyclic /\ StatusOf(d) = "pending"
                 PROVE  NotReady(t)'
    BY DEF NotReady
  <2>2. d \in dependsOn'[t] /\ StatusOf(d)' = StatusOf(d)
    BY <1>1, <2>1
  <2>3. StatusOf(d) = "pending" => Pending4 # {}
    BY StatusFacts
  <2> QED
    BY <2>1, <2>2, <2>3 DEF NotReady
<1>4. DependenciesCompleted(t) => DependenciesCompleted(t)'
  BY <1>1 DEF DependenciesCompleted
<1> QED
  BY <1>1, <1>2, <1>3, <1>4 DEF Settles

\* A pending task ends: what was decided of the others stays, and what the pass
\* knows of this one is decided.
LEMMA TaskEnds ==
    ASSUME EngineInv, engine \in {"scan", "cycle"}, engine' = "tasks",
           NEW t \in visiting, NEW status \in Ended4, NEW r \in [ran: BOOLEAN, evidence: BOOLEAN],
           Ends(t, status, r), progress' = (engine = "scan"), engine = "cycle" => status = "skipped",
           IF r.ran THEN DependenciesCompleted(t) ELSE Blocked(t) \/ engine = "cycle",
           callSaved' \subseteq PlanTasks, UNCHANGED <<dependsOn, planSaved, execSaved, factSaved>>
    PROVE  EngineInv'
<1>1. /\ EngineTypeOK /\ EngineStands /\ EngineDecides /\ t \in PlanTasks /\ t \in Pending4
      /\ taskStatus[t] = "pending" /\ task = NoTask
  BY DEF EngineInv, EngineTyped, EngineStands, Pending4, Writing
<1>2. /\ taskStatus' = [taskStatus EXCEPT ![t] = status] /\ task' = t /\ results4' = r
      /\ visiting' = visiting \ {t} /\ status # "pending"
  BY DEF Ends, Ended4
<1>3. /\ taskStatus' \in [PlanTasks -> {"pending"} \cup Ended4] /\ taskStatus'[t] = status
      /\ \A u \in PlanTasks : u # t => taskStatus'[u] = taskStatus[u]
  BY <1>1, <1>2 DEF EngineTypeOK
<1>4. EngineTypeOK'
  BY <1>1, <1>2, <1>3 DEF EngineTypeOK
<1>5. /\ \A d : d # t => StatusOf(d)' = StatusOf(d)
      /\ StatusOf(t) = "pending" /\ StatusOf(t)' = status
      /\ Pending4' = Pending4 \ {t}
  BY <1>1, <1>2, <1>3 DEF StatusOf, Pending4
<1>6. Cyclic <=> engine = "cycle"
  BY <1>1 DEF Cyclic, EngineStands, Writing
<1>7. Cyclic' <=> engine = "cycle"
  BY DEF Cyclic, Writing
<1>8. \A u : DependenciesCompleted(u) => DependenciesCompleted(u)'
  BY <1>5 DEF DependenciesCompleted
<1>9. ASSUME NEW u, NotReady(u) PROVE NotReady(u)'
  <2>1. PICK d \in dependsOn[u] : \/ StatusOf(d) \in {"missing", "failed", "skipped"}
                                  \/ Cyclic /\ StatusOf(d) = "pending"
    BY <1>9 DEF NotReady
  <2>2. d \in dependsOn'[u]
    BY <2>1
  <2>3. CASE d = t
    <3>1. Cyclic /\ StatusOf(d)' = "skipped"
      BY <1>5, <1>6, <2>1, <2>3
    <3> QED
      BY <2>2, <3>1 DEF NotReady
  <2>4. CASE d # t
    <3>1. StatusOf(d)' = StatusOf(d) /\ (Cyclic => Cyclic')
      BY <1>5, <1>6, <1>7, <2>4
    <3> QED
      BY <2>1, <2>2, <3>1 DEF NotReady
  <2> QED
    BY <2>3, <2>4
<1>10. ASSUME NEW u \in PlanTasks, u # t
       PROVE  (Recorded(u) <=> Recorded(u)') /\ (Unrecorded(u) <=> Unrecorded(u)')
  BY <1>3, <1>10 DEF Recorded, Unrecorded
<1>11. Unrecorded(t) /\ Unrecorded(t)' /\ ~Recorded(t)'
  <2>1. Unrecorded(t)
    BY <1>1, RecordFacts DEF EngineInv, EngineTyped
  <2>2. Unrecorded(t)'
    BY <2>1 DEF Unrecorded
  <2>3. ~Recorded(t)'
    BY <2>2 DEF Unrecorded, Recorded
  <2> QED
    BY <2>1, <2>2, <2>3
<1>12. EngineTyped'
  BY <1>4, <1>10, <1>11 DEF EngineInv, EngineTyped
<1>13. EngineStands'
  <2>1. visiting' \subseteq Pending4'
    BY <1>1, <1>2, <1>5 DEF EngineStands
  <2>2. task' # NoTask
    BY <1>1, <1>2, EngineAssumption DEF PlanTasks, NoTask
  <2>3. \A u \in PlanTasks : u # task' /\ taskStatus'[u] # "pending" => Recorded(u)'
    BY <1>1, <1>2, <1>3, <1>10, EngineAssumption DEF EngineStands, PlanTasks, NoTask
  <2> QED
    BY <1>2, <1>3, <1>11, <2>1, <2>2, <2>3 DEF EngineStands, Writing
<1>14. Settles(t, r.ran)'
  <2>1. CASE r.ran
    BY <1>8, <2>1 DEF Settles
  <2>2. CASE ~r.ran /\ Blocked(t)
    <3>1. NotReady(t)
      BY <2>2 DEF Blocked, NotReady
    <3> QED
      BY <1>9, <2>2, <3>1 DEF Settles
  <2>3. CASE ~r.ran /\ engine = "cycle"
    <3>1. NotReady(t)
      BY <1>1, <1>6, <2>3 DEF EngineDecides
    <3> QED
      BY <1>9, <2>3, <3>1 DEF Settles
  <2> QED
    BY <2>1, <2>2, <2>3
<1>15. EngineDecides'
  <2>1. ASSUME NEW u \in PlanTasks, Recorded(u)' PROVE Settles(u, execSaved[u][1].ran)'
    <3>1. u # t /\ Recorded(u)
      BY <1>10, <1>11, <2>1
    <3>2. Settles(u, execSaved[u][1].ran)
      BY <1>1, <3>1 DEF EngineDecides
    <3>3. CASE execSaved[u][1].ran
      BY <1>8, <3>2, <3>3 DEF Settles
    <3>4. CASE ~execSaved[u][1].ran
      BY <1>9, <3>2, <3>4 DEF Settles
    <3> QED
      BY <3>3, <3>4
  <2>2. Cyclic' => visiting' = Pending4' /\ \A u \in Pending4' : NotReady(u)'
    BY <1>1, <1>2, <1>5, <1>6, <1>7, <1>9 DEF EngineDecides
  <2>3. Settles(task, results4.ran)'
    BY <1>2, <1>14 DEF Settles, NotReady, DependenciesCompleted
  <2> QED
    BY <2>1, <2>2, <2>3 DEF EngineDecides
<1> QED
  BY <1>12, <1>13, <1>15 DEF EngineInv

-----------------------------------------------------------------------------
(* The steps of the engine *)

LEMMA EngineBegins == ASSUME EngineInit PROVE EngineInv
<1>1. EngineTypeOK
  <2>1. <<>> \in Seq([status: Ended4, ran: BOOLEAN])
    BY EmptySeq
  <2> QED
    BY <2>1, EngineAssumption DEF EngineInit, EngineTypeOK, PlanTasks, NoTask, NoResult
<1>2. \A t \in PlanTasks : Unrecorded(t) /\ ~Recorded(t) /\ taskStatus[t] = "pending"
  BY <1>1, RecordFacts DEF EngineInit, Unrecorded
<1>3. EngineStands
  BY <1>2 DEF EngineInit, EngineStands, Writing, NoTask, Pending4
<1>4. EngineDecides
  BY <1>2 DEF EngineInit, EngineDecides, Cyclic, Writing
<1> QED
  BY <1>1, <1>2, <1>3, <1>4 DEF EngineInv, EngineTyped

\* What is stored of the tasks stays in the steps that store nothing.
LEMMA RecordsKept ==
    ASSUME UNCHANGED <<taskStatus, planSaved, execSaved, factSaved>>
    PROVE  \A t : (Recorded(t)' <=> Recorded(t)) /\ (Unrecorded(t)' <=> Unrecorded(t))
  BY DEF Recorded, Unrecorded

LEMMA EngineStarts == ASSUME EngineInv, StartEngine PROVE EngineInv'
<1>1. /\ engine = "start" /\ engine' = "scan" /\ planSaved' = taskStatus
      /\ visiting' = PlanTasks /\ progress' = FALSE
      /\ UNCHANGED <<dependsOn, taskStatus, task, results4, execSaved, factSaved, callSaved>>
  BY DEF StartEngine
<1>2. EngineTypeOK /\ EngineStands /\ EngineDecides /\ Pending4 = PlanTasks /\ task = NoTask
  BY <1>1 DEF EngineInv, EngineTyped, EngineStands, Writing
<1>3. EngineTypeOK'
  BY <1>1, <1>2 DEF EngineTypeOK
<1>4. \A t \in PlanTasks : taskStatus[t] = "pending" /\ Unrecorded(t) /\ Unrecorded(t)' /\ ~Recorded(t)'
  <2>1. SUFFICES ASSUME NEW t \in PlanTasks
                 PROVE  taskStatus[t] = "pending" /\ Unrecorded(t) /\ Unrecorded(t)' /\ ~Recorded(t)'
    OBVIOUS
  <2>2. taskStatus[t] = "pending" /\ Unrecorded(t)
    BY <1>2, RecordFacts DEF EngineInv, EngineTyped, Pending4
  <2>3. Unrecorded(t)'
    BY <1>1, <2>2 DEF Unrecorded
  <2> QED
    BY <2>2, <2>3, EmptySeq DEF Unrecorded, Recorded
<1>5. Pending4' = PlanTasks
  BY <1>1, <1>2 DEF Pending4
<1>6. EngineStands'
  BY <1>1, <1>2, <1>4, <1>5 DEF EngineStands, Writing
<1>7. EngineDecides'
  BY <1>1, <1>4, <1>5 DEF EngineDecides, Cyclic, Writing
<1> QED
  BY <1>3, <1>4, <1>6, <1>7 DEF EngineInv, EngineTyped

\* The pass leaves a task that has to wait, or ends.
LEMMA EnginePasses == ASSUME EngineInv, Postpone \/ PassEnds PROVE EngineInv'
<1>1. /\ engine = "scan" /\ UNCHANGED <<dependsOn, taskStatus, task, results4, planSaved, execSaved,
                                        factSaved, callSaved>>
      /\ engine' \in {"scan", "finish", "cycle"}
  BY DEF Postpone, PassEnds
<1>2. EngineTypeOK /\ EngineStands /\ EngineDecides /\ task = NoTask
  BY <1>1 DEF EngineInv, EngineTyped, EngineStands, Writing
<1>3. /\ ~Cyclic
      /\ \A d : StatusOf(d)' = StatusOf(d)
      /\ Pending4' = Pending4 /\ Pending4 \subseteq PlanTasks
  BY <1>1 DEF Cyclic, Writing, StatusOf, Pending4
<1>4. /\ visiting' \subseteq Pending4 /\ progress' \in BOOLEAN
      /\ engine' = "finish" => Pending4 = {}
      /\ engine' = "cycle" => ~progress' /\ visiting' = Pending4
      /\ engine' \in {"scan", "cycle"} /\ ~progress' =>
            \A t \in Pending4 \ (IF engine' = "cycle" THEN {} ELSE visiting') :
                \E d \in dependsOn[t] : StatusOf(d) = "pending"
  <2>1. CASE Postpone
    <3>1. /\ visiting # {} /\ ~Blocked(First4) /\ ~DependenciesCompleted(First4)
          /\ visiting' = visiting \ {First4} /\ progress' = progress /\ engine' = "scan"
      BY <2>1 DEF Postpone
    <3>2. First4 \in PlanTasks
      BY <1>2, <3>1, FirstIsVisited DEF EngineTypeOK
    <3>3. \E d \in dependsOn[First4] : StatusOf(d) = "pending"
      <4>1. PICK d \in dependsOn[First4] : StatusOf(d) # "completed"
        BY <3>1 DEF DependenciesCompleted
      <4>2. StatusOf(d) \notin {"missing", "failed", "skipped"}
        BY <3>1 DEF Blocked
      <4>3. StatusOf(d) \in {"missing", "pending"} \cup Ended4
        BY <1>2 DEF StatusOf, EngineTypeOK
      <4> QED
        BY <4>1, <4>2, <4>3 DEF Ended4
    <3> QED
      BY <1>1, <1>2, <3>1, <3>3 DEF EngineStands, EngineDecides, EngineTypeOK
  <2>2. CASE PassEnds
    <3>1. visiting = {}
      BY <2>2 DEF PassEnds
    <3>2. CASE Pending4 = {}
      <4>1. engine' = "finish" /\ visiting' = visiting /\ progress' = progress
        BY <2>2, <3>2 DEF PassEnds
      <4> QED
        BY <1>2, <3>1, <3>2, <4>1 DEF EngineTypeOK
    <3>3. CASE Pending4 # {} /\ progress
      <4>1. engine' = "scan" /\ visiting' = Pending4 /\ progress' = FALSE
        BY <2>2, <3>3 DEF PassEnds
      <4> QED
        BY <4>1
    <3>4. CASE Pending4 # {} /\ ~progress
      <4>1. engine' = "cycle" /\ visiting' = Pending4 /\ progress' = progress
        BY <2>2, <3>4 DEF PassEnds, Leftover
      <4>2. \A t \in Pending4 : \E d \in dependsOn[t] : StatusOf(d) = "pending"
        BY <1>1, <1>2, <3>1, <3>4 DEF EngineDecides
      <4> QED
        BY <1>2, <3>4, <4>1, <4>2 DEF EngineTypeOK
    <3> QED
      BY <3>2, <3>3, <3>4
  <2> QED
    BY <2>1, <2>2
<1>5. EngineTypeOK'
  BY <1>1, <1>2, <1>3, <1>4 DEF EngineTypeOK
<1>6. EngineTyped'
  BY <1>1, <1>5, RecordsKept DEF EngineInv, EngineTyped
<1>7. EngineStands'
  BY <1>1, <1>2, <1>3, <1>4, RecordsKept DEF EngineStands, Writing
<1>8. EngineDecides'
  <2>1. \A t \in PlanTasks : Recorded(t)' => Settles(t, execSaved[t][1].ran)'
    <3>1. ASSUME NEW t \in PlanTasks, Recorded(t)' PROVE Settles(t, execSaved[t][1].ran)'
      <4>1. Recorded(t) /\ execSaved[t][1].ran \in BOOLEAN
        BY <1>1, <1>2, <3>1, RecordsKept, RecordFacts
      <4>2. Settles(t, execSaved[t][1].ran)
        BY <1>2, <4>1 DEF EngineDecides
      <4> QED
        BY <1>1, <1>3, <4>2 DEF Settles, DependenciesCompleted, NotReady
    <3> QED
      BY <3>1
  <2>2. engine' = "scan" /\ ~progress' =>
          \A t \in Pending4' \ visiting' : \E d \in dependsOn'[t] : StatusOf(d)' = "pending"
    BY <1>1, <1>3, <1>4
  <2>3. Cyclic' => visiting' = Pending4' /\ \A t \in Pending4' : NotReady(t)'
    BY <1>1, <1>3, <1>4 DEF Cyclic, Writing, NotReady
  <2> QED
    BY <1>1, <2>1, <2>2, <2>3 DEF EngineDecides
<1> QED
  BY <1>6, <1>7, <1>8 DEF EngineInv

\* A task is skipped because of its dependencies, or runs.
LEMMA EngineEnds == ASSUME EngineInv, SkipBlocked \/ RunTask PROVE EngineInv'
<1>1. /\ engine = "scan" /\ engine' = "tasks" /\ visiting # {} /\ progress' = TRUE
      /\ UNCHANGED <<dependsOn, planSaved, execSaved, factSaved>>
  BY DEF SkipBlocked, RunTask
<1>2. EngineTypeOK /\ First4 \in visiting /\ First4 \in PlanTasks
  BY <1>1, FirstIsVisited DEF EngineInv, EngineTyped, EngineTypeOK
<1>3. CASE SkipBlocked
  <2>1. Ends(First4, "skipped", NoResult) /\ Blocked(First4) /\ callSaved' \subseteq PlanTasks
    BY <1>2, <1>3 DEF SkipBlocked, EngineTypeOK
  <2>2. NoResult \in [ran: BOOLEAN, evidence: BOOLEAN] /\ ~NoResult.ran /\ "skipped" \in Ended4
    BY DEF NoResult, Ended4
  <2> QED
    BY <1>1, <1>2, <2>1, <2>2, TaskEnds
<1>4. CASE RunTask
  <2>1. PICK status \in Ended4, evidence \in BOOLEAN :
          Ends(First4, status, [ran |-> TRUE, evidence |-> evidence])
    BY <1>4 DEF RunTask, CallStatus, Ended4
  <2>2. DependenciesCompleted(First4) /\ callSaved' \subseteq PlanTasks
    BY <1>2, <1>4 DEF RunTask, EngineTypeOK
  <2> DEFINE r == [ran |-> TRUE, evidence |-> evidence]
  <2>3. r \in [ran: BOOLEAN, evidence: BOOLEAN] /\ r.ran /\ Ends(First4, status, r)
    BY <2>1
  <2> HIDE DEF r
  <2> QED
    BY <1>1, <1>2, <2>2, <2>3, TaskEnds
<1> QED
  BY <1>3, <1>4

LEMMA EngineCycles == ASSUME EngineInv, SkipCycle PROVE EngineInv'
<1>1. /\ engine = "cycle" /\ UNCHANGED <<dependsOn, progress, planSaved, execSaved, factSaved, callSaved>>
  BY DEF SkipCycle
<1>2. EngineTypeOK /\ EngineStands /\ EngineDecides /\ ~progress /\ Cyclic /\ task = NoTask
  BY <1>1 DEF EngineInv, EngineTyped, EngineStands, Cyclic, Writing
<1>3. CASE visiting = {}
  <2>1. engine' = "finish" /\ UNCHANGED <<taskStatus, visiting, task, results4>>
    BY <1>3 DEF SkipCycle
  <2>2. Pending4 = {} /\ Pending4' = {}
    BY <1>2, <1>3, <2>1 DEF EngineDecides, Pending4
  <2>3. EngineTyped' /\ EngineStands'
    BY <1>1, <1>2, <2>1, <2>2, RecordsKept DEF EngineInv, EngineTyped, EngineTypeOK, EngineStands, Writing
  <2>4. ASSUME NEW t \in PlanTasks, Recorded(t)' PROVE Settles(t, execSaved[t][1].ran)'
    <3>1. Recorded(t) /\ execSaved[t][1].ran \in BOOLEAN
      BY <1>1, <1>2, <2>1, <2>4, RecordsKept, RecordFacts
    <3>2. Settles(t, execSaved[t][1].ran)
      BY <1>2, <3>1 DEF EngineDecides
    <3>3. \A d : StatusOf(d)' = StatusOf(d) /\ StatusOf(d) # "pending"
      BY <2>1, <2>2, StatusFacts DEF StatusOf
    <3> QED
      BY <1>1, <3>2, <3>3 DEF Settles, DependenciesCompleted, NotReady
  <2>5. EngineDecides'
    BY <2>1, <2>2, <2>4 DEF EngineDecides, Cyclic, Writing
  <2> QED
    BY <2>3, <2>5 DEF EngineInv
<1>4. CASE visiting # {}
  <2>1. Ends(First4, "skipped", NoResult) /\ engine' = "tasks"
    BY <1>4 DEF SkipCycle
  <2>2. NoResult \in [ran: BOOLEAN, evidence: BOOLEAN] /\ ~NoResult.ran /\ "skipped" \in Ended4
    BY DEF NoResult, Ended4
  <2>3. First4 \in visiting /\ callSaved' \subseteq PlanTasks /\ progress' = FALSE
    BY <1>1, <1>2, <1>4, FirstIsVisited DEF EngineTypeOK
  <2> QED
    BY <1>1, <2>1, <2>2, <2>3, TaskEnds
<1> QED
  BY <1>3, <1>4

\* The statuses are stored after a task, and at the end.
LEMMA EngineSavesTasks == ASSUME EngineInv, SaveTasks \/ FinishEngine PROVE EngineInv'
<1>1. /\ planSaved' = taskStatus
      /\ (engine = "tasks" /\ engine' = "execution") \/ (engine = "finish" /\ engine' = "done")
      /\ UNCHANGED <<dependsOn, taskStatus, visiting, progress, task, results4, execSaved, factSaved,
                     callSaved>>
  BY DEF SaveTasks, FinishEngine
<1>2. EngineTypeOK /\ EngineStands /\ EngineDecides
  BY <1>1 DEF EngineInv, EngineTyped
<1>3. EngineTypeOK'
  BY <1>1, <1>2 DEF EngineTypeOK
<1>4. \A t : (Recorded(t) => Recorded(t)') /\ (Unrecorded(t) <=> Unrecorded(t)')
  BY <1>1 DEF Recorded, Unrecorded
<1>5. ASSUME NEW t \in PlanTasks, Recorded(t)' PROVE Recorded(t)
  <2>1. ~Unrecorded(t)'
    BY <1>5, EmptySeq DEF Recorded, Unrecorded
  <2> QED
    BY <1>4, <2>1 DEF EngineInv, EngineTyped
<1>6. Cyclic => Cyclic'
  BY <1>1 DEF Cyclic, Writing
<1>7. EngineTyped'
  BY <1>3, <1>4 DEF EngineInv, EngineTyped
<1>8. EngineStands'
  BY <1>1, <1>2, <1>4 DEF EngineStands, Writing, Pending4
<1>9. ASSUME NEW t \in PlanTasks, Recorded(t)' PROVE Settles(t, execSaved[t][1].ran)'
  <2>1. execSaved[t][1].ran \in BOOLEAN /\ Settles(t, execSaved[t][1].ran)
    BY <1>2, <1>5, <1>9, RecordFacts DEF EngineDecides
  <2> QED
    BY <1>1, <1>6, <2>1, DecisionKept DEF Settles, DependenciesCompleted, NotReady
<1>10. engine' = "execution" => Settles(task, results4.ran)'
  <2>1. results4.ran \in BOOLEAN
    BY <1>2 DEF EngineTypeOK
  <2>2. engine' = "execution" => Settles(task, results4.ran)
    BY <1>1, <1>2 DEF EngineDecides
  <2> QED
    BY <1>1, <1>6, <2>1, <2>2, DecisionKept DEF Settles, DependenciesCompleted, NotReady
<1>11. Cyclic' => visiting' = Pending4' /\ \A t \in Pending4' : NotReady(t)'
  <2>1. Cyclic' => Cyclic
    BY <1>1 DEF Cyclic, Writing
  <2>2. \A t : NotReady(t) => NotReady(t)'
    <3>1. \A d : StatusOf(d)' = StatusOf(d)
      BY <1>1 DEF StatusOf
    <3> QED
      BY <1>1, <1>6, <3>1 DEF NotReady
  <2> QED
    BY <1>1, <1>2, <2>1, <2>2 DEF EngineDecides, Pending4
<1>12. EngineDecides'
  BY <1>1, <1>9, <1>10, <1>11 DEF EngineDecides
<1> QED
  BY <1>7, <1>8, <1>12 DEF EngineInv

LEMMA EngineSavesExecution == ASSUME EngineInv, SaveExecution PROVE EngineInv'
<1>1. /\ engine = "execution" /\ engine' = "fact"
      /\ execSaved' = [execSaved EXCEPT ![task] =
                          Append(@, [status |-> taskStatus[task], ran |-> results4.ran])]
      /\ UNCHANGED <<dependsOn, taskStatus, visiting, progress, task, results4, planSaved, factSaved,
                     callSaved>>
  BY DEF SaveExecution
<1>2. EngineTypeOK /\ EngineStands /\ EngineDecides /\ task \in PlanTasks
  BY <1>1 DEF EngineInv, EngineTyped, EngineStands, EngineTypeOK, Writing
<1> DEFINE e == [status |-> taskStatus[task], ran |-> results4.ran]
<1>3. e \in [status: Ended4, ran: BOOLEAN] /\ e.status = taskStatus[task] /\ e.ran = results4.ran
  BY <1>1, <1>2 DEF EngineStands, EngineTypeOK, Writing
<1>4. execSaved' = [execSaved EXCEPT ![task] = Append(execSaved[task], e)]
  BY <1>1
<1> HIDE DEF e
<1>5. execSaved[task] \in Seq([status: Ended4, ran: BOOLEAN]) /\ execSaved[task] = <<>>
  BY <1>1, <1>2 DEF EngineTypeOK, EngineStands, Unrecorded
<1>6. /\ Append(execSaved[task], e) \in Seq([status: Ended4, ran: BOOLEAN])
      /\ Len(Append(execSaved[task], e)) = 1 /\ Append(execSaved[task], e)[1] = e
  BY <1>3, <1>5, AppendProperties, EmptySeq
<1>7. /\ execSaved' \in [PlanTasks -> Seq([status: Ended4, ran: BOOLEAN])]
      /\ Len(execSaved'[task]) = 1 /\ execSaved'[task][1] = e
      /\ \A t \in PlanTasks : t # task => execSaved'[t] = execSaved[t]
  BY <1>2, <1>4, <1>6 DEF EngineTypeOK
<1>8. EngineTypeOK'
  BY <1>1, <1>2, <1>7 DEF EngineTypeOK
<1>9. Recorded(task)'
  <2>1. planSaved' = taskStatus /\ taskStatus' = taskStatus /\ task' = task
    BY <1>1, <1>2 DEF EngineStands
  <2> QED
    BY <1>3, <1>7, <2>1 DEF Recorded
<1>10. ASSUME NEW t \in PlanTasks, t # task
       PROVE  (Recorded(t)' <=> Recorded(t)) /\ (Unrecorded(t)' <=> Unrecorded(t))
  BY <1>1, <1>7, <1>10 DEF Recorded, Unrecorded
<1>11. EngineTyped'
  BY <1>1, <1>8, <1>9, <1>10 DEF EngineInv, EngineTyped
<1>12. EngineStands'
  BY <1>1, <1>2, <1>9, <1>10 DEF EngineStands, Writing, Pending4
<1>13. (Cyclic <=> Cyclic') /\ \A d : StatusOf(d)' = StatusOf(d)
  BY <1>1 DEF Cyclic, Writing, StatusOf
<1>14. \A t : (NotReady(t)' <=> NotReady(t)) /\ (DependenciesCompleted(t)' <=> DependenciesCompleted(t))
  BY <1>1, <1>13 DEF NotReady, DependenciesCompleted
<1>15. ASSUME NEW t \in PlanTasks, Recorded(t)' PROVE Settles(t, execSaved[t][1].ran)'
  <2>1. CASE t = task
    <3>1. Settles(t, results4.ran) /\ execSaved'[t][1].ran = results4.ran
      BY <1>1, <1>2, <1>3, <1>7, <2>1 DEF EngineDecides
    <3> QED
      BY <1>14, <3>1 DEF Settles
  <2>2. CASE t # task
    <3>1. Settles(t, execSaved[t][1].ran) /\ execSaved'[t] = execSaved[t]
      BY <1>2, <1>7, <1>10, <1>15, <2>2 DEF EngineDecides
    <3> QED
      BY <1>14, <3>1 DEF Settles
  <2> QED
    BY <2>1, <2>2
<1>16. EngineDecides'
  BY <1>1, <1>2, <1>13, <1>14, <1>15 DEF EngineDecides, Pending4
<1> QED
  BY <1>11, <1>12, <1>16 DEF EngineInv

LEMMA EngineSavesFact == ASSUME EngineInv, SaveContextFact PROVE EngineInv'
<1>1. /\ engine = "fact" /\ engine' = IF progress THEN "scan" ELSE "cycle"
      /\ factSaved' = IF results4.evidence THEN factSaved \cup {task} ELSE factSaved
      /\ task' = NoTask /\ results4' = NoResult
      /\ UNCHANGED <<dependsOn, taskStatus, visiting, progress, planSaved, execSaved, callSaved>>
  BY DEF SaveContextFact
<1>2. EngineTypeOK /\ EngineStands /\ EngineDecides /\ task \in PlanTasks /\ Recorded(task)
  BY <1>1 DEF EngineInv, EngineTyped, EngineStands, EngineTypeOK, Writing
<1>3. EngineTypeOK'
  BY <1>1, <1>2 DEF EngineTypeOK, NoResult
<1>4. \A t : Recorded(t)' <=> Recorded(t)
  BY <1>1 DEF Recorded
<1>5. \A t \in PlanTasks : t # task => (Unrecorded(t) => Unrecorded(t)')
  BY <1>1 DEF Unrecorded
<1>6. EngineTyped'
  BY <1>1, <1>2, <1>3, <1>4, <1>5 DEF EngineInv, EngineTyped
<1>7. EngineStands'
  BY <1>1, <1>2, <1>4, EngineAssumption DEF EngineStands, Writing, Pending4, PlanTasks, NoTask
<1>8. (Cyclic <=> Cyclic') /\ \A d : StatusOf(d)' = StatusOf(d)
  BY <1>1 DEF Cyclic, Writing, StatusOf
<1>9. \A t : (NotReady(t)' <=> NotReady(t)) /\ (DependenciesCompleted(t)' <=> DependenciesCompleted(t))
  BY <1>1, <1>8 DEF NotReady, DependenciesCompleted
<1>10. EngineDecides'
  BY <1>1, <1>2, <1>4, <1>8, <1>9 DEF EngineDecides, Pending4, Settles
<1> QED
  BY <1>6, <1>7, <1>10 DEF EngineInv

-----------------------------------------------------------------------------
(* The theorem *)

LEMMA EngineStep == ASSUME EngineInv, [EngineNext]_engineVars PROVE EngineInv'
<1>1. CASE UNCHANGED engineVars
  <2>1. (Cyclic <=> Cyclic') /\ \A d : StatusOf(d)' = StatusOf(d)
    BY <1>1 DEF engineVars, Cyclic, Writing, StatusOf
  <2>2. \A t, ran : Settles(t, ran)' <=> Settles(t, ran)
    BY <1>1, <2>1 DEF engineVars, Settles, NotReady, DependenciesCompleted
  <2>3. EngineTyped'
    BY <1>1 DEF engineVars, EngineInv, EngineTyped, EngineTypeOK, Recorded, Unrecorded
  <2>4. engine' # "broken" => EngineStands'
    BY <1>1 DEF engineVars, EngineInv, EngineStands, Pending4, Writing, Recorded, Unrecorded
  <2>5. engine' # "broken" => EngineDecides'
    BY <1>1, <2>1, <2>2 DEF engineVars, EngineInv, EngineDecides, Pending4, Recorded, NotReady, Settles
  <2> QED
    BY <2>3, <2>4, <2>5 DEF EngineInv
<1>2. CASE WriteFails
  BY <1>2 DEF WriteFails, EngineInv, EngineTyped, EngineTypeOK, Recorded, Unrecorded
<1> QED
  BY <1>1, <1>2, EngineStarts, EnginePasses, EngineEnds, EngineCycles, EngineSavesTasks,
     EngineSavesExecution, EngineSavesFact DEF EngineNext

LEMMA EnginePromise == ASSUME EngineInv PROVE PlanConsistent
<1>1. EngineTypeOK
  BY DEF EngineInv, EngineTyped
<1>2. ASSUME engine = "done", NEW t \in PlanTasks
      PROVE  /\ Recorded(t) /\ taskStatus[t] # "pending"
             /\ execSaved[t][1].ran <=> DependenciesCompleted(t)
  <2>1. EngineStands /\ EngineDecides /\ Pending4 = {} /\ task = NoTask /\ ~Cyclic
    BY <1>2 DEF EngineInv, EngineStands, Writing, Cyclic
  <2>2. t # NoTask /\ taskStatus[t] # "pending"
    BY <2>1, EngineAssumption DEF PlanTasks, NoTask, Pending4
  <2>3. Recorded(t) /\ Settles(t, execSaved[t][1].ran) /\ execSaved[t][1].ran \in BOOLEAN
    BY <1>1, <2>1, <2>2, RecordFacts DEF EngineStands, EngineDecides
  <2>4. NotReady(t) => ~DependenciesCompleted(t)
    BY <2>1 DEF NotReady, DependenciesCompleted
  <2> QED
    BY <2>2, <2>3, <2>4 DEF Settles
<1>3. RanIffReady
  BY <1>2 DEF RanIffReady
<1>4. EngineLeavesNothing
  BY <1>1, <1>2 DEF EngineLeavesNothing, Recorded, EngineTypeOK
<1>5. StoredPlanFits
  <2>1. ASSUME NEW t \in PlanTasks
        PROVE  /\ execSaved[t] # <<>> => planSaved[t] = execSaved[t][1].status
               /\ t \in factSaved => execSaved[t] # <<>>
    BY <1>1, RecordFacts DEF EngineInv, EngineTyped, Unrecorded, Recorded
  <2> QED
    BY <2>1 DEF StoredPlanFits
<1> QED
  BY <1>1, <1>3, <1>4, <1>5 DEF PlanConsistent

\* Whatever the tasks of a plan wait for, in whatever order they are looked at and
\* whichever write fails: who runs is decided by the dependencies alone, the engine
\* leaves no task behind, and what is stored fits together
\* (DiagnosisExecutionEngine.execute).
THEOREM PlanIsExecuted == EngineSpec => []PlanConsistent
<1>1. EngineInit => EngineInv
  BY EngineBegins
<1>2. EngineInv /\ [EngineNext]_engineVars => EngineInv'
  BY EngineStep
<1>3. EngineInv => PlanConsistent
  BY EnginePromise
<1> QED
  BY <1>1, <1>2, <1>3, PTL DEF EngineSpec
=============================================================================

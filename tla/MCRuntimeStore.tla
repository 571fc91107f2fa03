--------------------------- MODULE MCRuntimeStore ---------------------------
(* Instances of the two stores and of the admission of runs for TLC. *)
EXTENDS RuntimeStore, SqliteStore, RunAdmission

\* All call ids but one are attempts of one logical call.
RetryOf ==
    LET other == CHOOSE t \in Tools : TRUE
        first == CHOOSE t \in Tools \ {other} : TRUE
    IN [t \in Tools |-> IF t = other THEN other ELSE first]

\* What a behaviour may contain.  Of the memory store: one run and its attempts, a
\* rerun that takes the investigation over, or retried and parallel tool calls of
\* two workers.  Of the SQLite store: two workers and an audit, tool calls beside
\* requests, reads that repair, or a rerun.  Of the admission: two certifications of
\* one endpoint and a run that rests on them, or runs of every kind beside a legacy
\* investigation under a service that restarts with other configurations.  One run
\* of TLC explores them without their product; the other parts stay in their
\* initial state.
VARIABLE scope

OneOf(S) == CHOOSE x \in S : TRUE
Within(live, workers, tries, calls, length) ==
    /\ \A r \in Runs :
        /\ status'[r] # "absent" => r \in live
        /\ leaseOwner'[r] \in workers \cup {NoWorker}
        /\ Len(attempts'[r]) <= tries
        /\ status'[r] \notin Terminal => Len(events'[r]) <= length
        /\ \A t \in Tools : tools'[r][t] # "none" => t \in calls

MemoryNext ==
    /\ Next
    /\ scope # "retries" => turns' = turns
    /\ CASE scope = "one_run" -> Within({OneOf(Runs)}, {OneOf(Workers)}, 2, {OneOf(Tools)}, 8)
         [] scope = "rerun"   -> Within(Runs, {OneOf(Workers)}, 1, {OneOf(Tools)}, 4)
         [] scope = "retries" -> Within({OneOf(Runs)}, Workers, 2, Tools, 5)

Moving(workers, requests, rows) ==
    /\ \A t \in Threads \ (workers \cup requests) : txn'[t] = NoCall
    /\ \A r \in SqlRuns \ rows : row'[r].status = "absent"
NoDamage  == \A r \in SqlRuns : row'[r].contract = "sound"
NoTurns   == \A r \in SqlRuns : row'[r].turns = SqlTurns
NoCalls   == \A r \in SqlRuns : tool'[r] = NoTool
Plain(n)  == \A r \in SqlRuns : Cardinality({e \in log'[r] : e.kind \in {"work", "rejected"}}) <= n
Decisions(D) == inv'.actions \in D

DatabaseNext ==
    /\ SqlNext
    /\ CASE scope = "takeover" ->
                /\ Moving(SqlWorkers, {OneOf(SqlRequests)}, {1})
                /\ NoDamage /\ NoTurns /\ NoCalls /\ Decisions({"none", "proposed"})
                /\ Plain(1) /\ row'[1].v11 /\ row'[1].phase <= 1
         [] scope = "calls" ->
                /\ Moving({OneOf(SqlWorkers)}, {OneOf(SqlRequests)}, {1})
                /\ NoDamage /\ row'[1].v11 /\ row'[1].phase <= 1 /\ clock' <= 2
         [] scope = "damage" ->
                /\ Moving({OneOf(SqlWorkers)}, SqlRequests, {1})
                /\ Plain(1) /\ NoTurns /\ NoCalls /\ row'[1].phase = 0 /\ clock' <= 2
         [] scope = "handover" ->
                /\ Moving({OneOf(SqlWorkers)}, {OneOf(SqlRequests)}, SqlRuns)
                /\ NoDamage /\ NoTurns /\ NoCalls /\ Decisions({"none", "proposed", "approved"})
                /\ Plain(0) /\ clock' = 0 /\ row'[2].phase <= 1

CertifyNext ==
    /\ AdmissionNext
    /\ \A c \in Certifiers : certifier'[c].endpoint \in {OneOf(Generic), None}
    /\ \A c \in Certifiers : certifier'[c].art # None =>
          LET o == certifier'[c].art.seen IN ~o.strict /\ o.native
    /\ server' # server => server'.provider = "openai_compatible" /\ server'.base = OneOf(Generic)
    /\ server.up => server'.up
    /\ \A r \in RunIds : runs[r] = NoRunYet /\ (r # OneOf(RunIds) => runs'[r] = NoRunYet)
    /\ \A r \in RunIds : runs'[r].status # "absent" => runs'[r].version = "v11"
    /\ recs' # recs => runs' # runs /\ \A i \in Records \ {OneOf(Records)} : recs'[i] = NoRecord
ServeNext == AdmissionNext /\ UNCHANGED <<tree, certifier>>

\* One endpoint is certified over the native transport, the others over the strict one.
Proof(e) ==
    LET native == e = OneOf(Generic) IN
    Artifact(e, [native |-> native, strict |-> TRUE, common |-> TRUE,
                 via |-> IF native THEN "native_json_schema" ELSE "strict_output_tool"],
             0, [revision |-> 0, manifest |-> 0, dirty |-> FALSE])

MemoryScopes == {"one_run", "rerun", "retries"}
DatabaseScopes == {"takeover", "calls", "damage", "handover"}

MCInit ==
    /\ Init /\ SqlInit
    /\ \/ /\ scope = "serve" /\ AdmissionAt([e \in Generic |-> Proof(e)])
          /\ recs[OneOf(Records)] = History
       \/ /\ scope \in MemoryScopes \cup DatabaseScopes \cup {"certify"} /\ AdmissionInit
          /\ recs[OneOf(Records)] = NoRecord
    /\ \A i \in Records \ {OneOf(Records)} : recs[i] = NoRecord
MCNext ==
    /\ UNCHANGED scope
    /\ \/ scope \in MemoryScopes /\ MemoryNext /\ UNCHANGED <<sqlVars, admissionVars>>
       \/ scope \in DatabaseScopes /\ DatabaseNext /\ UNCHANGED <<vars, admissionVars>>
       \/ scope = "certify" /\ CertifyNext /\ UNCHANGED <<vars, sqlVars>>
       \/ scope = "serve" /\ ServeNext /\ UNCHANGED <<vars, sqlVars>>
MCSpec == MCInit /\ [][MCNext]_<<vars, sqlVars, admissionVars, scope>>
=============================================================================

---------------------------- MODULE RunAdmission ----------------------------
(***************************************************************************)
(* Which runs the service admits and where they may call a model.          *)
(*                                                                         *)
(* A certification command, a process of its own, probes a compatible      *)
(* endpoint and replaces the artifact of the endpoint.  The service reads  *)
(* the artifact when it creates a V11 run and freezes endpoint, transport  *)
(* and artifact into the contract of the run.  Whoever executes the run    *)
(* later, after restarts under another configuration too, checks its own   *)
(* model against that contract.                                            *)
(*                                                                         *)
(* One artifact slot stands for one endpoint and model.  build stands for  *)
(* what a process has loaded: adapter, SDKs, role schemas, environment and *)
(* parallelism.  Investigations and runs are kept in SQLite and survive a  *)
(* crash.                                                                  *)
(***************************************************************************)
EXTENDS Integers, FiniteSets

CONSTANTS
    Generic,            \* base URLs of compatible endpoints
    Official,           \* OFFICIAL_OPENAI_BASE_URL
    DeepSeekUrl,        \* DEEPSEEK_BASE_URL
    Certifiers,         \* certification commands
    RunIds,
    Records,            \* investigations, the absent ones included
    None,               \* the Python value
    Torn,               \* a file that is empty or mixed: no valid artifact
    MaxEdits            \* bound of the model: changes of the source tree

ASSUME RunAdmissionAssumption ==
    /\ Official \notin Generic \cup {DeepSeekUrl, None}
    /\ None \notin Generic \cup {DeepSeekUrl} \cup RunIds \cup Records
    /\ MaxEdits \in Nat

VARIABLES
    tree,           \* the source tree: its text, the commit it is at, its build
    server,         \* the service: up, provider, base URL of its model, build
    certifier,      \* step, endpoint, build, artifact in hand, file it has open
    temp,           \* result.tmp of an endpoint
    slot,           \* result.json of an endpoint
    runs,           \* runtime runs with their contract, and the calls they made
    recs            \* investigations

admissionVars == <<tree, server, certifier, temp, slot, runs, recs>>

Providers  == {"openai", "openai_compatible", "deepseek", "none"}
Transports == {"native_json_schema", "strict_output_tool"}

\* What a certification observes.  common is every probe that is not about one
\* transport; a request over its deadline fails its probe.  The schemas of the roles
\* are among them: they are probed over the native transport if that passed, else
\* over the strict one (via).
Observations ==
    {[native |-> n, strict |-> s, common |-> o,
      via |-> IF n THEN "native_json_schema" ELSE IF s THEN "strict_output_tool" ELSE "none"] :
        n \in BOOLEAN, s \in BOOLEAN, o \in BOOLEAN}
Probed == {o \in Observations : o.via = "none" => ~o.common}

Supports(o, transport) == IF transport = "native_json_schema" THEN o.native ELSE o.strict

\* resolve_source_identity: revision, hash over the files, and whether they differ.
SourceIdentity == [revision |-> tree.head, manifest |-> tree.text, dirty |-> tree.text # tree.head]
Sources == [revision : 0..MaxEdits, manifest : 0..MaxEdits, dirty : BOOLEAN]

\* certify_endpoint_async: the transport is the native one if its probe passed, and
\* the verdict wants everything but the other transport.
Transport(o) == IF o.native THEN "native_json_schema" ELSE "strict_output_tool"

Artifact(e, o, build, source) ==
    [endpoint |-> e, transport |-> Transport(o), seen |-> o, build |-> build, source |-> source,
     passed |-> o.common /\ Supports(o, Transport(o))]

Artifacts == [endpoint : Generic, transport : Transports, seen : Observations, build : 0..MaxEdits,
              source : Sources, passed : BOOLEAN]
Files == Artifacts \cup {None, Torn}

NotCalled == [step |-> "idle", endpoint |-> None, build |-> 0, art |-> None, file |-> "none"]
Certifying == [step : {"idle", "probing", "sealed", "open", "full"},
               endpoint : Generic \cup {None}, build : 0..MaxEdits,
               art : Artifacts \cup {None}, file : {"none", "temp", "slot", "gone"}]

NoRunYet == [status |-> "absent", version |-> "v10", on |-> None, provider |-> "none",
          endpoint |-> None, transport |-> "native_json_schema", cap |-> None, calls |-> {}]
Endpoints == Generic \cup {Official, DeepSeekUrl}
Unsettled == {"created", "stranded", "running", "interrupted"}
RunRecord == [status : Unsettled \cup {"absent", "ended"}, version : {"v10", "v11"},
              on : Records \cup {None}, provider : Providers, endpoint : Endpoints \cup {None},
              transport : Transports, cap : Artifacts \cup {None},
              calls : SUBSET (Endpoints \X Transports)]

\* state: touched once anything but PENDING, or with any result; legacy: holds
\* results of a V10 run; by: the kind of request that made it; cut: the service died
\* between its creation and that of its run (no code has legacy, by and cut).
Blank(v) == [state |-> "pending", owner |-> None, source |-> None, legacy |-> FALSE,
             by |-> v, cut |-> FALSE]
Record == [state : {"absent", "pending", "touched"}, owner : RunIds \cup {None},
           source : Records \cup {None}, legacy : BOOLEAN, by : {"v10", "v11"}, cut : BOOLEAN]
NoRecord == [Blank("v10") EXCEPT !.state = "absent"]
History  == [Blank("v10") EXCEPT !.state = "touched", !.legacy = TRUE]

-----------------------------------------------------------------------------
AdmissionAt(certified) ==
    /\ tree = [text |-> 0, head |-> 0, build |-> 0]
    /\ server = [up |-> FALSE, provider |-> "none", base |-> None, build |-> 0]
    /\ certifier = [c \in Certifiers |-> NotCalled]
    /\ temp = [e \in Generic |-> None] /\ slot = certified
    /\ runs = [r \in RunIds |-> NoRunYet]
    /\ recs \in [Records -> {NoRecord, History}]
AdmissionInit == AdmissionAt([e \in Generic |-> None])

\* A change of the source, or of what is installed with it, and a commit.
Edit ==
    /\ tree.text < MaxEdits
    /\ \E build \in {tree.build, tree.build + 1} :
          tree' = [tree EXCEPT !.text = @ + 1, !.build = build]
    /\ UNCHANGED <<server, certifier, temp, slot, runs, recs>>

CommitEdits ==
    /\ tree.head # tree.text
    /\ tree' = [tree EXCEPT !.head = tree.text]
    /\ UNCHANGED <<server, certifier, temp, slot, runs, recs>>

-----------------------------------------------------------------------------
\* The certification command.
Probe(c, e) ==
    /\ certifier[c].step = "idle"
    /\ certifier' = [certifier EXCEPT ![c] = [NotCalled EXCEPT !.step = "probing", !.endpoint = e,
                                                          !.build = tree.build]]
    /\ UNCHANGED <<tree, server, temp, slot, runs, recs>>

\* certify_endpoint_async after the probes: only now is the source identity read.
Seal(c) ==
    /\ certifier[c].step = "probing"
    /\ \E o \in Probed :
          certifier' = [certifier EXCEPT
              ![c].step = "sealed",
              ![c].art = Artifact(certifier[c].endpoint, o, certifier[c].build, SourceIdentity)]
    /\ UNCHANGED <<tree, server, temp, slot, runs, recs>>

\* write_capability_artifact: write_text opens and empties result.tmp, ...
OpenTemp(c) ==
    /\ certifier[c].step = "sealed"
    /\ certifier' = [certifier EXCEPT ![c].step = "open", ![c].file = "temp"]
    /\ temp' = [temp EXCEPT ![certifier[c].endpoint] = Torn]
    /\ UNCHANGED <<tree, server, slot, runs, recs>>

\* ... writes from the start of the file it opened, wherever that is now, over what
\* another command may have put there, ...
FillTemp(c) ==
    /\ certifier[c].step = "open"
    /\ LET e == certifier[c].endpoint
           Over(old) == IF old = Torn THEN {certifier[c].art} ELSE {certifier[c].art, Torn} IN
       CASE certifier[c].file = "temp" ->
              /\ \E new \in Over(temp[e]) : temp' = [temp EXCEPT ![e] = new]
              /\ UNCHANGED slot
         [] certifier[c].file = "slot" ->
              /\ \E new \in Over(slot[e]) : slot' = [slot EXCEPT ![e] = new]
              /\ UNCHANGED temp
         [] OTHER -> UNCHANGED <<temp, slot>>
    /\ certifier' = [certifier EXCEPT ![c].step = "full"]
    /\ UNCHANGED <<tree, server, runs, recs>>

\* ... and replace() moves whatever is called result.tmp; a file that another command
\* still has open moves under it.  Without a result.tmp it raises.
FileAfter(c, d) ==
    IF d = c \/ certifier[d].endpoint # certifier[c].endpoint THEN certifier[d].file
    ELSE CASE certifier[d].file = "temp" -> "slot"
           [] certifier[d].file = "slot" -> "gone"
           [] OTHER -> certifier[d].file

ReplaceArtifact(c) ==
    /\ certifier[c].step = "full"
    /\ LET e == certifier[c].endpoint IN
       IF temp[e] = None
       THEN /\ certifier' = [certifier EXCEPT ![c] = NotCalled]
            /\ UNCHANGED <<temp, slot>>
       ELSE /\ slot' = [slot EXCEPT ![e] = temp[e]]
            /\ temp' = [temp EXCEPT ![e] = None]
            /\ certifier' = [d \in Certifiers |->
                   IF d = c THEN NotCalled ELSE [certifier[d] EXCEPT !.file = FileAfter(c, d)]]
    /\ UNCHANGED <<tree, server, runs, recs>>

KillCertifier(c) ==
    /\ certifier[c].step # "idle"
    /\ certifier' = [certifier EXCEPT ![c] = NotCalled]
    /\ UNCHANGED <<tree, server, temp, slot, runs, recs>>

CertifierStep(c) ==
    \/ \E e \in Generic : Probe(c, e)
    \/ Seal(c) \/ OpenTemp(c) \/ FillTemp(c) \/ ReplaceArtifact(c) \/ KillCertifier(c)

-----------------------------------------------------------------------------
\* The service.  With DeepSeek or a compatible endpoint V11Runtime.model is an
\* adapter with a base URL of its own, with OpenAI it is a model name; without
\* agents, or when their construction failed, there is no V11Runtime.
AdapterAt(provider, base) ==
    CASE provider = "openai_compatible" -> base
      [] provider = "deepseek" -> DeepSeekUrl
      [] OTHER -> None

StartServer(provider, e) ==
    /\ ~server.up
    /\ server' = [up |-> TRUE, provider |-> provider, base |-> AdapterAt(provider, e),
                  build |-> tree.build]
    /\ UNCHANGED <<tree, certifier, temp, slot, runs, recs>>

\* What a process that dies leaves: the lease audit of the next one interrupts what
\* was running, and nobody starts a run that was only created.
Stranded ==
    [r \in RunIds |-> CASE runs[r].status = "created" -> [runs[r] EXCEPT !.status = "stranded"]
                        [] runs[r].status = "running" -> [runs[r] EXCEPT !.status = "interrupted"]
                        [] OTHER -> runs[r]]

CrashServer ==
    /\ server.up
    /\ server' = [server EXCEPT !.up = FALSE]
    /\ runs' = Stranded
    /\ UNCHANGED <<tree, certifier, temp, slot, recs>>

\* latest_capability_artifact and validate_capability_for_prediction.
Valid(a) ==
    /\ a \notin {None, Torn}
    /\ a.passed /\ a.build = server.build
    /\ ~a.source.dirty /\ a.source = SourceIdentity
    /\ a.seen.common /\ Supports(a.seen, a.transport)

\* _v11_model_identity: the identities a V11 run may be admitted with.
ModelIdentity ==
    CASE server.provider = "openai" ->
           {[endpoint |-> Official, cap |-> None, transport |-> "native_json_schema"]}
      [] server.provider = "openai_compatible" ->
           {[endpoint |-> server.base, cap |-> a, transport |-> a.transport] :
               a \in {x \in {slot[server.base]} : Valid(x)}}
      [] server.provider = "deepseek" -> {}
      [] OTHER -> {[endpoint |-> None, cap |-> None, transport |-> "native_json_schema"]}

\* create_runtime_run: a V10 run is refused where a V11 run owns the investigation.
Identities(i, v) ==
    IF v = "v11" THEN ModelIdentity
    ELSE IF recs[i].owner = None
         THEN {[endpoint |-> None, cap |-> None, transport |-> "native_json_schema"]}
         ELSE {}

\* run_investigation brings a new investigation, the API names an existing one.
Arrived(i, v) == IF recs[i].state = "absent" THEN [recs EXCEPT ![i] = Blank(v)] ELSE recs

\* Mutant: only the owner of a projection says that there is one.
NeedsNoCopy(i, v) == FALSE

\* _v11_investigation_id: a V11 run on a legacy projection gets a linked copy.
NeedsCopy(i, v) == v = "v11" /\ recs[i].owner = None /\ recs[i].state = "touched"

Linked(i) == [Blank("v11") EXCEPT !.source = i]

\* The investigation the run is for, and what the repository holds then.
Placed(i, v) ==
    IF NeedsCopy(i, v)
    THEN {[on |-> j, recs |-> [recs EXCEPT ![j] = Linked(i)]] :
             j \in {k \in Records : recs[k].state = "absent"}}
    ELSE {[on |-> i, recs |-> Arrived(i, v)]}

Contract(i, v, j, id) ==
    [NoRunYet EXCEPT !.status = "created", !.version = v, !.on = j, !.provider = server.provider,
                  !.endpoint = id.endpoint, !.transport = id.transport, !.cap = id.cap]

Occupied(j) == \E q \in RunIds : runs[q].on = j /\ runs[q].status \in Unsettled

CreateRuntimeRun(r, i, v) ==
    /\ server.up /\ runs[r].status = "absent"
    /\ \E id \in Identities(i, v), p \in Placed(i, v) :
          /\ ~Occupied(p.on)
          /\ recs' = p.recs
          /\ runs' = [runs EXCEPT ![r] = Contract(i, v, p.on, id)]
    /\ UNCHANGED <<tree, server, certifier, temp, slot>>

\* The request fails before the copy is made, or in the store after it.  What was
\* made for a V11 run is marked failed; a new V10 investigation stays pending.
Failed(j, held) == IF held[j].by = "v11" THEN [held EXCEPT ![j].state = "touched"] ELSE held

RefuseRun(i, v) ==
    /\ server.up
    /\ \/ /\ recs[i].state = "absent"
          /\ recs' = Failed(i, Arrived(i, v))
       \/ /\ NeedsCopy(i, v) /\ Identities(i, v) # {}
          /\ \E p \in Placed(i, v) : recs' = Failed(p.on, p.recs)
    /\ UNCHANGED <<tree, server, certifier, temp, slot, runs>>

\* The service dies between the two writes.
DieCreating(i, v) ==
    /\ server.up
    /\ \E p \in Placed(i, v) :
          /\ recs[p.on].state = "absent"
          /\ NeedsCopy(i, v) => Identities(i, v) # {}
          /\ recs' = [p.recs EXCEPT ![p.on].cut = TRUE]
    /\ server' = [server EXCEPT !.up = FALSE]
    /\ runs' = Stranded
    /\ UNCHANGED <<tree, certifier, temp, slot>>

-----------------------------------------------------------------------------
\* Mutant: nobody asks which endpoint the adapter of this process has.
BindsAnyEndpoint(run) ==
    \/ server.provider = "none"
    \/ run.version = "v11" /\ run.provider # "none"

\* clone_for_run, _validate_execution_contract: the session of an attempt.  Without a
\* V11Runtime nothing is checked; with one a V10 run has no contract it accepts.
Binds(run) ==
    \/ server.provider = "none"
    \/ /\ run.version = "v11" /\ run.provider # "none"
       /\ run.provider = "openai" => run.endpoint = Official
       /\ run.provider = "openai_compatible" /\ server.provider # "openai" =>
             run.endpoint = server.base

\* start, resume: the first phase builds the session and takes the projection.  A
\* V10 run writes legacy results, a V11 run becomes the owner.
Execute(r) ==
    /\ server.up /\ runs[r].status \in {"created", "interrupted"}
    /\ IF Binds(runs[r])
       THEN /\ runs' = [runs EXCEPT ![r].status = "running"]
            /\ LET i == runs[r].on IN
               recs' = IF runs[r].version = "v11"
                       THEN [recs EXCEPT ![i].owner = r, ![i].state = "touched"]
                       ELSE [recs EXCEPT ![i].legacy = TRUE, ![i].state = "touched"]
       ELSE /\ runs' = [runs EXCEPT ![r].status = "ended"]
            /\ recs' = [recs EXCEPT ![runs[r].on].state =
                           IF runs[r].version = "v10" \/ recs[runs[r].on].owner = r
                           THEN "touched" ELSE @]
    /\ UNCHANGED <<tree, server, certifier, temp, slot>>

\* _V11ModelProvider checks the contract; an adapter is used as it is, with the
\* transport of the contract.
Reaches(run) ==
    IF server.provider # "openai" THEN {<<server.base, run.transport>>}
    ELSE IF run.endpoint = Official THEN {<<Official, "native_json_schema">>} ELSE {}

CallModel(r) ==
    /\ server.up /\ runs[r].status = "running" /\ runs[r].version = "v11"
    /\ server.provider # "none"
    /\ \E call \in Reaches(runs[r]) : runs' = [runs EXCEPT ![r].calls = @ \cup {call}]
    /\ UNCHANGED <<tree, server, certifier, temp, slot, recs>>

\* The run settles, or loses its lease to the audit.
EndRun(r) ==
    /\ server.up /\ runs[r].status = "running"
    /\ \E outcome \in {"ended", "interrupted"} : runs' = [runs EXCEPT ![r].status = outcome]
    /\ UNCHANGED <<tree, server, certifier, temp, slot, recs>>

\* request_cancel on a run that was never started.
CancelUnstarted(r) ==
    /\ server.up /\ runs[r].status \in {"created", "stranded"}
    /\ runs' = [runs EXCEPT ![r].status = "ended"]
    /\ recs' = IF runs[r].version = "v10" THEN [recs EXCEPT ![runs[r].on].state = "touched"] ELSE recs
    /\ UNCHANGED <<tree, server, certifier, temp, slot>>

ServiceStep ==
    \/ \E provider \in Providers, e \in Generic : StartServer(provider, e)
    \/ CrashServer
    \/ \E i \in Records, v \in {"v10", "v11"} :
          RefuseRun(i, v) \/ DieCreating(i, v) \/ \E r \in RunIds : CreateRuntimeRun(r, i, v)
    \/ \E r \in RunIds : Execute(r) \/ CallModel(r) \/ EndRun(r) \/ CancelUnstarted(r)

AdmissionNext == Edit \/ CommitEdits \/ (\E c \in Certifiers : CertifierStep(c)) \/ ServiceStep

AdmissionSpec == AdmissionInit /\ [][AdmissionNext]_admissionVars

-----------------------------------------------------------------------------
AdmissionTypeOK ==
    /\ tree \in [text : 0..MaxEdits, head : 0..MaxEdits, build : 0..MaxEdits]
    /\ server \in [up : BOOLEAN, provider : Providers,
                   base : Generic \cup {DeepSeekUrl, None}, build : 0..MaxEdits]
    /\ certifier \in [Certifiers -> Certifying]
    /\ temp \in [Generic -> Files] /\ slot \in [Generic -> Files]
    /\ runs \in [RunIds -> RunRecord]
    /\ recs \in [Records -> Record]

\* A run on a compatible endpoint rests on one certification of that endpoint that
\* passed as a whole, over the transport the run will use, from a committed tree,
\* however many commands wrote into the same file (certify_endpoint_async,
\* write_capability_artifact, _v11_model_identity).
Certified(run) == run.version = "v11" /\ run.provider = "openai_compatible"
AdmittedOnProof ==
    \A r \in RunIds : Certified(runs[r]) =>
        LET a == runs[r].cap IN
        /\ a # None /\ a.endpoint = runs[r].endpoint /\ a.transport = runs[r].transport
        /\ a.seen.common /\ Supports(a.seen, a.transport)
        /\ a.seen.via = runs[r].transport
        /\ ~a.source.dirty /\ a.source.manifest = a.source.revision

\* Results of V10 and V11 runs never meet in one investigation: a V11 run owns no
\* legacy projection and no V10 run is active where a V11 run is the owner
\* (create_runtime_run, _v11_investigation_id).
LegacyUntouched ==
    /\ \A i \in Records : recs[i].legacy => recs[i].owner = None
    /\ \A r \in RunIds : runs[r].version = "v10" /\ runs[r].status \in Unsettled
                           => recs[runs[r].on].owner = None

\* What was made for a V11 run is not left pending without one, unless the service
\* died (run_investigation, create_runtime_run).
NothingOrphaned ==
    \A i \in Records : recs[i].by = "v11" /\ recs[i].state = "pending" =>
        recs[i].cut \/ \E r \in RunIds : runs[r].on = i

\* Admission: what is frozen into a run was proved, and where the run is placed
\* nothing of another contract is lost or left behind.
AdmissionConsistent == AdmissionTypeOK /\ AdmittedOnProof /\ LegacyUntouched /\ NothingOrphaned

\* A certified run calls a model only at the endpoint and over the transport it was
\* admitted with, whatever the service is restarted with (clone_for_run, bind_phase,
\* _V11ModelProvider).
CertifiedStaysPut ==
    \A r \in RunIds : Certified(runs[r]) => runs[r].calls \subseteq {<<runs[r].endpoint, runs[r].transport>>}
=============================================================================

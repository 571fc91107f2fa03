--------------------------- MODULE BenchmarkBundle ---------------------------
(***************************************************************************)
(* The frozen directory of an OpenRCA benchmark: the process that runs the *)
(* cases and writes it file by file, the evaluation that scores it in      *)
(* place, the copy that a person makes of it, and the gates, the API and   *)
(* replay, which believe what they find there.  Processes die between any  *)
(* two writes.  Scores and their thresholds are data and left out.         *)
(***************************************************************************)
EXTENDS Naturals, Sequences, FiniteSets, SequencesExt

CONSTANT Cases      \* number of cases of the index, 40 in a release
ASSUME BundleAssumption == Cases \in Nat \ {0}

VARIABLES
    mode,       \* of the run: deterministic, agent or v11-agent
    strategies, \* strategies of the run, in order
    runner,     \* the process of run_benchmark_pair
    outcomes,   \* what the cases of each strategy came to
    manifest,   \* run-manifest.json of each directory
    bundle,     \* the other files of each directory
    locators,   \* benchmark_replay_locator of each runtime run
    eval,       \* the evaluate command on each directory
    settled     \* directories whose last evaluation came to its end

bundleVars == <<mode, strategies, runner, outcomes, manifest, bundle, locators, eval, settled>>

Dirs       == {"run", "copy"}
Strategies == {"fixed", "adaptive"}

\* The content of a file.  A write that is not atomic may leave a torn one.
Absent   == <<>>
Torn     == <<"torn">>
Whole(x) == <<"whole", x>>
IsWhole(f) == Len(f) = 2
Content(f) == f[2]

\* Partition files of a strategy count as one file, its "parts".
Parts(s) == IF s = "fixed" THEN "fixed-parts" ELSE "adaptive-parts"
Names    == {"fixed", "adaptive", "v11-agent", "fixed-parts", "adaptive-parts", "report", "summary", "official"}
NoFiles  == [n \in Names |-> Absent]

\* What a case comes to: the projection is full, short of the expected causes,
\* failed, or was not reached; and the runtime run may not even be known.
CaseOutcomes ==
    [completed : BOOLEAN, proj : {"ok", "fallback"}, bad : {0, 1}, known : {TRUE}]
        \cup {[completed |-> FALSE, proj |-> "error", bad |-> 0, known |-> TRUE]}
        \cup [completed : {FALSE}, proj : {"none"}, bad : {0}, known : BOOLEAN]

\* The row of a case.  V11 publishes no cause of a case that did not complete.
Row(c, o) ==
    [case |-> c, run |-> o.known, proj |-> o.proj,
     full |-> o.proj = "ok" /\ (mode = "v11-agent" => o.completed)]

RowsOf(s) == [c \in 1..Len(outcomes[s]) |-> Row(c, outcomes[s][c])]

Count(s, P(_)) == Cardinality({c \in 1..Len(outcomes[s]) : P(outcomes[s][c])})

Summary(s) ==
    [cases     |-> Len(outcomes[s]),
     completed |-> Count(s, LAMBDA o : o.completed),
     bad       |-> Count(s, LAMBDA o : o.bad = 1),
     errors    |-> Count(s, LAMBDA o : o.proj = "error"),
     fallbacks |-> Count(s, LAMBDA o : o.proj = "fallback")]

-----------------------------------------------------------------------------
(* The run.                                                                *)

Strategy == strategies[runner.turn]

BundleInit ==
    /\ mode \in {"deterministic", "agent", "v11-agent"}
    /\ strategies \in {<<"fixed">>} \cup
         (IF mode = "deterministic" THEN {} ELSE {<<"adaptive">>, <<"fixed", "adaptive">>})
    /\ runner = [step |-> "start", case |-> 1, turn |-> 1]
    /\ outcomes = [s \in Strategies |-> <<>>]
    /\ manifest = [d \in Dirs |-> Absent]
    /\ bundle = [d \in Dirs |-> NoFiles]
    /\ locators = [s \in Strategies, c \in 1..Cases |-> "absent"]
    /\ eval = [d \in Dirs |-> [step |-> "idle", got |-> Absent]]
    /\ settled = {}

StepTo(step) == runner' = [runner EXCEPT !.step = step]
Writes(d, n, f) == bundle' = [bundle EXCEPT ![d][n] = f]
SameRun == UNCHANGED <<mode, strategies>>
NoEvaluation == UNCHANGED <<eval, settled>>

\* The directory is new and holds a manifest without an end.
StartRun ==
    /\ runner.step = "start" /\ StepTo("case")
    /\ manifest' = [manifest EXCEPT !["run"] = Whole([completed |-> FALSE, sums |-> Absent])]
    /\ UNCHANGED <<outcomes, bundle, locators>> /\ SameRun /\ NoEvaluation

\* run_case never ends the run, whatever it raises.
RunCase ==
    /\ runner.step = "case" /\ StepTo("rows")
    /\ \E o \in CaseOutcomes : outcomes' = [outcomes EXCEPT ![Strategy] = Append(@, o)]
    /\ UNCHANGED <<manifest, bundle, locators>> /\ SameRun /\ NoEvaluation

\* Mutant: the file holds the newest row only.
WriteNewestRow ==
    LET row == RowsOf(Strategy)[runner.case] IN
    /\ runner.step = "rows"
    /\ Writes("run", Strategy, Whole(<<row>>))
    /\ StepTo(IF mode = "v11-agent" /\ Strategy = "fixed" THEN "twin" ELSE "locate")
    /\ UNCHANGED <<outcomes, manifest, locators>> /\ SameRun /\ NoEvaluation

\* All rows of the strategy so far replace the file.
WriteRows ==
    /\ runner.step = "rows"
    /\ Writes("run", Strategy, Whole(RowsOf(Strategy)))
    /\ StepTo(IF mode = "v11-agent" /\ Strategy = "fixed" THEN "twin" ELSE "locate")
    /\ UNCHANGED <<outcomes, manifest, locators>> /\ SameRun /\ NoEvaluation

WriteTwin ==
    /\ runner.step = "twin" /\ StepTo("locate")
    /\ Writes("run", "v11-agent", Whole(RowsOf("fixed")))
    /\ UNCHANGED <<outcomes, manifest, locators>> /\ SameRun /\ NoEvaluation

\* The locator names the file, the row and the digest of the prediction.
RegisterLocator ==
    LET row == RowsOf(Strategy)[runner.case] IN
    /\ runner.step = "locate" /\ StepTo("parts")
    /\ locators' = IF row.run /\ mode # "deterministic"
                   THEN [locators EXCEPT ![Strategy, runner.case] = IF row.full THEN "full" ELSE "short"]
                   ELSE locators
    /\ UNCHANGED <<outcomes, manifest, bundle>> /\ SameRun /\ NoEvaluation

WriteParts ==
    /\ runner.step = "parts"
    /\ Writes("run", Parts(Strategy), Whole(RowsOf(Strategy)))
    /\ runner' = CASE runner.turn < Len(strategies) -> [runner EXCEPT !.step = "case", !.turn = @ + 1]
                   [] runner.turn = Len(strategies) /\ runner.case < Cases
                        -> [step |-> "case", case |-> runner.case + 1, turn |-> 1]
                   [] OTHER -> [runner EXCEPT !.step = "finish"]
    /\ UNCHANGED <<outcomes, manifest, locators>> /\ SameRun /\ NoEvaluation

FinishManifest ==
    /\ runner.step = "finish" /\ StepTo("summary")
    /\ manifest' = [manifest EXCEPT !["run"] = Whole([completed |-> TRUE, sums |-> Absent])]
    /\ UNCHANGED <<outcomes, bundle, locators>> /\ SameRun /\ NoEvaluation

WriteSummary ==
    /\ runner.step = "summary" /\ StepTo("done")
    /\ Writes("run", "summary",
              Whole([stats |-> [s \in ToSet(strategies) |-> Summary(s)], scored |-> Absent]))
    /\ UNCHANGED <<outcomes, manifest, locators>> /\ SameRun /\ NoEvaluation

\* The process dies, or a write of a file or of a locator raises.
RunDies ==
    /\ runner.step \notin {"done", "dead"} /\ StepTo("dead")
    /\ UNCHANGED <<outcomes, manifest, bundle, locators>> /\ SameRun /\ NoEvaluation

RunOver == runner.step \in {"done", "dead"}

-----------------------------------------------------------------------------
(* The copy, the evaluation and the official report.  A person starts them *)
(* when the run is over (README of the repository, "evaluate").            *)

Run == <<runner, outcomes, locators>>

\* The directory is copied over what the copy holds already.
CopyBundle ==
    /\ RunOver /\ manifest["run"] # Absent /\ eval["copy"].step = "idle"
    /\ manifest' = [manifest EXCEPT !["copy"] = manifest["run"]]
    /\ bundle' = [bundle EXCEPT !["copy"] =
                    [n \in Names |-> IF bundle["run"][n] = Absent THEN @[n] ELSE bundle["run"][n]]]
    /\ settled' = settled \ {"copy"}
    /\ UNCHANGED <<eval, Run>> /\ SameRun

Evaluates(d, step, got) == eval' = [eval EXCEPT ![d] = [step |-> step, got |-> got]]

\* evaluate_run scores the predictions it finds; without any it leaves an empty report.
BeginEvaluate(d) ==
    LET rows == [s \in Strategies |-> bundle[d][s]] IN
    /\ RunOver /\ manifest[d] # Absent /\ eval[d].step = "idle"
    /\ IF \A s \in Strategies : rows[s] = Absent
       THEN Writes(d, "report", Torn) /\ UNCHANGED eval
       ELSE Evaluates(d, "report", Whole(rows)) /\ UNCHANGED bundle
    /\ settled' = settled \ {d}
    /\ UNCHANGED <<manifest, Run>> /\ SameRun

WriteReport(d) ==
    /\ eval[d].step = "report" /\ Writes(d, "report", eval[d].got)
    /\ Evaluates(d, "summary", eval[d].got)
    /\ UNCHANGED <<manifest, settled, Run>> /\ SameRun

\* The summary is read and written back with the scores; one that cannot be read raises.
UpdateSummary(d) ==
    /\ eval[d].step = "summary"
    /\ IF IsWhole(bundle[d]["summary"])
       THEN /\ Writes(d, "summary", Whole([Content(bundle[d]["summary"]) EXCEPT !.scored = eval[d].got]))
            /\ Evaluates(d, "sums", Absent)
       ELSE Evaluates(d, "idle", Absent) /\ UNCHANGED bundle
    /\ UNCHANGED <<manifest, settled, Run>> /\ SameRun

\* Only the files of the contract that exist now are summed; the twin is not one of them.
Summed(d) == {n \in Names \ {"v11-agent"} : bundle[d][n] # Absent}

SumFiles(d) ==
    /\ eval[d].step = "sums"
    /\ Evaluates(d, "manifest", Whole([n \in Summed(d) |-> bundle[d][n]]))
    /\ UNCHANGED <<manifest, bundle, settled, Run>> /\ SameRun

UpdateManifest(d) ==
    /\ eval[d].step = "manifest" /\ Evaluates(d, "idle", Absent)
    /\ manifest' = [manifest EXCEPT ![d] = Whole([Content(@) EXCEPT !.sums = eval[d].got])]
    /\ settled' = settled \cup {d}
    /\ UNCHANGED <<bundle, Run>> /\ SameRun

\* The report and the summary are written in place: what dies there leaves them torn.
EvaluateDies(d) ==
    /\ eval[d].step # "idle" /\ Evaluates(d, "idle", Absent)
    /\ \/ UNCHANGED bundle
       \/ eval[d].step = "report" /\ Writes(d, "report", Torn)
       \/ eval[d].step = "summary" /\ IsWhole(bundle[d]["summary"]) /\ Writes(d, "summary", Torn)
    /\ UNCHANGED <<manifest, settled, Run>> /\ SameRun

\* The upstream evaluator answers for the rows of the partition files it is given.
PartRows(d, s) == IF IsWhole(bundle[d][Parts(s)]) THEN Content(bundle[d][Parts(s)]) ELSE <<>>
CopyOfficialReport(d) ==
    /\ RunOver /\ manifest[d] # Absent
    /\ Writes(d, "official", Whole(PartRows(d, "fixed") \o PartRows(d, "adaptive")))
    /\ UNCHANGED <<manifest, eval, settled, Run>> /\ SameRun

BundleNext ==
    \/ StartRun \/ RunCase \/ WriteRows \/ WriteTwin \/ RegisterLocator \/ WriteParts
    \/ FinishManifest \/ WriteSummary \/ RunDies \/ CopyBundle
    \/ \E d \in Dirs :
         \/ BeginEvaluate(d) \/ WriteReport(d) \/ UpdateSummary(d) \/ SumFiles(d)
         \/ UpdateManifest(d) \/ EvaluateDies(d) \/ CopyOfficialReport(d)

BundleSpec == BundleInit /\ [][BundleNext]_bundleVars

-----------------------------------------------------------------------------
(* The readers.                                                            *)

HasSummary(d, s) == IsWhole(bundle[d]["summary"]) /\ s \in DOMAIN Content(bundle[d]["summary"]).stats
Stats(d, s)      == Content(bundle[d]["summary"]).stats[s]
Scored(d)        == Content(bundle[d]["summary"]).scored
Rows(d, s)       == IF IsWhole(bundle[d][s]) THEN Content(bundle[d][s]) ELSE <<>>
Official(d)      == Content(bundle[d]["official"])

\* The names the manifest sums still hold what they held.
SumsHold(d) ==
    LET sums == Content(manifest[d]).sums IN
    /\ sums # Absent
    /\ {"fixed", "summary"} \subseteq DOMAIN Content(sums)
    /\ \A n \in DOMAIN Content(sums) : bundle[d][n] = Content(sums)[n]

\* gate_run: the release gate of the deterministic run.
GatePasses(d) ==
    /\ manifest[d] # Absent /\ HasSummary(d, "fixed")
    /\ mode = "deterministic" /\ strategies = <<"fixed">>
    /\ SumsHold(d)
    /\ Stats(d, "fixed").cases = Cases /\ Stats(d, "fixed").completed = Cases
    /\ Scored(d) # Absent
    /\ IsWhole(bundle[d]["official"]) /\ Len(Official(d)) = Stats(d, "fixed").cases
    /\ Len(Rows(d, "fixed")) = Cases /\ \A c \in 1..Cases : Rows(d, "fixed")[c].full
    /\ Stats(d, "fixed").bad = 0

\* targeted_gate_run: of six cases, without sums and local scores.
TargetedPasses(d) ==
    /\ HasSummary(d, "fixed") /\ IsWhole(bundle[d]["fixed"]) /\ IsWhole(bundle[d]["official"])
    /\ Stats(d, "fixed") = [cases |-> Cases, completed |-> Cases, bad |-> 0, errors |-> 0, fallbacks |-> 0]
    /\ Len(Official(d)) = Cases
    /\ Len(Rows(d, "fixed")) = Cases /\ \A c \in 1..Cases : Rows(d, "fixed")[c].proj = "ok"

\* _load_paired_side: the copy belongs to the run and the official report to the copy.
SideLoads ==
    /\ manifest["run"] # Absent /\ manifest["copy"] # Absent
    /\ Content(manifest["run"]).completed = Content(manifest["copy"]).completed
    /\ IsWhole(bundle["run"]["fixed"]) /\ bundle["run"]["fixed"] = bundle["copy"]["fixed"]
    /\ Len(Rows("run", "fixed")) = Cases
    /\ IsWhole(bundle["copy"]["official"]) /\ Official("copy") = Rows("run", "fixed")
    /\ HasSummary("copy", "fixed")

\* paired_gate_run asks less of the baseline than of the candidate.
PairedPasses(label) ==
    /\ SideLoads /\ Scored("copy") # Absent
    /\ label = "candidate" =>
         /\ GatePasses("copy")
         /\ Stats("copy", "fixed").errors = 0 /\ Stats("copy", "fixed").fallbacks = 0

\* _load_frozen_run: what the API shows.
Served(d) ==
    /\ IsWhole(bundle[d]["summary"]) /\ manifest[d] # Absent /\ Content(manifest[d]).completed

\* evaluate_persisted_prediction finds one row of the run and its digest agrees.
Resolves(s, c) ==
    LET matches == {i \in 1..Len(Rows("run", s)) : Rows("run", s)[i].run /\ Rows("run", s)[i].case = c} IN
    /\ Cardinality(matches) = 1
    /\ \A i \in matches : locators[s, c] = IF Rows("run", s)[i].full THEN "full" ELSE "short"

-----------------------------------------------------------------------------
(* Properties.                                                             *)

\* Types of the state.
BundleTypeOK ==
    /\ runner \in [step : {"start", "case", "rows", "twin", "locate", "parts", "finish", "summary", "done", "dead"},
                   case : 1..Cases, turn : 1..Len(strategies)]
    /\ \A s \in Strategies : ToSet(outcomes[s]) \subseteq CaseOutcomes /\ Len(outcomes[s]) <= Cases
    /\ \A d \in Dirs : eval[d].step \in {"idle", "report", "summary", "sums", "manifest"}
    /\ \A s \in Strategies, c \in 1..Cases : locators[s, c] \in {"absent", "full", "short"}
    /\ settled \subseteq Dirs

\* The run ended by itself with all its cases, and everything the directory says was
\* computed from the rows that are there.
WholeRun(d) ==
    /\ runner.step = "done"
    /\ \A s \in ToSet(strategies) : Rows(d, s) = RowsOf(s) /\ Len(RowsOf(s)) = Cases
ScoresMatch(d) ==
    /\ Scored(d) = Whole([s \in Strategies |-> bundle[d][s]])
    /\ Official(d) = Rows(d, "fixed")

\* A run without a flaw, by what its cases came to.
Flawless == \A c \in 1..Cases : outcomes["fixed"][c].completed /\ outcomes["fixed"][c].proj = "ok"
                                  /\ outcomes["fixed"][c].bad = 0

\* The release gate passes exactly the flawless deterministic runs that were evaluated
\* to the end: no process that died in the run, in the report, in the summary or before
\* the sums lets a directory pass, and no evaluation that came to its end is refused
\* (gate_run, evaluate_run, _update_manifest_checksums).
GateIsExact ==
    \A d \in Dirs :
        /\ GatePasses(d) => WholeRun(d) /\ Flawless /\ ScoresMatch(d)
        /\ (/\ d \in settled /\ bundle[d]["official"] # Absent
            /\ mode = "deterministic" /\ WholeRun(d) /\ Flawless) => GatePasses(d)

\* What the other gates pass and the API shows is a run that reached its end, and a
\* paired comparison rests on scores of the predictions it froze (targeted_gate_run,
\* paired_gate_run, _load_frozen_run).
OnlyWholeRuns ==
    /\ \A d \in Dirs : TargetedPasses(d) \/ Served(d) => WholeRun(d)
    /\ \A label \in {"baseline", "candidate"} :
         PairedPasses(label) => WholeRun("run") /\ WholeRun("copy") /\ ScoresMatch("copy")

\* A locator, once written, finds its prediction for ever, whatever the run writes
\* next or wherever it dies; and a run that ended has one for every runtime run it
\* knows (register_replay_artifact, _prediction_for_runtime).
LocatorsResolve ==
    \A s \in Strategies, c \in 1..Cases :
        /\ locators[s, c] # "absent" => Resolves(s, c)
        /\ (runner.step = "done" /\ mode # "deterministic" /\ s \in ToSet(strategies) /\ outcomes[s][c].known)
             => locators[s, c] # "absent"

\* Nobody believes a bundle that is not whole, and what a locator names is there
\* (runner.run, evaluator, register_replay_artifact).
BundleConsistent == BundleTypeOK /\ OnlyWholeRuns /\ GateIsExact /\ LocatorsResolve
=============================================================================

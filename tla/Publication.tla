------------------------------- MODULE Publication ------------------------------
(***************************************************************************)
(* Passes over the notebooks of one publication: the report on the shared  *)
(* fee, or the handoffs from resource demand to the simulated 7999 market. *)
(* A pass runs the notebooks in order and is one process after another: it *)
(* reads, checks and writes step by step, ends at the first error, and may *)
(* be killed anywhere.  Meanwhile a source may be regenerated.             *)
(*                                                                         *)
(* The report's sources stay within the tolerances of its pinned numbers,  *)
(* and the demand and metering constants under data/7999 stay, so that a   *)
(* new version shows in a digest or a recomputation only.  A query that    *)
(* fails ends a pass where a kill does.                                    *)
(***************************************************************************)
EXTENDS ReportScripts, HandoffDemand, HandoffEquilibrium, HandoffSimulation

CONSTANTS Changing,     \* the sources regenerated
          MaxChanges,   \* bound on regenerations
          MaxKills      \* bound on kills

\* The blocks with their transactions, the execution traces, the endpoint.
HandoffSources == {"blocks", "traces", "rpc"}

Chains == {"report", "handoffs"}
Sources == [report |-> ReportSources, handoffs |-> HandoffSources]

ASSUME PublicationAssumption ==
  /\ Changing \subseteq ReportSources \cup HandoffSources
  /\ MaxChanges \in Nat
  /\ MaxKills \in Nat

Tables == [report   |-> ReportTables,
           handoffs |-> DemandTables \cup EquilibriumTables \cup SimulationTables]

\* Csv files of a pull that is under way.
Partials == [report   |-> {},
             handoffs |-> {"runtime_partial", "attribution_partial", "contiguous_bal_partial",
                          "sensitivity_partial"}]

\* Rows once queried stay; nobody looks for cut rows in the last two.
Caches == [report   |-> {},
           handoffs |-> {"refunds", "runtime_blocks", "attribution_blocks", "static_panel",
                         "rpc_blocks", "contiguous_bal"}]
uncovered == {"rpc_blocks", "contiguous_bal"}

Modes == [report |-> {"fresh", "reuse"}, handoffs |-> {"fresh", "default", "reuse"}]

handoffs(m) ==
  demand_and_glamsterdam(m = "fresh") \o equilibrium(m = "fresh") \o simulation(m)

program == [report   |-> [m \in Modes.report |-> report(m)],
            handoffs |-> [m \in Modes.handoffs |-> handoffs(m)]]

VARIABLES
  chain,        \* the publication
  disk,         \* of each file, whether it is there and what it is from
  anchor_rate,  \* the floor rate of the generic anchor
  mode,         \* of the pass
  at,           \* its next step, 0 when none runs
  made,         \* what the numbers the step at hand writes are from
  held,         \* the protected files as the script found them
  snapshot,     \* the upstream tables as the notebook found them
  outcome,      \* how the last pass ended
  steady,       \* whether no source changed since the pass began
  kills, changes

pass == <<mode, at, made, held, snapshot>>
vars == <<chain, disk, anchor_rate, pass, outcome, steady, kills, changes>>

-----------------------------------------------------------------------------
(* Reading.                                                                *)

exists(f) == disk[f].is # "none"
whole(f) == disk[f].is = "whole"

\* What a regenerated source is from: the results replay the workload there is.
regenerated(s, version) ==
  {<<s, version>>} \cup IF s = "results" THEN disk["workload"].from ELSE {}

\* Mutant: the generic anchor as it is.
baseline_anchor_generic == [rate |-> anchor_rate, from |-> disk["anchor"].from]

\* The 64-gas calibration, whatever rate the generic anchor is of.
baseline_anchor ==
  IF anchor_rate = 64
  THEN [rate |-> 64, from |-> disk["anchor"].from]
  ELSE [rate |-> 64, from |-> disk["by_rate"].from]

\* What a read takes: of the calibrations by rate, most scripts take only the
\* reference quantities, which come from the Glamsterdam anchor.
content(name) ==
  CASE name = "baseline_anchor" -> baseline_anchor.from
    [] name = "quantities" -> on(disk["by_rate"].from, {"glamsterdam"})
    [] OTHER -> disk[name].from

contents(names) == UNION {content(n) : n \in names}

readable(names) == \A n \in names \cap DOMAIN disk : exists(n)

\* Mutant: the numbers must be those of the publication to the last digit.
holds_exactly(check, taken) ==
  CASE check.is = "counted"   -> whole(check.file)
    [] check.is = "covers"    -> <<check.cache, cut_row>> \notin taken
    [] check.is = "same_rows" -> \A v, w \in on(taken, {check.one, check.other}) : v[2] = w[2]
    [] check.is = "as_in"     -> on(contents(check.reads), check.of) = on(disk[check.file].from, check.of)
    [] check.is = "published" -> \A v \in taken : v[2] <= 0
    [] check.is = "perhaps"   -> TRUE

\* Whether a check holds of what was read, and whether it may yet fail.
holds(check, taken) ==
  CASE check.is = "counted"   -> whole(check.file)
    [] check.is = "covers"    -> <<check.cache, cut_row>> \notin taken
    [] check.is = "same_rows" -> /\ versions(taken, check.one) = versions(taken, check.other)
                                 /\ \A v, w \in versions(taken, check.one) : v = w
    [] check.is = "as_in"     -> on(contents(check.reads), check.of) = on(disk[check.file].from, check.of)
    [] check.is = "published" -> ~\E v \in taken : drifted(v)
    [] check.is = "perhaps"   -> TRUE

unsure(check, taken) ==
  \/ check.is = "perhaps" /\ ~whole(check.file)
  \/ check.is = "published" /\ \E v \in taken : v[2] = cut_row /\ v[1] # "contiguous_bal"

passes(checks, taken) == \A c \in checks : holds(c, taken)
may_fail(checks, taken) == \E c \in checks : ~holds(c, taken) \/ unsure(c, taken)

-----------------------------------------------------------------------------
(* A pass.                                                                 *)

step == program[chain][mode][at]

Running(kind) == at > 0 /\ step.do = kind

Proceed ==
  /\ IF at = Len(program[chain][mode])
     THEN at' = 0 /\ outcome' = "verified"
     ELSE at' = at + 1 /\ outcome' = outcome
  /\ UNCHANGED <<chain, mode, steady, kills, changes>>

Stop(how) ==
  /\ at' = 0
  /\ outcome' = how
  /\ made' = {} /\ held' = <<>> /\ snapshot' = <<>>
  /\ UNCHANGED <<chain, anchor_rate, mode, steady, changes>>

\* An error: the process ends and the notebook run with it.
Fail == Stop("failed") /\ UNCHANGED <<disk, kills>>

Check(holding) ==
  \/ holding /\ Proceed /\ UNCHANGED <<disk, anchor_rate, made, held, snapshot>>
  \/ ~holding /\ Fail

BeginPass(m) ==
  /\ at = 0
  /\ mode' = m /\ at' = 1 /\ outcome' = "none" /\ steady' = TRUE
  /\ made' = {} /\ held' = <<>> /\ snapshot' = <<>>
  /\ UNCHANGED <<chain, disk, anchor_rate, kills, changes>>

SourceSnapshot ==
  /\ Running("source_snapshot")
  /\ snapshot' = [s \in {"results", "glamsterdam"} |-> disk[s]]
  /\ made' = {} /\ held' = <<>>
  /\ Proceed
  /\ UNCHANGED <<disk, anchor_rate>>

VerifySources ==
  /\ Running("verify_sources")
  /\ Check(\A s \in DOMAIN snapshot : disk[s] = snapshot[s])

Open ==
  LET taken == contents(step.reads) IN
  /\ Running("open")
  /\ \/ /\ readable(step.reads) /\ passes(step.checks, taken)
        /\ made' = taken
        /\ held' = [f \in step.protects |-> disk[f]]
        /\ Proceed
        /\ UNCHANGED <<disk, anchor_rate, snapshot>>
     \/ /\ ~readable(step.reads) \/ may_fail(step.checks, taken)
        /\ Fail

Add ==
  LET taken == made \cup contents(step.reads) IN
  /\ Running("add")
  /\ \/ /\ readable(step.reads) /\ passes(step.checks, taken)
        /\ made' = taken
        /\ Proceed
        /\ UNCHANGED <<disk, anchor_rate, held, snapshot>>
     \/ /\ ~readable(step.reads) \/ may_fail(step.checks, taken)
        /\ Fail

\* to_csv or write_text on the file itself.
Write ==
  /\ Running("write")
  /\ disk' = [disk EXCEPT ![step.file] = file(made)]
  /\ Proceed
  /\ UNCHANGED <<anchor_rate, made, held, snapshot>>

\* The same, of the rows of one cache.
Save ==
  /\ Running("save")
  /\ disk' = [disk EXCEPT ![step.file] = file(on(made, {step.file}))]
  /\ Proceed
  /\ UNCHANGED <<anchor_rate, made, held, snapshot>>

Unlink ==
  /\ Running("unlink")
  /\ disk' = [disk EXCEPT ![step.file] = missing]
  /\ Proceed
  /\ UNCHANGED <<anchor_rate, made, held, snapshot>>

\* Mutant: a table that is there is kept.
Derive_kept ==
  LET taken == contents(step.reads) IN
  /\ Running("derive")
  /\ \/ /\ ~exists(step.file)
        /\ readable(step.reads) /\ passes(step.checks, taken)
        /\ disk' = [disk EXCEPT ![step.file] = file(taken)]
        /\ made' = taken
        /\ Proceed
        /\ UNCHANGED <<anchor_rate, held, snapshot>>
     \/ /\ exists(step.file)
        /\ Proceed
        /\ UNCHANGED <<disk, anchor_rate, made, held, snapshot>>
     \/ /\ ~exists(step.file)
        /\ ~readable(step.reads) \/ may_fail(step.checks, taken)
        /\ Fail

Derive ==
  LET taken == contents(step.reads) IN
  /\ Running("derive")
  /\ \/ /\ step.again \/ ~exists(step.file)
        /\ readable(step.reads) /\ passes(step.checks, taken)
        /\ disk' = [disk EXCEPT ![step.file] = file(taken)]
        /\ made' = taken
        /\ Proceed
        /\ UNCHANGED <<anchor_rate, held, snapshot>>
     \/ /\ ~step.again /\ exists(step.file)
        /\ Proceed
        /\ UNCHANGED <<disk, anchor_rate, made, held, snapshot>>
     \/ /\ step.again \/ ~exists(step.file)
        /\ ~readable(step.reads) \/ may_fail(step.checks, taken)
        /\ Fail

\* Refunds are computed by the query with a rate the daily quantities give.
other_gross_delta_rate == {<<"other_rate", v>> : v \in versions(made, "blocks")}

\* The rows a pull starts from, and those it has when it is through: it asks
\* for nothing when none are missing.
found == LET there == {n \in DOMAIN step.earlier : exists(step.earlier[n])} IN
         IF there = {} THEN missing
                       ELSE disk[step.earlier[CHOOSE n \in there : \A k \in there : n <= k]]

asked == {<<step.cache, v>> : v \in versions(content(step.source), step.source)}
         \cup IF step.cache = "refunds" THEN other_gross_delta_rate ELSE {}

Resume ==
  /\ Running("resume")
  /\ IF found.is = "whole"
     THEN made' = made \cup found.from /\ UNCHANGED disk
     ELSE /\ made' = made \cup found.from \cup asked
          /\ disk' = [disk EXCEPT ![step.file] = file(found.from \cup asked)]
  /\ Proceed
  /\ UNCHANGED <<anchor_rate, held, snapshot>>

\* A temporary file renamed over the table.
Replace ==
  /\ Running("replace")
  /\ disk' = [disk EXCEPT ![step.file] = file(made)]
  /\ anchor_rate' = IF step.file = "anchor" THEN step.rate ELSE anchor_rate
  /\ Proceed
  /\ UNCHANGED <<made, held, snapshot>>

\* A manifest says which workload its tables are from.
Record ==
  /\ Running("record")
  /\ disk' = [disk EXCEPT ![step.file] = file(on(made, {"workload"}))]
  /\ Proceed
  /\ UNCHANGED <<anchor_rate, made, held, snapshot>>

\* The workload is rebuilt and its digest is that of a manifest.
Matches ==
  /\ Running("matches")
  /\ \/ /\ disk[step.file] = disk["workload"]
        /\ made' = made \cup disk["workload"].from
        /\ Proceed
        /\ UNCHANGED <<disk, anchor_rate, held, snapshot>>
     \/ disk[step.file] # disk["workload"] /\ Fail

\* What was computed here is what an earlier table has for the same cases.
Reproduce ==
  /\ Running("reproduce")
  /\ Check(agree(on(made \cup contents(step.reads), step.of), disk[step.file].from))

\* The protected files have the digests they had.
Unchanged ==
  /\ Running("unchanged")
  /\ Check(\A f \in DOMAIN held : disk[f] = held[f])

\* Mutant: a surface without its paths is taken as well.
cached_either == exists("surface") \/ exists("surface_paths")

cached == exists("surface") /\ exists("surface_paths")

\* A surface that is there is taken if it names the manifest's workload;
\* otherwise it is computed from the factorial tables on that workload.
SurfaceCache ==
  LET from_factorial == contents({"scenarios", "paths", "quantities", "workload"})
      expected == disk["factorial_manifest"].from IN
  /\ Running("surface_cache")
  /\ \/ /\ cached
        /\ on(disk["surface"].from, {"workload"}) = expected
        /\ at' = at + 3
        /\ made' = contents({"surface", "surface_paths"})
        /\ UNCHANGED <<chain, disk, anchor_rate, mode, held, snapshot, outcome, steady, kills,
                       changes>>
     \/ /\ ~cached
        /\ disk["workload"].from = expected
        /\ made' = from_factorial
        /\ Proceed
        /\ UNCHANGED <<disk, anchor_rate, held, snapshot>>
     \/ /\ IF cached THEN on(disk["surface"].from, {"workload"}) # expected
                     ELSE disk["workload"].from # expected
        /\ Fail

\* require_files, and the assertions on the number of rows.
Inspect ==
  /\ Running("inspect")
  /\ Check(/\ \A f \in step.files : exists(f)
           /\ \A f \in step.counted : whole(f))

\* The baseline rows of the factorial have the multiplier and the equilibrium
\* fees of the 64-gas calibration.
BaselineCell ==
  /\ Running("baseline_cell")
  /\ Check(/\ baseline_anchor.rate = 64
           /\ agree(baseline_anchor.from, on(disk["scenarios"].from, {"panels", "glamsterdam"})))

\* The calibration on disk is the one derived from the tables on disk.
DerivedCell ==
  /\ Running("derived_cell")
  /\ Check(/\ whole("calibration")
           /\ agree(contents({"quantities", "tail"}),
                    on(disk["calibration"].from, {"panels", "glamsterdam"})))

\* The central rows of a torn comparison may be there or not.
CentralCell ==
  /\ Running("central_cell")
  /\ \/ Check(whole("normalized"))
     \/ disk["comparison"].is = "torn" /\ Fail

\* Mutant: the manifests are there.
ManifestsCell_there ==
  /\ Running("manifests_cell")
  /\ Check(\A f \in step.files : exists(f))

\* The manifests name the workload this one names.
ManifestsCell ==
  /\ Running("manifests_cell")
  /\ Check(\A f \in step.files : disk[f] = file(disk[step.file].from))

Step ==
  \/ Write \/ Add \/ Open \/ Derive \/ Inspect \/ Resume \/ Save \/ Unlink
  \/ SourceSnapshot \/ VerifySources \/ Replace \/ Record \/ Matches \/ Reproduce \/ Unchanged
  \/ SurfaceCache \/ BaselineCell \/ DerivedCell \/ CentralCell \/ ManifestsCell

-----------------------------------------------------------------------------
(* What happens to a pass.                                                 *)

\* What a kill leaves of the file being written.
left_behind ==
  CASE step.do = "write" -> {torn(step.file, made)}
    [] step.do = "save" -> {torn(step.file, on(made, {step.file}))}
    [] step.do = "record" -> {torn(step.file, {})}
    [] step.do = "derive" ->
         IF (step.again \/ ~exists(step.file)) /\ readable(step.reads)
            /\ passes(step.checks, contents(step.reads))
         THEN {torn(step.file, contents(step.reads))} ELSE {}
    [] step.do = "resume" ->
         IF found.is = "whole" THEN {}
         ELSE {rows(found.from \cup asked)}
              \cup IF step.cache = "static_panel" THEN {}
                   ELSE {torn(step.cache, found.from \cup asked)}
    [] OTHER -> {}

Kill ==
  /\ at > 0
  /\ kills < MaxKills
  /\ kills' = kills + 1
  /\ \/ UNCHANGED disk
     \/ \E f \in left_behind : disk' = [disk EXCEPT ![step.file] = f]
  /\ Stop("killed")

\* Whether the step at hand looks at s: a change before another step would
\* make no difference.
looks_at(s) ==
  CASE step.do \in {"source_snapshot", "verify_sources"} -> s \in {"results", "glamsterdam"}
    [] step.do = "open" -> s \in step.reads \cup step.protects
    [] step.do \in {"add", "derive"} -> s \in step.reads
    [] step.do = "resume" -> s = step.source
    [] step.do \in {"matches", "surface_cache"} -> s = "workload"
    [] step.do = "reproduce" -> s \in step.reads \cup {step.file}
    [] step.do = "unchanged" -> s \in DOMAIN held
    [] OTHER -> FALSE

\* A source is regenerated, by other notebooks or by whoever serves it.
\* Bounds: during a pass it moves no pinned number, and no kill came before.
Regenerate(s) ==
  /\ s \in Sources[chain]
  /\ changes < MaxChanges
  /\ at > 0 => looks_at(s) /\ kills = 0
  /\ changes' = changes + 1
  /\ \E version \in {kept_within(changes + 1)}
                    \cup IF chain = "handoffs" /\ at = 0 THEN {drifted_by(changes + 1)} ELSE {} :
       disk' = [disk EXCEPT ![s] = file(regenerated(s, version))]
  /\ steady' = FALSE
  /\ UNCHANGED <<chain, anchor_rate, pass, outcome, kills>>

Init ==
  /\ chain \in Chains
  /\ disk = [f \in Tables[chain] \cup Partials[chain] \cup Sources[chain] |->
               IF f \in Sources[chain]
               THEN file({<<f, 0>>} \cup IF f = "results" THEN {<<"workload", 0>>} ELSE {})
               ELSE missing]
  /\ anchor_rate = 64
  /\ mode = "reuse" /\ at = 0
  /\ made = {} /\ held = <<>> /\ snapshot = <<>>
  /\ outcome = "none" /\ steady = FALSE
  /\ kills = 0 /\ changes = 0

-----------------------------------------------------------------------------
(* What stops a pass whatever it does.                                     *)

\* The sources as they are, and the rows the caches keep, with the rate they
\* were asked for with.
current ==
  (UNION {on(disk[s].from, {s}) : s \in Sources[chain]})
  \cup {v \in UNION {on(disk[c].from, {c, "other_rate"}) : c \in Caches[chain]} :
          v[2] # cut_row \/ v[1] \in uncovered}

Complete == \A f \in Tables[chain] : whole(f) /\ disk[f].from \subseteq current

lagging == chain = "report" /\ ~(disk["results"].from \subseteq current)

surface_obstructed ==
  /\ cached
  /\ \E f \in {"surface", "surface_paths"} :
       disk[f].is = "torn" \/ ~(disk[f].from \subseteq current)

\* A cache, or what a killed pull left, with rows that moved, a cut row, or
\* traces that are compared with those of now.
unusable(f) ==
  LET c == CASE f = "runtime_partial" -> "runtime_blocks"
             [] f = "attribution_partial" -> "attribution_blocks"
             [] f = "contiguous_bal_partial" -> "contiguous_bal"
             [] OTHER -> f
      compared == \/ f \in {"refunds", "runtime_partial", "attribution_partial"}
                  \/ f = "runtime_blocks" /\ ~exists("runtime_partial") IN
  /\ exists(f)
  /\ \E v \in disk[f].from :
       \/ drifted(v)
       \/ v[2] = cut_row /\ c # "contiguous_bal"
       \/ compared /\ v[2] \notin versions(disk["traces"].from, "traces") \cup {cut_row}

\* Those a fresh pass reads again instead of asking for.
kept == (Caches[chain] \cup Partials[chain]) \ {"attribution_blocks", "sensitivity_partial"}

obstructed ==
  \/ chain = "report" /\ surface_obstructed
  \/ chain = "handoffs" /\ \/ \E f \in kept : unusable(f)
                           \/ \E s \in Sources[chain] : \E v \in disk[s].from : drifted(v)

\* Files a pass cannot use are removed: nothing else does.
RemoveObstruction ==
  LET removed == IF chain = "report" THEN {"surface", "surface_paths"}
                                     ELSE {f \in kept : unusable(f)} IN
  /\ at = 0
  /\ obstructed /\ removed # {}
  /\ disk' = [f \in DOMAIN disk |-> IF f \in removed THEN missing ELSE disk[f]]
  /\ outcome' = "none"
  /\ UNCHANGED <<chain, anchor_rate, pass, steady, kills, changes>>

Next ==
  \/ \E m \in Modes[chain] : BeginPass(m)
  \/ Step
  \/ Kill
  \/ RemoveObstruction
  \/ \E s \in Changing : Regenerate(s)

Spec == Init /\ [][Next]_vars

\* A pass goes on, and whoever wants the publication runs the notebooks again.
LiveSpec == Spec /\ WF_vars(Step) /\ SF_vars(BeginPass("fresh"))

-----------------------------------------------------------------------------
(* Properties.                                                             *)

Ended(how, m) == at = 0 /\ outcome = how /\ mode = m

\* The default execution rebuilds the report, and a network refresh the
\* handoffs: whatever was on disk before, when the last notebook of a fresh
\* pass is through and no source was regenerated meanwhile, every table is
\* whole and is from the sources and the queried rows as they are
\* (notebook 01, run_stage; 01-data-processing, REFRESH_FROM_NETWORK).
FreshPassIsCurrent == Ended("verified", "fresh") /\ steady => Complete

\* A fresh pass over quiet sources stops for few reasons: the results replay
\* another workload, the surface left on disk is torn or of other sources, a
\* source moved the pinned numbers, or a cache has rows that did, that were
\* cut, or that no longer equal what is queried (run_elasticity_comparison,
\* run_elasticity_robustness, build_execution_repricing, exact_match).
FreshFailsForAReason ==
  Ended("failed", "fresh") /\ steady => lagging \/ obstructed

\* "inspect an existing complete run" (notebook 01), and a run on cached
\* inputs: neither stops on one, although the generic anchor on disk is the
\* 96-gas one by then.
ReuseOfACompleteRun ==
  at = 0 /\ outcome = "failed" /\ mode # "fresh" /\ steady => ~(Complete /\ ~obstructed)

\* The tables of the report that are compared by a manifest, with the tables
\* these are from.  Not fixed_central, written before the check after it.
Vouched == {"tail", "comparison", "surface", "surface_paths", "reselected",
            "normalized", "fixed_7999", "diagnostic", "capped", "summary"}

OneWorkload ==
  \A f \in Vouched : on(disk[f].from, {"workload"}) = disk["factorial_manifest"].from

\* The files each handoff is computed from.
fed ==
  [daily_resource |-> daily_panel_inputs, anchor_panel |-> anchor_panel_inputs,
   equilibrium_anchor |-> {"anchor_panel"}, elasticity_vectors |-> {"daily_resource"},
   glamsterdam_results |-> {"equilibrium_anchor", "elasticity_vectors"},
   metering_anchor |-> metering_inputs,
   demand_card |-> decomposition_inputs \cup {"equilibrium_anchor"},
   paired |-> bundle_inputs, capacity |-> bundle_inputs, frontier |-> bundle_inputs,
   inverse_300 |-> bundle_inputs, execution_elasticity |-> bundle_inputs,
   sensitivity |-> bundle_inputs, both_boundaries |-> bundle_inputs,
   boundary_elasticity |-> bundle_inputs,
   shocks |-> build_full_multiscale_workload,
   slot_candidates |-> {"slot_scenarios", "benchmark", "demand_card", "metering_anchor",
                        "elasticity_vectors"},
   parameter_candidates |-> {"sensitivity_fixed", "sensitivity_surface", "benchmark"}]

surface_inputs == {"demand_card", "metering_anchor"} \cup build_full_multiscale_workload
sensitivity_inputs ==
  specification_table \cup {"metering_anchor"} \cup build_full_multiscale_workload

simulated ==
  [design_surface |-> surface_inputs, slot_scenarios |-> surface_inputs,
   slot_fixed |-> surface_inputs, sensitivity_fixed |-> sensitivity_inputs,
   sensitivity_surface |-> sensitivity_inputs]

fed_by(inputs) == \A f \in DOMAIN inputs : disk[f].from = contents(inputs[f])

\* Whichever passes were killed and whichever sources regenerated: the tables
\* behind a verified comparison replay one workload (notebook 04, last cell),
\* and every handoff of a verified run is from what the files it is computed
\* from are from, but for the simulated tables a reusing run keeps.
VerifiedTablesAgree ==
  at = 0 /\ outcome = "verified" =>
    /\ chain = "report" => OneWorkload
    /\ chain = "handoffs" => fed_by(fed) /\ (mode # "reuse" => fed_by(simulated))

\* Rerunning the notebooks publishes, unless the results stay behind the
\* workload, a source stays moved or a file that cannot be used on disk.
RerunsPublish ==
  <>[](~lagging /\ ~obstructed) => <>(outcome = "verified" /\ mode = "fresh")
=============================================================================

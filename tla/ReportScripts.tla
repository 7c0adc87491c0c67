------------------------------ MODULE ReportScripts -----------------------------
(***************************************************************************)
(* The four notebooks of notebooks/one_dimensional_simulation and the      *)
(* scripts of scripts/shared_fee they run.  A pass rebuilds every table of *)
(* the report (fresh), or inspects those of an earlier pass (reuse,        *)
(* ONE_DIMENSIONAL_REUSE_OUTPUTS=1).  Tables that are written and only     *)
(* displayed are left out; those that are written and read together are    *)
(* one.                                                                    *)
(***************************************************************************)
EXTENDS PassSteps

\* panels: what the floor is calibrated on; glamsterdam: anchors and
\* elasticities; results: data/7999; workload: the panels of the 32 paths.
ReportSources == {"panels", "glamsterdam", "results", "workload"}

Manifests == {"factorial_manifest", "comparison_manifest", "robustness_manifest",
              "eip8372_manifest", "diagnostic_manifest", "capped_manifest"}

ReportTables == Manifests \cup
  {"floor_panel", "anchor", "by_rate", "baseline", "scenarios", "paths", "tail",
   "optimized", "comparison", "surface", "surface_paths", "reselected",
   "fixed_central", "calibration", "normalized", "fixed_7999", "diagnostic",
   "stresses", "capped", "summary"}

-----------------------------------------------------------------------------
(* The scripts.                                                            *)

build_floor_calibration ==
  <<open({"panels", "glamsterdam"}, {}), write("floor_panel"), replace_anchor(64)>>

sweep_floor_rates ==
  <<open({"floor_panel", "panels", "glamsterdam", "anchor"}, {}),
    replace_anchor(96), replace("by_rate")>>

run_optimized_factorial ==
  <<open({"by_rate", "workload"}, {}),
    write("scenarios"), write("paths"), record("factorial_manifest")>>

run_optimized_state_tail ==
  <<open({"scenarios", "quantities"}, {}), matches("factorial_manifest"),
    reproduce("scenarios", {}, ReportSources), write("tail")>>

build_optimized_comparison ==
  <<open({"tail", "results", "glamsterdam"}, {}), write("optimized")>>

run_elasticity_comparison ==
  <<open({"tail", "quantities", "results", "glamsterdam"},
         {"results", "glamsterdam", "tail", "factorial_manifest", "by_rate"}),
    matches("factorial_manifest"), reproduce("tail", {}, ReportSources),
    reproduce("results", {}, ReportSources), unchanged,
    write("comparison"), record("comparison_manifest")>>

\* The csv files of data/shared_fee.
shared_fee_tables ==
  {"anchor", "by_rate", "baseline", "scenarios", "paths", "factorial_manifest", "tail",
   "optimized", "comparison", "surface", "surface_paths", "reselected", "fixed_central",
   "summary"}

\* The two writes after the cache are those of a new surface; a cached one
\* goes straight to the row counts.
robustness(protects, comparing) ==
  <<open({}, protects), surface_cache, write("surface"), write("surface_paths"),
    inspect({}, {"surface", "surface_paths"}), write("surface"), write("surface_paths")>>
  \o comparing \o
  <<add({"comparison"}), write("reselected"), add({"results"}), write("fixed_central"),
    unchanged, record("robustness_manifest")>>

robustness_protects ==
  {"scenarios", "paths", "comparison", "factorial_manifest", "by_rate", "results"}

run_elasticity_robustness ==
  robustness(robustness_protects, <<reproduce("comparison", {}, ReportSources)>>)

run_eip8372_calibration ==
  <<open({"quantities", "tail", "glamsterdam"},
         shared_fee_tables \cup {"results", "glamsterdam"}),
    write("calibration"), matches("factorial_manifest"),
    reproduce("fixed_central", {"reselected"}, ReportSources \ {"panels"}),
    write("normalized"), add({"reselected"}), write("fixed_7999"),
    unchanged, record("eip8372_manifest")>>

diagnose_eip8372_state_utilization ==
  <<open({"normalized", "quantities", "workload"}, {"normalized"}),
    reproduce("normalized", {}, ReportSources), unchanged,
    write("diagnostic"), record("diagnostic_manifest")>>

run_eip8372_stresses ==
  <<open({"normalized", "fixed_7999", "quantities"}, {}), matches("eip8372_manifest"),
    write("stresses")>>

capped(writes) ==
  <<open({"quantities", "normalized"},
         shared_fee_tables \cup {"calibration", "normalized", "fixed_7999",
                                 "diagnostic", "stresses"}),
    matches("eip8372_manifest"), reproduce("normalized", {}, ReportSources),
    add({"tail", "fixed_7999"}), unchanged>> \o writes

run_eip8372_state_tail == capped(<<write("capped"), record("capped_manifest")>>)

-----------------------------------------------------------------------------
(* The notebooks.                                                          *)

\* Run the script, or only look whether its outputs are there; then count the
\* rows of those the notebook counts.
run_stage(m, script, outputs, of_whole) ==
  (IF m = "fresh" THEN script ELSE <<>>) \o <<inspect(outputs, of_whole)>>

baseline_simulation(m) ==
  <<source_snapshot>>
  \o run_stage(m, build_floor_calibration, {"floor_panel", "anchor"}, {})
  \o (IF m = "fresh" THEN <<open({"baseline_anchor", "workload"}, {}), write("baseline")>>
                     ELSE <<inspect({"scenarios"}, {}), baseline_cell>>)
  \o <<verify_sources>>

floor_adjusted_eip8368(m) ==
  <<source_snapshot>>
  \o run_stage(m, sweep_floor_rates, {"by_rate"}, {})
  \o run_stage(m, run_optimized_factorial,
               {"scenarios", "paths", "factorial_manifest"}, {"scenarios", "paths"})
  \o run_stage(m, run_optimized_state_tail, {"tail"}, {"tail"})
  \o run_stage(m, build_optimized_comparison, {"optimized"}, {})
  \o run_stage(m, run_elasticity_comparison, {"comparison", "comparison_manifest"}, {})
  \o run_stage(m, run_elasticity_robustness,
               {"surface", "surface_paths", "reselected", "fixed_central",
                "robustness_manifest"}, {"surface", "surface_paths"})
  \o <<verify_sources>>

floor_adjusted_eip8372(m) ==
  <<source_snapshot>>
  \o run_stage(m, run_eip8372_calibration,
               {"calibration", "normalized", "fixed_7999", "eip8372_manifest"}, {"normalized"})
  \o <<derived_cell>>
  \o run_stage(m, diagnose_eip8372_state_utilization,
               {"diagnostic", "diagnostic_manifest"}, {"diagnostic"})
  \o <<manifests_cell({"diagnostic_manifest"}, "eip8372_manifest")>>
  \o run_stage(m, run_eip8372_stresses, {"stresses"}, {"stresses"})
  \o run_stage(m, run_eip8372_state_tail, {"capped", "capped_manifest"}, {"capped"})
  \o <<verify_sources>>

comparison_with_7999 ==
  <<source_snapshot, inspect({"comparison", "normalized"}, {}), central_cell,
    open({"comparison", "normalized"}, {}), write("summary"),
    manifests_cell(Manifests, "factorial_manifest"), verify_sources>>

report(m) ==
  baseline_simulation(m) \o floor_adjusted_eip8368(m)
  \o floor_adjusted_eip8372(m) \o comparison_with_7999
=============================================================================

---------------------------- MODULE HandoffSimulation ---------------------------
(***************************************************************************)
(* The four notebooks of 7999_simulation and the scripts they run: demand  *)
(* shocks, target grid, slot-time scenarios, sensitivity.  m is how the    *)
(* pass runs: fresh asks the sources first, reuse keeps the simulated      *)
(* tables of an earlier pass (REUSE_7999_SIMULATION_OUTPUTS=1), and what   *)
(* is derived from them is computed by every pass.                         *)
(***************************************************************************)
EXTENDS PassSteps

SimulatedTables ==
  {"design_surface", "selected_settings", "slot_scenarios", "slot_fixed", "sensitivity_fixed",
   "sensitivity_surface"}

SimulationTables == SimulatedTables \cup
  {"contiguous_panel", "contiguous_bal", "shocks", "shock_manifest", "benchmark",
   "slot_candidates", "parameter_candidates"}

-----------------------------------------------------------------------------
(* 01-demand-shocks.                                                       *)

upstream_inputs == <<inspect({"current_data", "elasticity_vectors", "metering_anchor",
                              "demand_card"}, {})>>

build_contiguous_block_panel == <<derive("contiguous_panel", {"blocks"}, {})>>

\* Rows of a killed run are kept, a cut one too: what it lacks is filled with
\* zeros.
build_contiguous_runtime_bal ==
  <<read({}, {}),
    resume("contiguous_bal_partial", <<"contiguous_bal_partial">>, "contiguous_bal", "traces"),
    save("contiguous_bal"), unlink("contiguous_bal_partial")>>

\* Two files of primitives over the same blocks, two daily tables, the card.
\* The files are joined on what they share: the longest run of blocks is kept,
\* and the days that both tables have.
build_full_multiscale_workload ==
  {"contiguous_panel", "contiguous_bal", "current_data", "demand_card"}
workload_checks ==
  {counted("demand_card")}
  \cup {perhaps(f) : f \in {"contiguous_panel", "contiguous_bal", "current_data"}}

\* The manifest says which blocks, and is written last.
build_multiscale_demand_shocks ==
  <<inspect(build_full_multiscale_workload, {}),
    read(build_full_multiscale_workload, workload_checks),
    write("shocks"), write("shock_manifest")>>

\* The first and the last block of the run are pinned.
workload_handoff ==
  <<inspect({"shocks", "shock_manifest"},
            {"shock_manifest", "contiguous_panel", "contiguous_bal"})>>

demand_shocks(m) ==
  upstream_inputs
  \o (IF m = "fresh" THEN build_contiguous_block_panel \o build_contiguous_runtime_bal
                     ELSE <<>>)
  \o build_multiscale_demand_shocks \o workload_handoff

-----------------------------------------------------------------------------
(* 02-simulation-and-target-grid, 03-slot-time-allocation.                 *)

\* The shock tables are written again on the way.
run_multiscale_design_surface ==
  <<read({"demand_card", "metering_anchor"} \cup build_full_multiscale_workload,
         {counted("metering_anchor")} \cup workload_checks),
    write("shocks"), write("design_surface"), write("selected_settings")>>

\* 63 cells, and those the text quotes.
target_grid ==
  <<read({"design_surface", "demand_card", "metering_anchor"},
         {counted("design_surface"), counted("demand_card"), counted("metering_anchor"), published})>>

run_slot_time_scenarios ==
  <<read({"demand_card", "metering_anchor"} \cup build_full_multiscale_workload,
         {counted("metering_anchor")} \cup workload_checks),
    write("slot_scenarios"), write("slot_fixed")>>

build_historical_fee_market_benchmark == <<derive("benchmark", {"blocks"}, {})>>

add_central_equilibrium_fees == {"demand_card", "metering_anchor", "elasticity_vectors"}

\* A torn surface may still have rows enough for each tier; the tables are
\* written before they are counted.
summarize_slot_time_candidates ==
  <<read({"slot_scenarios", "benchmark"} \cup add_central_equilibrium_fees,
         {counted(f) : f \in {"benchmark"} \cup add_central_equilibrium_fees}
           \cup {perhaps("slot_scenarios")}),
    write("slot_candidates"), require({perhaps("slot_scenarios")})>>

\* The E300/D80 rows, that of three seconds taken from the target grid.
fixed_diagnostic ==
  <<read({"slot_scenarios", "design_surface"}, {perhaps("slot_scenarios"), perhaps("design_surface"), published})>>

simulate(m, script, outputs) ==
  IF m = "reuse" THEN <<inspect(outputs, {})>> ELSE script

simulation_and_target_grid(m) ==
  simulate(m, run_multiscale_design_surface, {"design_surface"}) \o target_grid

slot_time_allocation(m) ==
  simulate(m, run_slot_time_scenarios, {"slot_scenarios"})
  \o (IF m = "fresh" THEN build_historical_fee_market_benchmark
                     ELSE <<inspect({"benchmark"}, {})>>)
  \o summarize_slot_time_candidates \o fixed_diagnostic

-----------------------------------------------------------------------------
(* 04-sensitivity-analysis.                                                *)

\* Elasticities by window, intensities by share of the listed bytes.
specification_table == {"elasticity_vectors", "demand_card"}

\* The central rows are those of the scenarios.
validate_central_reproduction ==
  <<require({as_in(f, {"demand_card", "metering_anchor"} \cup build_full_multiscale_workload,
                   {"blocks", "runtime_blocks", "static_panel", "contiguous_bal"})
             : f \in {"slot_fixed", "slot_scenarios"}})>>

\* Written before its validation, and again after it.
run_fixed_design == <<write("sensitivity_fixed")>>

\* A file of what there is, for no later run to read.
run_one_at_a_time_surfaces == <<write("sensitivity_partial")>>

selection_tables == <<inspect({"benchmark"}, {"benchmark"})>>

run_slot_time_parameter_sensitivity ==
  <<read(specification_table \cup {"metering_anchor"} \cup build_full_multiscale_workload,
         {counted("elasticity_vectors"), counted("metering_anchor")} \cup workload_checks)>>
  \o run_fixed_design \o run_one_at_a_time_surfaces \o selection_tables
  \o validate_central_reproduction
  \o <<write("sensitivity_fixed"), write("sensitivity_surface"), unlink("sensitivity_partial")>>

make_slot_time_parameter_sensitivity ==
  <<read({"sensitivity_fixed", "sensitivity_surface", "benchmark"},
         {counted("benchmark"), perhaps("sensitivity_fixed"), perhaps("sensitivity_surface")}),
    write("parameter_candidates")>>

\* Eight rows, of the two calibration regimes.
two_regimes == <<read({"parameter_candidates"}, {perhaps("sensitivity_surface"), published})>>

sensitivity_analysis(m) ==
  simulate(m, run_slot_time_parameter_sensitivity, {"sensitivity_fixed", "sensitivity_surface"})
  \o make_slot_time_parameter_sensitivity \o two_regimes

simulation(m) ==
  demand_shocks(m) \o simulation_and_target_grid(m) \o slot_time_allocation(m)
  \o sensitivity_analysis(m)
=============================================================================

---------------------------- MODULE HandoffEquilibrium --------------------------
(***************************************************************************)
(* The three notebooks of 7999_equilibrium: metering anchor, demand card,  *)
(* bundle-priced equilibria.  Two caches of queried rows cover the same    *)
(* 6,000 blocks: runtime bytes per block, kept over runs, and their        *)
(* attribution to transactions, asked for again by every fresh run.        *)
(***************************************************************************)
EXTENDS PassSteps

EquilibriumTables ==
  {"daily_metering", "runtime_blocks", "static_panel", "metering_anchor",
   "attribution_blocks", "demand_card", "paired", "capacity", "frontier",
   "inverse_300", "execution_elasticity", "sensitivity", "both_boundaries",
   "boundary_elasticity"}

-----------------------------------------------------------------------------
(* 01-data-metering-runtime-bal.                                           *)

query_daily_data_metering == {"blocks"}

\* The partial csv of a killed run if there is one, else the panel itself.
refresh_runtime_blocks ==
  <<resume("runtime_partial", <<"runtime_partial", "runtime_blocks">>,
           "runtime_blocks", "traces"),
    require({covers("runtime_blocks")}),
    save("runtime_blocks"), unlink("runtime_partial")>>

\* The blocks' static data, checkpointed by build_rpc_static_data_panel.
refresh_metering ==
  <<derive("daily_metering", query_daily_data_metering, {}), read({}, {})>>
  \o refresh_runtime_blocks
  \o <<resume("static_panel", <<"static_panel">>, "static_panel", "rpc")>>

\* Without a refresh, from the exports of the first notebook if need be.
cached_metering == <<backfill("daily_metering", {"current_data"}, {})>>

metering_inputs == {"daily_metering", "runtime_blocks", "static_panel"}

\* 120 days, 50 blocks of each, their static data, no gaps.
joined_panel ==
  <<inspect(metering_inputs, {}), read(metering_inputs, {counted(f) : f \in metering_inputs})>>

\* Written before its published values are checked.
metering_anchor == <<write("metering_anchor"), require({published})>>

data_metering(refresh) ==
  (IF refresh THEN refresh_metering ELSE cached_metering) \o joined_panel \o metering_anchor

-----------------------------------------------------------------------------
(* 02-bal-decomposition.                                                   *)

\* Rows of a killed run are kept; every block must have the bytes of the
\* runtime panel.
build_bal_runtime_state_attribution ==
  <<read({}, {}),
    resume("attribution_partial", <<"attribution_partial">>, "attribution_blocks", "traces"),
    require({covers("attribution_blocks")}),
    also({"runtime_blocks"}, {counted("runtime_blocks"),
                              same_rows("attribution_blocks", "runtime_blocks")}),
    save("attribution_blocks"), unlink("attribution_partial")>>

decomposition_inputs == {"runtime_blocks", "attribution_blocks", "metering_anchor"}

exact_match ==
  <<inspect(decomposition_inputs, {}),
    read(decomposition_inputs,
         {counted("runtime_blocks"), counted("attribution_blocks"),
          same_rows("attribution_blocks", "runtime_blocks")})>>

\* The Glamsterdam anchor must have the published values, when it is there.
shared_anchor == <<also({"equilibrium_anchor"}, {published})>>

\* Written before its published weights are checked.
demand_card == <<write("demand_card"), require({published})>>

\* The response curves take the elasticities, which must be the published.
data_response == <<also({"elasticity_vectors"}, {published})>>

\* The sampled blocks, weighted by the daily counts, reproduce the anchor.
sampling_error ==
  <<also({"daily_metering"}, {counted("daily_metering"), as_in("metering_anchor", {"daily_metering"}, {"blocks"})})>>

bal_decomposition(refresh) ==
  (IF refresh THEN build_bal_runtime_state_attribution ELSE <<>>)
  \o exact_match \o shared_anchor \o demand_card \o data_response \o sampling_error

-----------------------------------------------------------------------------
(* 03-bundle-priced-equilibrium.                                           *)

bundle_inputs == {"metering_anchor", "demand_card", "elasticity_vectors"}

bundle_setup ==
  <<inspect({"metering_anchor", "demand_card"}, {}),
    read(bundle_inputs, {counted(f) : f \in bundle_inputs} \cup {published})>>

\* The intensities of the card follow from the anchor's runtime bytes.
card_agrees == <<require({as_in("demand_card", {"metering_anchor"}, {"runtime_blocks"})})>>

\* What solve_bundle finds depends on the setup cell's data only.
solved(f) == <<write(f)>>

paired_equilibria == solved("paired") \o <<require({published})>>
capacity_grid == solved("capacity")
published_frontier == <<require({published})>>
frontier_sensitivity == published_frontier \o solved("frontier")
minimum_data_target == <<require({published})>> \o solved("inverse_300")
execution_elasticity == <<require({published})>> \o solved("execution_elasticity")
\* Written before its row count and regimes are checked.
sensitivity_grid == solved("sensitivity")
both_boundaries == solved("both_boundaries")
boundary_elasticity == solved("boundary_elasticity")

\* The exports are read back and compared with the tables in memory.
exports_agree ==
  <<inspect({"paired", "frontier", "capacity", "sensitivity", "inverse_300",
             "execution_elasticity"},
            {"paired", "frontier", "capacity", "sensitivity", "inverse_300",
             "execution_elasticity"})>>

bundle_priced_equilibrium ==
  bundle_setup \o card_agrees \o paired_equilibria \o capacity_grid
  \o frontier_sensitivity \o minimum_data_target \o execution_elasticity
  \o sensitivity_grid \o both_boundaries \o boundary_elasticity \o exports_agree

equilibrium(refresh) ==
  data_metering(refresh) \o bal_decomposition(refresh) \o bundle_priced_equilibrium
=============================================================================

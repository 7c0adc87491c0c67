------------------------------ MODULE HandoffDemand -----------------------------
(***************************************************************************)
(* The four notebooks of resource_demand_and_glamsterdam_equilibrium: what *)
(* each reads, checks and writes, in order.  A fresh run                   *)
(* (REFRESH_FROM_NETWORK) asks the sources first; any run rebuilds the     *)
(* tables behind the caches.  Tables that are written and only displayed   *)
(* are left out; those that are written and read together are one, and the *)
(* two exports of current data gas are.                                    *)
(***************************************************************************)
EXTENDS PassSteps

\* What the queries ask: blocks, transactions and state diffs; execution
\* traces; the endpoint that replays sampled blocks.
query_daily_execution == {"blocks"}
query_daily_state_inventory == {"blocks"}
query_eip7976_daily == {"blocks"}
query_state_core_daily == {"blocks"}
execution_queries == {"traces"}

DemandTables ==
  {"event_panel", "current_data", "january_accounting", "rpc_blocks",
   "anchor_accounting", "refunds", "execution_repricing", "daily_resource",
   "anchor_panel", "equilibrium_anchor", "elasticity_vectors", "glamsterdam_results"}

-----------------------------------------------------------------------------
(* 01-data-processing.                                                     *)

refresh_daily_exports ==
  <<read(query_daily_execution \cup query_daily_state_inventory, {}),
    write("event_panel"), write("current_data"), write("january_accounting")>>

\* The sampled blocks, in the csv itself.
refresh_rpc_calibration ==
  <<resume("rpc_blocks", <<"rpc_blocks">>, "rpc_blocks", "rpc")>>

\* On the daily frame in memory, with floors and state from new queries.
build_calibrated_anchor ==
  <<add(query_eip7976_daily \cup query_state_core_daily)>> \o refresh_rpc_calibration
  \o <<also({"rpc_blocks"}, {}), write("anchor_accounting")>>

\* The sampled blocks are read again, each within a day of the anchor.
sampled_accesses == <<also({"rpc_blocks"}, {counted("rpc_blocks")})>>

\* The trace extracts cover every day.
extracted_counts == <<add(execution_queries)>>

\* Days the cache has are kept; then every day has its refunds, and the total
\* of the refund counters is that of the extracts, exactly.
refund_panel ==
  <<resume("refunds", <<"refunds">>, "refunds", "traces"),
    also({"refunds"}, {covers("refunds"), same_rows("refunds", "traces")})>>

build_execution_repricing ==
  sampled_accesses \o extracted_counts \o refund_panel \o <<write("execution_repricing")>>

source_files ==
  {"event_panel", "current_data", "january_accounting", "anchor_accounting",
   "execution_repricing"}

require_source_files == <<inspect(source_files, {})>>

\* Every day once, all quantities positive, the resources add up.
daily_panel_inputs == {"event_panel", "current_data", "january_accounting", "anchor_accounting"}
daily_panel ==
  <<derive("daily_resource", daily_panel_inputs, {counted(f) : f \in daily_panel_inputs})>>

\* 120 days without gaps, and the execution gas the repricing started from is
\* the anchor's.
anchor_panel_inputs == {"anchor_accounting", "current_data", "execution_repricing"}
anchor_panel ==
  <<derive("anchor_panel", anchor_panel_inputs,
           {counted(f) : f \in anchor_panel_inputs}
             \cup {as_in("execution_repricing", {"anchor_accounting"}, {"blocks", "rpc_blocks"})})>>

data_processing(refresh) ==
  (IF refresh
   THEN refresh_daily_exports \o build_calibrated_anchor \o build_execution_repricing
   ELSE <<>>)
  \o require_source_files \o daily_panel \o anchor_panel

-----------------------------------------------------------------------------
(* 02-metering-multipliers, 03-demand-model-elasticity,                    *)
(* 04-glamsterdam-equilibrium.  The published numbers are checked last.    *)

multipliers ==
  <<derive("equilibrium_anchor", {"anchor_panel"}, {counted("anchor_panel")})>>

published_multipliers == <<require({published})>>

elasticity_windows ==
  <<derive("elasticity_vectors", {"daily_resource"}, {counted("daily_resource")})>>

published_elasticities == <<require({published})>>

glamsterdam_inputs ==
  <<read({"equilibrium_anchor", "elasticity_vectors"}, {counted("elasticity_vectors")})>>

\* The fees that clear the targets depend on the anchor and the vectors only.
solve_glamsterdam == <<write("glamsterdam_results")>>

published_fees == <<require({published})>>

demand_and_glamsterdam(refresh) ==
  data_processing(refresh) \o multipliers \o published_multipliers
  \o elasticity_windows \o published_elasticities
  \o glamsterdam_inputs \o solve_glamsterdam \o published_fees
=============================================================================

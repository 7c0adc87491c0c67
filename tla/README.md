# A verification project for eip-7999-research

The repository compares fee mechanisms for Ethereum: one EIP-1559 fee on a
bottleneck, separate EIP-7999 fees per resource, and mixtures of the two, driven
by demand calibrated on collected block data.  This directory holds TLA+ modules
that model the parts of it that have state, the TLC runs that check them on small
instances, and TLAPS proofs about them for every instance.

## 1. The system

| component | state it keeps | operations | what makes it correct |
|---|---|---|---|
| `basefee/` | none | `update_eip1559_base_fee`, `update_normalized_excess_gas`, `compute_base_fee`, `excess_gas_for_base_fee`, the reserve | the fake exponential ends and is monotone, the warm start inverts it, the reserve and its reported threshold agree |
| `mechanisms/full_7999` | per resource an excess and the fee of the next block | `initialize_mechanism_states`, `step_full_7999`, `replay_full_7999` | parent and next state are never confused; a block moves fees the way its usage says and no further than a valid block could |
| `mechanisms/glamsterdam_only` | one fee | `replay_glamsterdam_only` | as above, on the larger of execution and state gas |
| `mechanisms/bandwidth_7999_state_8037` | one EIP-1559 fee, one excess and fee | `replay_bandwidth_7999_state_8037` | the two resources are independent |
| `scripts/build_rpc_static_data_panel.py` with `sim/rpc_static_data.py` | checkpoints, output and summary on disk; a run's chunk and thread pool in memory | load, fetch, checkpoint, finalise | whatever is killed, what the disk says is true and a rerun only does what is missing |
| `dynamics/full_7999`, `allocation`, `demand` | the mechanism's, one row per block | `run_driven_full_7999`, three inclusion rules | inclusion respects limits, fills them when it rations and cuts bundles as a whole |
| `dynamics/batched_replay`, `glamsterdam_replay`, `metrics` | batches of the above, running sums | `run_batch`, `run_glamsterdam_batch`, `OnlineSummary.update` | a batch moves as the scalar replay, but for the rounding of one fee; the stream says what the history would |
| `shared_fee/` controllers and replay | fee or excess, a cache of fee thresholds, accumulators | `run_controller_batch`, `run_ratio_batch`, `run_shared_fee_batch`, `ExactExponentialFees` | cached fees are exact; the measured window adds up; int64 never wraps |
| `shared_fee/` floors, panel | tables | `floor_accounting`, `build_transaction_floor_panel` | the floors of the panel are the floors of the definitions |
| `sim/rpc_bal`, `sim/rpc_state_growth` | a list under construction | a block access list and the state growth from traces | the list replays to the executed block, the growth is what was created |
| `sim/xatu_*`, `sim/bal_carrier_panel` | tables | runtime meter, attribution, refund recovery, receipt decomposition | nothing refused, nothing counted twice, two derivations of a number agree |
| `scripts/` pulls and builders (`pull_*`, `build_bal_carrier_panel`, `build_contiguous_runtime_bal`, `build_bal_runtime_state_attribution`) | part files, markers, partial csvs, outputs | query, cache, resume, publish | a kill costs the chunk in flight and never the truth of a panel; an incomplete answer is not published |
| `notebooks/one_dimensional_simulation` and the scripts of `scripts/shared_fee` it runs | the tables and manifests of the report | four notebooks, eleven scripts; build (`ONE_DIMENSIONAL_REUSE_OUTPUTS` unset) or inspect | a verified report is from one workload and one state of its sources, and rerunning makes one |
| `sim/replay` (toy) | one fee, one excess | `replay` | not modelled |
| `resources/`, `glamsterdam/`, `bandwidth_limits/`, `state_limits/`, `demand/` | none | pure accounting and curves | closed forms; `glamsterdam/calldata_floor` is modelled |
| `notebooks/resource_demand_and_glamsterdam_equilibrium`, `7999_equilibrium`, `7999_simulation` and the scripts they run | handoff tables, caches of queried rows, partial csvs | eleven notebooks; ask the sources (the `REFRESH_...` switches), run on cached inputs, or keep the simulated tables (`REUSE_7999_SIMULATION_OUTPUTS`) | every handoff of a verified run is from the files it is said to be computed from; a refresh leaves nothing of before; an interrupted one can be finished |
| `reproducibility/`, figures | none of their own | run the above | outside the model |

How they interact.  A replay is a fold: a mechanism's `initial_states` warm-starts
the fees, and each block is handed the state the last one left.  The driven replay
puts a feedback loop around it (fees -> demand -> inclusion -> usage -> fees); the
shared-fee controllers are their own fold.  All of it is sequential.  The data the
folds run on comes from collectors that are not: they query endpoints from thread
pools, retry, are killed and rerun, and communicate between runs only by the
files they left.

What is hard.  Off-by-one-block timing; integer truncation in every updater, which
stalls fees and reserves in places; a switch (the reserve) in the middle of an
update rule; inversion of a step function; partial failure of a pool; crashes
between two renames and inside files written in place; caches shared by many
replays; numbers derived twice, from sources (traces, receipts, diff tables) that
show different parts of one execution.  `PROJECT.json`
lists each hazard at its line with the properties that watch it.

## 2. Modules

| module | models | plays |
|---|---|---|
| `FeeMath` | `basefee/` | operators both updaters are made of; loops are recursive functions, so that they can be proved about |
| `PricedResource` | the promise of one limited EIP-7999 resource | abstract specification: the fee is a function of the excess, which moves by no more than an empty block lowers and a full block raises it |
| `Full7999` | `mechanisms/full_7999.py`, `configs.py`, `_common.py` | state `excess_gas`, `base_fee`, `result`; one action, `Step`, per block |
| `GlamsterdamOnlyConfig` | the configuration of the baseline | constants and assumptions that `GlamsterdamOnly` and `MechanismA` share |
| `GlamsterdamOnly` | `mechanisms/glamsterdam_only.py` | state `base_fee`, `result`; one action |
| `MechanismA` | `mechanisms/bandwidth_7999_state_8037.py` | two resources; refines `GlamsterdamOnly` and `PricedResource` |
| `StaticDataPanel` | the panel builder and the batch fetcher it calls | files, phase of the process, chunk and pool; an action per call that changes state, and `Crash` |
| `Scaling`, `Allocation` | `dynamics/allocation.py` | the float product of a limit ratio, and the three inclusion rules |
| `DrivenReplay` | `dynamics/full_7999.py` | extends `Full7999`: a block's usage is an offer, quantised and cut by a rule |
| `FloatFee` | `update_base_fee_1559` of `dynamics/glamsterdam_replay.py` and of `shared_fee/replay.py` | the EIP-1559 step with a rounded quotient, and how the moved fee relates to the reference |
| `OnlineSummary`, `BatchedReplay` | `dynamics/batched_replay.py`, `glamsterdam_replay.py` | one trajectory of a batch, its summary, and the history the code does not keep |
| `SharedFee` | `shared_fee/excess_update.py`, `normalized_state*.py`, `target_ratio.py`, `replay.py`, `sim/basefee.py` | a batch of replays under one of three kernels; one action per block and kernel |
| `CachedPull` | the six resumable pulls of `scripts/` | files, phase of the process; kills inside and between writes |
| `TracedBlock` | nothing in the repository: the client and the tables the code reads | the execution of one block, with what its traces, receipts and diff tables show |
| `AccessList` | `sim/rpc_bal.py` | the list built from `TracedBlock` |
| `StateGrowth` | `sim/rpc_state_growth.py`, `xatu_state_growth.py`, `xatu_glamsterdam.py` | three counts of created state |
| `RuntimeMeter` | `sim/xatu_bal_8279.py` | counts to bytes, bytes to state |
| `RefundRecovery` | `sim/xatu_refunds.py`, `xatu_refund_full.sql` | the enumeration, the closed form, the refund cap inverted |
| `TransactionGas` | `sim/bal_carrier_panel.py`, `shared_fee/floor_accounting.py`, `panel.py`, `glamsterdam/calldata_floor.py` | the accountings of one receipt |
| `MeteredBlock` | the queries that feed the four above | composes them over one `TracedBlock` |
| `PassSteps` | what cells and scripts are made of | a file as what its numbers are from; the kinds of step and of check |
| `ReportScripts` | the report's four notebooks and eleven scripts | each as a sequence of such steps |
| `HandoffDemand`, `HandoffEquilibrium`, `HandoffSimulation` | the eleven handoff notebooks and their scripts | the same |
| `Publication` | passes over the two chains of notebooks | an action per kind of step, kills, regenerated sources, leftovers |
| `PublicationFacts` | the scripts of both chains once more | what each step finds read, written and removed by the steps before it: the facts the proofs use, evaluated by TLC in the run `publication` |
| `PublicationInvariant` | | what the passes over both chains keep, which the proofs show |
| `FeeMathProofs` | | facts about the operators, and that recursive functions on the naturals exist |
| `Full7999Proofs` | | theorems about `Full7999` and `DrivenReplay` |
| `MechanismAProofs` | | theorems about `GlamsterdamOnly` and `MechanismA` |
| `PublicationProofs` | | theorems about `Publication` and, as its last part, about `StaticDataPanel`, whose panel is one of the caches the notebooks read (its definitions are named apart, `PanelSpec`, for that reason) |
| `CachedPullProofs`, `SharedFeeProofs`, `BatchedReplayProofs` | | theorems about the specification each is named after |
| `MeteringProofs` | | theorems about the operators of `RuntimeMeter`, `RefundRecovery` and `TransactionGas`, and about the executions of `MeteredBlock` |

Correspondence.  `result` is the last row a replay appended; it makes the history
a property needs (`FeesFollowUsage`, `ReserveRowAgrees`) part of the state.  A row's
ratios, byte counts, block number and timestamp are left out.  The blob fee of
a block is always given: the code refuses a block without one when the reserve is on
and ignores it otherwise.  The seed of the bisection in `excess_gas_for_base_fee` is
a floating-point logarithm in the code and 1 in the model: both are doubled until
they reach the fee, and the bisection then returns the least excess
(`WarmStartExcess` proves this for the model's seed; the argument does not use
which seed it is).

In `StaticDataPanel` a part is the set of blocks whose rows it holds and a manifest
the set it lists, so `parts[n] = manifests[n]` says a checkpoint is what it claims.
Both are written to a temporary file and renamed, so each write is one action; what
can come between two of them is `Crash`.  The chunk a run takes next is any subset
of the right size, as an input may list its blocks in any order.  The pool is
explicit: a block is queued, running, ok or failed, and each attempt ends with
success or failure.  That rows of one chunk may turn out to be duplicates is a
nondeterministic failure of `BatchReturns`.  pandas and pyarrow are external:
that a part without rows has a schema of its own, and that a `ParquetWriter`
refuses it, is modelled as `has_rows` and `one_schema`.

`DrivenReplay` and `BatchedReplay`.  Demand is a float; the models take any bundle
of a small set, quantised as the code quantises it.  A float product that is exactly
a whole number may come out just under it, and the floor that follows then loses
one: `Scaling!scaled_floor` takes that as an argument (`loses`), chosen by every
block.  A trajectory of a batch is one behaviour, since trajectories do not
interact; `history` is the path that the code retains in stress runs only, kept here in
every replay so that the stream can be compared with it.  The excess of a batch is
a logarithm in the code and a pair (launch fee, moved gas) in the model.  The
exponential of a batch is a double, `PRECISION` its 53 bits; `PrecisionAssumption`
asks that this is not coarser than the update fraction, which has 32 bits in the code
(4,245,093,508), so that an excess of less than one wei's worth is still told from
none.

`FloatFee`.  The EIP-1559 rule of Glamsterdam's batch and of the shared-fee replay is
`floor(base_fee * (|gap| / (target * 8.0)))` in float64: it divides before it
multiplies, two operations round, and the floor can be one less (or, where the
product is rounded up to a whole number, one more) than the reference's, which
multiplies integers first.  The module floors the exact step times
`1 + error / FLOAT_UNIT` for any whole `error` within `FLOAT_ERROR` either way, and a
block of a replay takes any of these roundings.  That admits every error float64 has
(under 2^-51 of the step, while fee and gas are integers it holds exactly) and some it
has not: small fees that need no rounding are rounded here too.
`BatchedReplay`'s normalised update also divides in float64; that distance is exact
in the model, which is so over round limits and targets and may not be over those
`run_fixed_data_limit_sweep` interpolates, which are left out.

`SharedFee`.  The integer register is `INT_MAX`; what would exceed it is a wrapped
product and what the guards refuse ends the replay with their exception.  The
thresholds of a denominator are one sequence shared by all replays of the batch, as
in `ExactExponentialFees`.  The continuous controller, a float fee, is left out.

`CachedPull`.  The six scripts share one skeleton and differ in what they write and
how: `Hashed` pulls write a part per chunk named by a hash of its blocks, `Marked`
ones a second file beside it, the `InPlace` ones rewrite one csv.  A chunk is its
set of blocks.  A write to a temporary file that is renamed is one action; a write
in place has a second outcome, `KilledIn...`, that leaves a prefix.  What of a cut
csv row still parses is nondeterministic (`damaged`).  The database may answer a chunk
without some of its blocks, or without some transactions of a block (`lacking`).  Only
the carriers look before they cache an answer; the transaction inputs and the runtime
components compare what they have cached with a reference just before they publish
(`Compared`, `differs`), and the attribution reconciles its sums then
(`unreconciled`); the other two never do.  An answer never has more than it should.

`TracedBlock` executes one block on four accounts and two slots: transactions of
stores, calls with and without value, creates, self-destructs and authorizations,
any of which may sit in a frame that reverts, in a transaction that may fail,
followed by withdrawals.  It exists to feed the metering code, and gas prices only
what that code reads.  `diff_pre` and `diff_post` leave out what a diff tracer leaves
out (unchanged fields, cleared slots in the post-state, zero slots in the pre-state),
and the tables record what the queries filter on.

`Publication` runs one of two programs, each a sequence of some hundred steps: the
report, and the handoffs.  A step is one read, check or write of a script or a cell;
`ReportScripts` and the `Handoff...` modules write the scripts down as sequences of
them, and `Publication` has an action per kind (`Open`, `Write`, `Matches`,
`Resume`, ...).  A file is a set of versions, of the sources and of the cached rows,
that its numbers are from; a recomputation agrees with a table when both used the
same versions of what they share, a digest when the versions are equal, and queried
rows are equal when their versions are.

- A write in place has the outcome of a kill in the middle of it (`torn`), a renamed
  one has not.  A torn file lacks rows, and its last one may have lost columns
  (`cut_row`), which go into what is computed from it.  What a cell checks of that
  is written with the cell: `counted`, `covers`, `same_rows`, `as_in`.  The demand
  shocks, for one, are built from whatever blocks two panels share, and only the
  pinned first and last block of the manifest show that rows were missing.
- A pull (`resume`) asks for the rows its csv does not have and keeps those it has,
  of whatever version.  Chunks are not told apart here; `CachedPull` does that.
- A source may be regenerated so that the pinned numbers stay within their
  tolerances (odd versions) or so that they move (even ones, between passes of the
  handoffs only): `published` checks find the latter.  A cut row may or may not move
  a pinned number, and a file without some of its rows may or may not satisfy a
  check that quotes a few of them (`perhaps`).
- What a script reads is read where it opens; a source may be regenerated before any
  step that looks at one, which is as good as anywhere.
- Left out: tables that nothing reads, figures, checks of a computation against
  itself, the frozen exports of the first notebooks that the equilibrium may fall
  back on, and, for the report, the demand and metering constants under `data/7999`,
  which stay as they are.  A query that fails ends a pass where a kill does.
- Only the user removes a file that no pass can use (`RemoveObstruction`): a torn or
  outdated surface, a cache with rows that were cut or no longer equal what is
  queried.

Definitions named `<definition>_<fault>` and commented "Mutant" are the definition
with one bug.  Each property of each passing run is violated by one of them.


## 3. Runs

| run | asks | size |
|---|---|---|
| `full_7999` | a replay of the full mechanism: warm start, rows, reserve, refinement of `PricedResource`; does the reserve always switch itself off again | 1592 states |
| `mechanism_a` | refinement of the baseline and of `PricedResource`; where does a run of empty blocks end | 2493 states |
| `static_data_panel` | the checkpoints under crashes, failures and changing arguments; does a run end | 36099 states |
| `static_data_panel_empty_chunk` | can every complete panel be combined: no | violation |
| `shared_fee` | the cache, the measured window, inclusion and the register under three kernels | 33913 states |
| `driven_replay` | the three inclusion rules in the replay | 7015 states |
| `driven_replay_execution_cap` | does the parent rule reach a binding execution limit: not always | violation |
| `batched_replay` | stream against history, batch against the scalar rules and updaters | 56823 states |
| `cached_pulls` | six pulls under kills, failures, incomplete answers, growing inputs and changed arguments | 96602 states |
| `cached_pull_zeros` | are published zeros genuine: not after every kill | violation |
| `metered_block` | one block through all metering paths | 39860 states |
| `publication` | what a verified report and verified handoffs stand for, after kills and regenerated sources; do reruns publish | 749331 states |

What they show, beyond the properties' own comments.

- `shared_fee`: a cached fee is the exact one on both sides of the cache's bound,
  after any order of growth by other replays; the excess at the start of the window,
  the shared gas, the reflection at zero and the excess at the end add up.  The
  register is small (`INT_MAX` 365) so that fees reach the guards.  The int64 fee moves
  exactly as the reference until it leaves the register.  The float fee does not
  (`UpdatersAgree`): from 49 wei, a target of 49,000,000 and 41,000,000 used, the
  rounded quotient is 1/49, 49 times it is 0.9999999999999999, and the fee stays
  at 49 where the reference gives 48.  What does hold, whatever the rounding: the fee is
  never moved the wrong way nor under one wei, it rises over target by a wei at
  least, it is a wei off at most while the rounding of the step is under one, and it is
  the reference's unless the exact step is nearer to a whole number than that.
- `driven_replay`: nothing is included beyond an offer or a limit, what is rationed
  is full, and a bundle keeps its proportions up to the two floors.
- `batched_replay`: sums, runs and counts of the stream are those of the
  history, with the fees that were in force; the prices demand answers to lag one
  block; a batch's excess moves exactly as the integer reference moves it by the
  normalised update, reflected at the excess of one wei.  Glamsterdam's fee moves by
  EIP-1559 only up to the rounding of its quotient, as above: the docstring
  "EIP-1559 base-fee update, reproducing the reference integer arithmetic."
  (`glamsterdam_replay.py:45`) is right about the successive floors and not about the
  grouping, and `MovesAsTheReference` says what is left of it.
- `cached_pulls`: `RerunsComplete` is about the pulls that rename every file.  They
  finish however often they were killed, failed or were answered without whole blocks,
  as long as no cached answer lacks anything else.  An answer without some transactions
  of a block is found by its name or its blocks and never asked for again
  (`spoiled`): the transaction inputs then publish nothing any more
  (`pull_transaction_inputs.py:130`), and the runtime components, which also cache an
  answer without whole blocks, refuse until they are run with another chunk size
  (`pull_runtime_components.py:110` and `:114`).  Only removing the part helps
  otherwise, and nothing says so.  What such a cache holds is not published
  (`PanelsHaveNoGaps`), nor by the carriers or the attribution.  The property
  claims nothing of `execution_components`, whose marker is written in place and
  which publishes lacking rows, nor of the two that keep a partial csv:
  the contiguous pull publishes what it was answered.
- `metered_block`: the access list replays to the world after every transaction
  and withdrawal, but for four blind spots the property names: code a delegation
  clears, code a failing transaction's delegation sets, the fee of a failing
  transaction whose sender is the fee recipient, and the middle ones of three
  withdrawals to an account (`latest_balance` takes the first of equal indices).
  Growth counted from the traces and from the tables differs only by accounts that
  begin with a failing transaction's tip.  `RefundsAreRecovered` compares the SQL's
  closed form with Python's enumeration, also where several combinations explain a
  counter.  `AccountingsAgree` shows where the floor panel departs from the carrier
  panel: a transaction without runtime bytes has its state gas counted as execution.
- `publication`, the report: a fresh pass over quiet sources rebuilds every table from them, and
  stops only if the results replay another workload or a surface is left that it
  cannot use; reuse never stops on a complete run; and whatever happened, the
  tables the notebooks compare by a manifest are of one workload.  Two things are
  outside these properties because the code does not check them: the baseline,
  the comparison's inputs and the other tables not in `Vouched` may be of
  another workload than the manifests when a fresh pass was killed inside the
  factorial; and a surface torn by a kill is taken for complete by every later run,
  which then fails on it until the user removes it (`obstructed`).
  With results that catch up and the surface out of the way, fresh passes publish in
  the end, whatever the earlier ones left behind.
- `publication`, the handoffs: a refresh over quiet sources leaves every table whole
  and from the sources and queried rows as they are; a run on cached inputs never
  stops on a complete set; and every handoff of a verified run is from what the files
  beside it are from, the simulated tables of a reusing run excepted.  Three things
  are outside because nothing in the notebooks looks for them.  Rows that a kill cut
  in the block sample or in the contiguous runtime bytes are used (`uncovered`; the
  latter is the finding of `cached_pull_zeros`).  Days of refunds cached under an
  older daily panel keep the rate they were computed with (`other_rate`).  And rows
  of caches that survive a change of the traces stop every refresh until they are
  removed (`unusable`).

Bounds.  The mechanisms are run with limits of 4 to 60 gas instead of millions and
a fee curve scaled to match (`BASE_FEE_UPDATE_FRACTION` 17 or 5), so that a few
blocks cross every branch: under, at and over target, over the limit, excess clamped
at zero, reserve on, off and switching in both directions, and fees whose curve
skips values.  In `Full7999.cfg` the minimum fee is 20 rather than 1: with a small
minimum a short curve has so few distinct fees that the reserve switches only once.
`MaxExcess` and `MaxBaseFee` cut a replay off where fees leave the
interesting range; every branch is taken below them.  The panel has four blocks,
one of them without transactions, three growing inputs, chunks of one and three,
one or two workers and two attempts: enough for three checkpoints, for a crash in
every window, for a rerun with other arguments and for a pool that fails with
blocks queued and running.  The pulls have four blocks, chunks of one and two,
quotas that stop a run early or not, two settings and two mishaps (`MaxMishaps`): a
second kill after the recovery from a first, or a kill after an incomplete answer.
The replays of `SharedFee` and
`BatchedReplay` are three and four blocks with one of burn-in (`n_blocks`,
`burn_in`): a block before, at and after the start of the window.  The rounding of
the float fee is at most a thousandth of a step (`FLOAT_UNIT` 1000, `FLOAT_ERROR` 1)
instead of 2^-51: enough for a wei too many and too few at the fees of the runs (1, 3
and 360 against a target of 5; 1, 5, 9 and 220 against one of 22), and float64
itself loses one there (360 wei with 7 gas over target: 62, not 63; 220 wei with 12 over:
14, not 15).  `PRECISION` bounds the exponential of a batch.  `MeteredBlock` has five scenarios, each with
its operations, fee recipient and bounds on transactions (`txs`), operations
(`ops`) and withdrawals: two of storage operations (one transaction of two
operations with loops of up to 227 slots set and brought back, so that the refund
equation has several solutions; two transactions of three operations in all), one
of accounts (two transactions, three operations, one withdrawal), and two with the
sender or a new account as fee recipient and three withdrawals.  Each transaction
is read with three contents: none, some of everything, and enough calldata that
the floor is charged.  The publication has one kill and one regeneration
(`MaxKills`, `MaxChanges`): a killed pass over new sources, or a change inside a
pass or between two; a change inside a pass moves no pinned number and follows no
kill.  Any number of passes of any mode come before and after.  `MechanismA` starts from three fees at and above its minimum
of 5, with empty, target-sized and full blocks of each resource and an excess of at
most 9: the fairness of an empty block makes TLC evaluate `ENABLED` in every state,
which is slow when the excess is large.

Fairness.  `LiveSpec` of `Full7999` is weak fairness of the replay loop, which
goes on as long as the list of blocks has another one.  `ReserveReleases` is about a
steady blob fee and blocks that use some bandwidth: with empty blocks, or with usage
so small that the reserve's raise truncates to zero (a limit under a hundred gas or
so at the model's scale, nothing at the code's), the reserve stays on.  In
`MechanismA` it is fairness of an empty block, since the property is about a
list that ends in them; the property's own premise says so too.
`LiveSpec` of the panel is weak fairness of the process's own steps: a call returns
or times out, and everything else is local.  Nothing is assumed about success: every
attempt may fail.  `LiveSpec` of the pulls adds that the command is run again until
the panel is there, with the settings of its cache, as the scripts' messages ask;
mishaps are bounded, so that some run is left alone.
`LiveSpec` of the publication is weak fairness of a pass's steps and strong fairness of
beginning a fresh one (whoever wants the publication runs the notebooks again, also
between passes that reuse); `RerunsPublish` names what it needs beyond that.

The violations.

- A chunk whose blocks all have no transactions is checkpointed as a part of
  another schema, and a panel with such a part can never be combined although it is
  complete: two chunks of one block each, one of them empty, both checkpointed,
  `WriteOutput` refused.
- The parent-and-BAL rule multiplies an offer by the float quotient of limit and
  offer and floors: with the quotient just under the exact one, the block includes
  one gas less than its limit and reports no limit hit.
- A kill while `build_contiguous_runtime_bal` rewrites its partial csv leaves a cut
  last row; the next run counts its block as done and `fillna(0)` publishes zeros
  for the lost columns.
Deadlock checking is off in `MeteredBlock.cfg` only: a block ends when its bounds
are spent.

## 4. Proofs

TLAPS proves, for every value of the constants allowed by the named assumptions
(`NoneAssumption`, `ConfigAssumption`, `InputAssumption`, `RowAssumption`, `FloatAssumption`,
`PrecisionAssumption`, `ScenarioAssumption`, `ContentAssumption` and the like; TLC
evaluates each):

- the operators: `fake_exponential` ends, is monotone and at least linear;
  `excess_gas_for_base_fee` returns the least excess whose fee reaches the given
  fee; the reserve flag and the rounded-up threshold are equivalent; one update is
  monotone in gas and bounded by a full and an empty block;
- `Full7999`: its types, the safety and action properties of its run, the
  refinement included, and one that has no run of its own (`MoreGasNeverCheapens`);
  all of them again for the replay driven by demand;
- `DrivenReplay`: `InclusionIsFeasible`, `RationedBlocksAreFull` and
  `BundlesAreCutAsAWhole`, for every demand, quantum and rounding of the floats;
- `GlamsterdamOnly`: its types and three properties without a run of their own
  (`FeeFollowsUsage`, `MoreGasNeverCheapens`, `SubEightFeesDoNotFall`);
- `MechanismA`: its types and both refinements;
- `BatchedReplay`: its four properties, for any number of blocks, any burn-in, any
  demand and any rounding of the float fee within its bound;
- `SharedFee`: `CachedFeesAreExact`, `MeasuredWindowAddsUp` and `UpdatersAgree`, for
  any number of replays, any register and any such rounding;
- `StaticDataPanel`: its types and six safety and action properties;
- `Publication`, for both chains, the eleven handoff notebooks and the report's four:
  its four safety properties, for any set of sources that change, any number of
  changes, kills and passes in any order;
- `CachedPull`: `PartsNeverOverlap`, `OneSettingPerCache`, `PanelsHaveNoGaps` and
  `CheckpointsAreKept`, for any blocks, quotas, settings and number of mishaps;
- the metering operators (`MeteringProofs`), for all counts and receipts: the
  attribution of runtime bytes never raises, in total or by component, counts no
  account twice, and its parts add up (`AttributionNeverRefused`, `CreatedOnce`,
  `PartsAddUp`); the closed form of the refund query has exactly the reset counts of
  the enumeration, and its range is that of the preferred ones
  (`ClosedFormIsEnumeration`, `QueryRangeIsPreferred`, for rows with a store for every
  changed slot); the gas before a refund is recovered to one gas by Python and by
  the query (`GrossIsRecovered`, `QueryRecoversGross`); a receipt that pays at
  least the floor is never refused and comes apart into its parts
  (`ReceiptsComeApart`); the two definitions of each floor agree (`FloorsAgree`); and
  Glamsterdam's gas from a receipt is that from the parts that explain the receipt
  (`GlamsterdamGasAgrees`);
- `MeteredBlock`: all its five properties, for any number of transactions, operations
  and withdrawals, any fee recipient, values, calldata and loops.  Here the operators'
  theorems meet what executions do: that rows have a store for every changed slot,
  and that gas covers refunds, is no hypothesis any more.

The arguments.

*Operators.*  The fake exponential leaves its loop at a turn that depends on the
input, so results for two inputs cannot be compared turn by turn.  The proof shows
that the accumulator shrinks from a late turn on, that the loop therefore leaves,
that further turns would add nothing, and compares the outputs at a turn both have
passed.  That a recursive function exists at all is derived from
the well-foundedness of `<`, because the library's theorem takes an operator
parameter.

*`Full7999`.*  The properties are not inductive: nothing in them relates the fee
a row records to the excess the next fee is computed from.  The invariant adds
`Charged`: a fee never exceeds what its excess stands for, and equals it once a block
has been replayed.  The first block is different because a warm start overshoots, and
`FeesFollowUsage` excepts it for that reason.  For `DrivenReplay` the invariant says
that the row comes from some demand under one of the rules; the three properties are
then about a rule, whatever it was given.

*`BatchedReplay`.*  A longest run is not inductive without the run under way, which
the stream keeps and the history does not; the invariant states the latter as a
function of the history.  Sums over the history are the last value of a recursive
function, so that one more block is one more step of it.  `BlocksPayTheFeesInForce`
is about two rows at a time: the invariant says every row charges what the row before
it produced, that the history goes back to where measuring began, and what the first
row charged.  That an excess launched at one wei never falls below zero is needed for
the reflection; it rests on the linear lower bound of `fake_exponential` and on
`PrecisionAssumption`.  `MovesAsTheReference` needs all fees positive.

*The float fee.*  `RoundedUpdate1559` relates a rounded update to the reference.  A
product of `q` whole steps and a rest, times `1 + error / FLOAT_UNIT`, floors to `q`
when the rest is further from 0 and from a whole step than the product's error
(`IsClearOfRounding`), and to `q - 1`, `q` or `q + 1` when that error is at most a step
(`IsUnderOneWei`); a downward step is at most the fee less one because an empty
block's exact step is an eighth of it and the error is less than the step.

*`SharedFee`.*  The invariant has the types; that each cache is the sequence of
least excesses for fees 2, 3, ... of its denominator and that a lookup inside its
bound is the exact fee (`CachesInv`); that shared prices are positive and the previous
price is the fee in force (`PriceInv`); and that start, gas, reflection and end of the
window add up, with nothing accumulated before the burn-in is over (`WindowInv`).
Growing a cache appends, and what a lookup answered before is left alone.

*`StaticDataPanel`.*  The invariant adds that manifests are numbered from 0 without
a gap and that a collecting run holds the first free number (so it cannot overwrite
a checkpoint), that chunk, remaining blocks and manifests are pairwise disjoint, and
that a run about to write a manifest has written the same blocks to the part.  A
crash forgets all of that, and a start recomputes it from the disk.

*`Publication`, the handoffs.*  The four properties speak of the end of a pass, the
invariant (`HandoffInv`) of every step of one.  It is not stated step by step.  A script is a
sequence of steps, and what the steps before the i-th wrote, read and removed
(`Written`, `Taken`, `Dropped`) follows from the sequence; the invariant says what
that means for the disk and the process: a table that was written is whole, has
exactly what the files it is computed from have (`Fed`), in a fresh pass nothing
but rows of sources and of caches pulled in this pass (`Traced`), and the process has
in memory what it read (`HMade`), a source perhaps in an older version if it changed
meanwhile.  Two things it cannot do without: what a cache can hold at all, between
passes and after kills too (`HandoffBase`: rows of its own, saved only after the
checks of its pull), and what a check that was passed rules out later (`HChecked`,
`HPaired`: the card's runtime bytes and their attribution are of the same blocks).
Each kind of step is then one lemma (`OpenGoes`, `WriteGoes`, `ResumeGoes`, ...),
whatever script it occurs in.  That a failure has a reason is shown check by check
(`FreshCheckStops`, `ReuseCheckHolds`): a check that can fail finds a row that is cut,
drifted or outdated in a cache that the pass keeps, which is what `obstructed` says.
What the lemmas need to know of the scripts, say that whatever a fresh pass reads it
has written before and that nothing is computed from a table rewritten later, are
the facts of `PublicationFacts`.  They have neither variables nor constants, so
that they hold everywhere once TLC has evaluated them; the proofs use them as the
assumption `HandoffScripts`.  A change in the order of the cells shows up there.

*`Publication`, the report.*  Its scripts rewrite files in place, open the workload
again in every process and compare what they wrote, so that what is known depends on
the path so far.  It is kept as a *note* before each step (`notes`, a function of the
script alone): the files that were written (`sure`), seen (`there`), made from what
the sources have (`sound`), from the one workload the factorial opened (`solid`),
equal to what the process holds (`copies`), and what the process itself has read.
`ReportAt` says what a note means for the disk and the process, and the facts about
notes (the assumption `ReportNotes`) are evaluated like those of the handoffs.  Beside
them, `ReportBase` holds at every moment, in the debris of any earlier pass too: no file
has a later version of the workload than the workload itself (`Latest`); the workload a
whole manifest names is no later than that of any table it vouches for (`Vouching`); and
no such table has a later one than the factorial's manifest names (`Bounded`).  The last
step of a verifying pass finds all manifests equal to the factorial's, and the last two
then leave only one version for every table (`OneWorkload`).  None of these is
inductive alone: a workload that changes in the middle of a pass makes later tables
later, and what keeps the two bounds is the order of the steps: a table is written
before the manifest that vouches for it, and a script that opens the workload again
compares it with the factorial's manifest before it writes.  That failures have a reason is shown from the other
side (`Reasonless`): without a reason whatever the pass relies on is current, what is
current agrees (`CurrentAgrees`), and then no check fails.  A kill may tear the file
being written and a source may change at any step; `ReportKill` and
`ReportRegenerate` show what is left of a note then.

*`CachedPull`.*  Here parts are named by their blocks, so that what has to be shown
is that no two that count share a block.  The invariant says that the blocks a run still
wants, its chunk and the parts that count are apart (`QueueIsApart`), for the inputs
and the carriers each (`InputsParts`, `CarrierParts`: a part without its marker does
not count and may overlap), and that an attribution under way has each block of its
input in a row it holds or a chunk it still has to query (`AttributionRows`).  A row
that lost columns or lacks transactions may be among them and looks done; the merge finds
it and is refused.  That a panel merged from parts has no gap needs no history: those
that compare refuse any part that lacks something, and no carrier part does.

*The refunds of a block.*  Every solution of `199 * zero + 28 * nonzero = units` is a
whole number of steps (28 zero resets for 199 others) from the base the query computes
with the inverse of 199 modulo 28; `k_min` and `k_max` are then the steps the number
of stores and the sign of the nonzero resets allow.  That an execution's own resets
are among the solutions needs an invariant of executions, `BlockInv`.  It keeps a
ledger over the slots, for the open transaction and each finished one: the refunds are 19,900
and 2,800 for each slot brought back and 4,800 for each slot now cleared; there are
two stores for each one brought back and one for each slot now different; the gas of
all operations covers these, each slot being cold once; and the gas of the stores is
exactly what the slots changed and brought back explain, unless a call reverted.  A store moves one slot and each of these terms by what its
event says, case by case.  A failed transaction leaves storage as it was.  All of it
is about sums over finite sets, of events and of slots; `SumFunction` adds in an order
`CHOOSE` picks, and the proofs show first that the order does not matter.

*The access list.*  Replaying entries up to an index is right when each index that
should have an entry has one with the value after it, and the others leave the value
alone (`EntriesReplay`); joining the entries of transactions in order of their index is
what makes the greatest index seen the latest one.  What is left is to show, field by
field, that a transaction without an entry did not change the field.  That is about
executions again: the invariant `ChainInv` says that transactions are a chain (each
starts in the world the one before it left, the first one in the parent), that an
account a transaction did not touch is as it was, that no nonce falls, that a failed
transaction moves the fee and no other balance, and that the withdrawals credit
their account over the last transaction's world.  The same is said of the open
transaction and of the world a failure would return to.  The list finds the balance
before a withdrawal by looking for the latest entry of that account, or the parent's
(`LatestBalance`); by the chain it is the balance the last transaction left.

*The counts of a block.*  A query of the block counts a union over its transactions or
adds up, and is compared with sums over the rows of single transactions.  A sum over
1..n is the last of its running totals (`RunningTotals`), so two sums are related by
relating one step of their totals: sums of sums (`SumsTogether`), the runtime bytes,
which are linear in seven counts (`BytesOfSums`), and the size of a union, which is at
most the sum of the sizes and equal to it when the sets are apart (`UnionCount`).
For `RuntimeReconciles` the sets are the changed slots, tagged by their transaction in
the query, and the entries of a slot in the list number the transactions that changed it.
For `GrowthAddsUp` a slot new at the end of the chain was made by some transaction
(`StillNewWasMade`), and an account of "new" comes to be in at most one
(`NewcomersApart`), which the trace, the transaction's tables and the block's find by
different tests.  That these agree needs the invariant `GrowthInv`: the parent has
something at every other address, only a create turns code into a contract's, and
only at the address it creates, a failing transaction turns none, and neither balance
nor code are lost there; `ThereOnceNamed` then says that the account exists from the
first transaction on whose rows name it.

*The attribution.*  Each matched count is at most the metered one, and all of them
are zero when no state was created; the sums follow.

Only model-checked:

- the five liveness properties, `ReserveReleases`, `EmptyBlocksDrain`, `RunsEnd`,
  `RerunsComplete` and `RerunsPublish` (TLAPS does not reason about fairness here).
  `RerunsComplete` also says, as an action property, that a spoiled cache of the
  transaction inputs publishes nothing.

Only argued: that the seed of the bisection does not matter.


## 5. Not modelled, and the plan

Not modelled: floating-point demand, elasticities, calibration, shocks, equilibria
and optimisation (no finite state to explore); the continuous controller; the
pooled refund ratio, the daily residuals and multipliers of the panels and the
EIP-8037 metering multiples (real factors of modelled counts); encodings (RLP,
hexadecimal) and the header-only system writes of the access list; joins of tables
over many blocks; limits; figures, the paper's digests, and the drivers no
notebook runs; the toy simulator, which only its tests call.

Left, most important first:

1. An abstract set of finished blocks that only grows, refined by both
   `StaticDataPanel` and `CachedPull`.
2. `MeteredBlock` over two blocks, for the tables' first appearances and the chunk
   a block is asked in.
3. The toy simulator beside `MechanismA`.

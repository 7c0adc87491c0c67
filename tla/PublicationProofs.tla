-------------------------- MODULE PublicationProofs --------------------------
(***************************************************************************)
(* Proofs of what Publication claims of the passes over the handoffs and   *)
(* over the report: for any changes of the sources, any kills and any      *)
(* order of fresh, default and reusing passes, what a pass that ends       *)
(* leaves on disk.  The invariants are those of PublicationInvariant; for  *)
(* each there is one lemma per kind of step.                               *)
(*                                                                         *)
(* The last part is about the builder of one of the caches, the static     *)
(* panel, whose checkpoints StaticDataPanel models.                        *)
(***************************************************************************)
EXTENDS PublicationInvariant, StaticDataPanel, TLAPS

-----------------------------------------------------------------------------
(* A script, one step on.                                                 *)

\* The steps of the process at hand, one step on.
LEMMA SinceNext ==
  ASSUME NEW p, NEW i \in Nat \ {0}
  PROVE  /\ Starts(p[i]) => Since(p, i + 1) = {i}
         /\ ~Starts(p[i]) => Since(p, i + 1) = Since(p, i) \cup {i}
<1> DEFINE S(k) == Starts(p[k])
<1>1. Since(p, i + 1) = {j \in 1..i : \A k \in (j + 1)..i : ~S(k)}
  BY DEF Since
<1>2. Since(p, i) = {j \in 1..(i - 1) : \A k \in (j + 1)..(i - 1) : ~S(k)}
  BY DEF Since
<1> HIDE DEF S
<1>3. S(i) => Since(p, i + 1) = {i}
  BY <1>1
<1>4. ~S(i) => Since(p, i + 1) = Since(p, i) \cup {i}
  BY <1>1, <1>2
<1> QED BY <1>3, <1>4 DEF S

\* The files the process has read, one step on.
LEMMA TakenNext ==
  ASSUME NEW p, NEW i \in Nat \ {0}
  PROVE  /\ Starts(p[i]) => Taken(p, i + 1) = Takes(p[i])
         /\ ~Starts(p[i]) => Taken(p, i + 1) = Taken(p, i) \cup Takes(p[i])
BY SinceNext DEF Taken

\* The files the pass has written, one step on.
LEMMA WrittenNext ==
  ASSUME NEW p, NEW i \in Nat \ {0}
  PROVE  /\ Writes(p[i]) => Written(p, i + 1) = Written(p, i) \cup {p[i].file}
         /\ ~Writes(p[i]) => Written(p, i + 1) = Written(p, i)
<1> DEFINE S(k) == Writes(p[k])
<1>1. /\ Written(p, i + 1) = {p[j].file : j \in {k \in 1..i : S(k)}}
      /\ Written(p, i) = {p[j].file : j \in {k \in 1..(i - 1) : S(k)}}
  BY DEF Written
<1> HIDE DEF S
<1>2. /\ S(i) => {k \in 1..i : S(k)} = {k \in 1..(i - 1) : S(k)} \cup {i}
      /\ ~S(i) => {k \in 1..i : S(k)} = {k \in 1..(i - 1) : S(k)}
  OBVIOUS
<1> QED BY <1>1, <1>2 DEF S

\* The files the pass has removed, one step on.
LEMMA DroppedNext ==
  ASSUME NEW p, NEW i \in Nat \ {0}
  PROVE  /\ p[i].do = "unlink" => Dropped(p, i + 1) = Dropped(p, i) \cup {p[i].file}
         /\ p[i].do # "unlink" => Dropped(p, i + 1) = Dropped(p, i)
<1> DEFINE S(k) == p[k].do = "unlink"
<1>1. /\ Dropped(p, i + 1) = {p[j].file : j \in {k \in 1..i : S(k)}}
      /\ Dropped(p, i) = {p[j].file : j \in {k \in 1..(i - 1) : S(k)}}
  BY DEF Dropped
<1> HIDE DEF S
<1>2. /\ S(i) => {k \in 1..i : S(k)} = {k \in 1..(i - 1) : S(k)} \cup {i}
      /\ ~S(i) => {k \in 1..i : S(k)} = {k \in 1..(i - 1) : S(k)}
  OBVIOUS
<1> QED BY <1>1, <1>2 DEF S

\* Whether the process derived a table only if it was missing, one step on.
LEMMA KnownNext ==
  ASSUME NEW p, NEW i \in Nat \ {0}
  PROVE  /\ Starts(p[i]) => Known(p, i + 1)
         /\ ~Starts(p[i]) => (Known(p, i + 1) <=> Known(p, i) /\ p[i].do # "derive")
<1> DEFINE S(k) == p[k].do = "derive" => p[k].again
<1>1. /\ Known(p, i) <=> \A j \in Since(p, i) : S(j)
      /\ Known(p, i + 1) <=> \A j \in Since(p, i + 1) : S(j)
  BY DEF Known
<1>2. Starts(p[i]) => S(i)
  BY DEF Starts
<1>3. ~Starts(p[i]) => (S(i) <=> p[i].do # "derive")
  BY DEF Starts
<1> HIDE DEF S
<1> QED BY <1>1, <1>2, <1>3, SinceNext

\* Only a notebook's opening compares the attribution with the runtime panel.
LEMMA PairedNext ==
  ASSUME NEW p, NEW i \in Nat \ {0}
  PROVE  Paired(p, i + 1) =>
           \/ ~Starts(p[i]) /\ Paired(p, i)
           \/ p[i].do = "open" /\ same_rows("attribution_blocks", "runtime_blocks") \in p[i].checks
BY SinceNext DEF Paired, Starts

\* Only a check of the refunds makes them covered.
LEMMA CoveredNext ==
  ASSUME NEW p, NEW i \in Nat \ {0}
  PROVE  Covered(p, i + 1) =>
           \/ Covered(p, i)
           \/ p[i].do = "add" /\ covers("refunds") \in p[i].checks
BY DEF Covered

\* Before its first step a pass has read, written and removed nothing.
LEMMA AtTheFirst ==
  ASSUME NEW p
  PROVE  Since(p, 1) = {} /\ Taken(p, 1) = {} /\ Written(p, 1) = {} /\ Dropped(p, 1) = {}
         /\ Known(p, 1) /\ ~Paired(p, 1) /\ ~Covered(p, 1)
BY DEF Since, Taken, Written, Dropped, Known, Paired, Covered

-----------------------------------------------------------------------------
(* The files of the handoffs, and what changing one leaves.                *)

\* Tables, partial files and sources of the handoffs do not overlap.
LEMMA Names ==
  /\ HandoffFiles = HandoffTables \cup Partials.handoffs \cup HandoffSources
  /\ HandoffTables \cap Partials.handoffs = {} /\ HandoffTables \cap HandoffSources = {}
  /\ Partials.handoffs \cap HandoffSources = {}
  /\ HandoffCaches \subseteq HandoffTables /\ pulled \subseteq Partials.handoffs
  /\ "quantities" \notin HandoffFiles /\ "baseline_anchor" \notin HandoffFiles
  /\ "sensitivity_partial" \in Partials.handoffs \ pulled
  /\ "other_rate" \notin HandoffFiles
  /\ \A f \in HandoffTables \cup Partials.handoffs : f \notin HandoffSources \cup {"other_rate"}
BY DEF HandoffFiles, HandoffTables, HandoffSources, HandoffCaches, Tables, Partials, Caches, pulled,
       DemandTables, EquilibriumTables, SimulationTables, SimulatedTables

\* The caches of the handoffs, and which partial file is of which.
LEMMA CacheNames ==
  /\ HandoffCaches = {"refunds", "runtime_blocks", "attribution_blocks", "static_panel",
                      "rpc_blocks", "contiguous_bal"}
  /\ pulled = {"runtime_partial", "attribution_partial", "contiguous_bal_partial"}
  /\ HandoffSources = {"blocks", "traces", "rpc"}
  /\ cache_of("runtime_partial") = "runtime_blocks"
  /\ cache_of("attribution_partial") = "attribution_blocks"
  /\ cache_of("contiguous_bal_partial") = "contiguous_bal"
  /\ \A f \in HandoffCaches : cache_of(f) = f
BY DEF HandoffCaches, Caches, pulled, cache_of, HandoffSources

\* The tables named in the proofs are tables, and no caches.
LEMMA TableNames ==
  /\ {"anchor_accounting", "execution_repricing", "demand_card", "metering_anchor", "daily_metering",
      "equilibrium_anchor", "slot_fixed", "slot_scenarios", "anchor_panel", "shocks"}
       \subseteq HandoffTables \ HandoffCaches
BY DEF HandoffTables, HandoffSources, HandoffCaches, Tables, Caches,
       DemandTables, EquilibriumTables, SimulationTables, SimulatedTables

\* A table is computed from tables and sources.
LEMMA InputNames ==
  ASSUME NEW m, NEW f \in DOMAIN inputs(m)
  PROVE  f \in HandoffTables /\ inputs(m)[f] \subseteq HandoffTables \cup HandoffSources
<1>1. \A g \in DOMAIN repriced : g \in HandoffTables /\ repriced[g] \subseteq HandoffTables \cup HandoffSources
  BY DEF repriced, HandoffTables, HandoffSources, Tables, DemandTables
<1>2. \A g \in DOMAIN simulated : g \in HandoffTables /\ simulated[g] \subseteq HandoffTables
  BY DEF simulated, HandoffTables, Tables, DemandTables, EquilibriumTables, SimulationTables, SimulatedTables, build_full_multiscale_workload, specification_table, surface_inputs, sensitivity_inputs
<1>3. \A g \in DOMAIN fed : g \in HandoffTables /\ fed[g] \subseteq HandoffTables
  BY DEF fed, HandoffTables, Tables, DemandTables, EquilibriumTables, SimulationTables, SimulatedTables, build_full_multiscale_workload,
     daily_panel_inputs, anchor_panel_inputs, metering_inputs, decomposition_inputs, bundle_inputs
<1> QED BY <1>1, <1>2, <1>3 DEF inputs

\* What a file of the handoffs has is what is on disk.
LEMMA ContentIs ==
  ASSUME NEW f \in HandoffFiles
  PROVE  content(f) = disk[f].from /\ content(f)' = disk'[f].from
BY Names DEF content

\* What files have together, now and after the step.
LEMMA ContentsOf ==
  ASSUME NEW N, N \subseteq HandoffFiles
  PROVE  contents(N) = UNION {disk[f].from : f \in N} /\ contents(N)' = UNION {disk'[f].from : f \in N}
BY ContentIs DEF contents

\* A row of several files is a row of one of them.
LEMMA ContentsHas ==
  ASSUME NEW N, N \subseteq HandoffFiles, NEW v
  PROVE  /\ v \in contents(N) <=> \E f \in N : v \in disk[f].from
         /\ v \in contents(N)' <=> \E f \in N : v \in disk'[f].from
BY ContentsOf

\* A file becomes x, and the others stay.
Becomes(f, x) == disk' = [disk EXCEPT ![f] = x]

\* One file changes and the others stay.
LEMMA Changed ==
  ASSUME NEW f \in HandoffFiles, NEW x, Becomes(f, x), DOMAIN disk = HandoffFiles
  PROVE  /\ DOMAIN disk' = HandoffFiles
         /\ disk'[f] = x
         /\ \A g \in HandoffFiles : g # f => disk'[g] = disk[g]
BY DEF Becomes

\* Files that do not change have what they had.
LEMMA ContentsKept ==
  ASSUME NEW N, N \subseteq HandoffFiles, \A g \in N : disk'[g] = disk[g]
  PROVE  contents(N)' = contents(N)
<1> DEFINE A(g) == disk[g].from
           B(g) == disk'[g].from
<1>1. \A g \in N : B(g) = A(g)
  OBVIOUS
<1>2. contents(N) = UNION {A(f) : f \in N} /\ contents(N)' = UNION {B(f) : f \in N}
  BY ContentsOf
<1> HIDE DEF A, B
<1>3. {A(f) : f \in N} = {B(f) : f \in N}
  BY <1>1
<1> QED BY <1>2, <1>3

\* The step a pass is at is the one its script has there.
LEMMA ScriptStep ==
  ASSUME NEW p, NEW m, NEW i, PassAt(p, m, i)
  PROVE  /\ step = p[i] /\ program[chain][mode] = p /\ i \in Nat \ {0} /\ i \in 1..Len(p)
         /\ chain = "handoffs" /\ mode = m /\ at = i
BY DEF PassAt, script, step

\* Which of the actions a handoff pass takes.
LEMMA StepKinds ==
  ASSUME NEW p, NEW m, NEW i, PassAt(p, m, i), Step
  PROVE  Write \/ Add \/ Open \/ Derive \/ Inspect \/ Resume \/ Save \/ Unlink
<1>1. p[i].do \in {"open", "add", "write", "save", "unlink", "derive", "resume", "inspect"}
  BY DEF PassAt, StepFacts
<1>2. step = p[i]
  BY ScriptStep
<1> QED
  BY <1>1, <1>2 DEF Step, SourceSnapshot, VerifySources, Replace, Record, Matches, Reproduce, Unchanged,
     SurfaceCache, BaselineCell, DerivedCell, CentralCell, ManifestsCell, Running

\* A step that goes on leaves chain, mode and script, and moves to the next.
LEMMA ProceedKeeps ==
  ASSUME NEW p, NEW m, NEW i, PassAt(p, m, i), Proceed
  PROVE  /\ chain' = chain /\ mode' = mode /\ steady' = steady /\ script' = p
         /\ at' = IF i = Len(p) THEN 0 ELSE i + 1
BY ScriptStep DEF Proceed, script

-----------------------------------------------------------------------------
\* Files that no pull works on stand for themselves.
LEMMA StandingSame ==
  ASSUME NEW N, N \cap pulled = {}
  PROVE  Standing(N) = N /\ Standing(N)' = N
BY DEF Standing

\* What stands for files of the handoffs are such files.
LEMMA StandingFiles ==
  ASSUME NEW N, N \subseteq HandoffFiles
  PROVE  Standing(N) \subseteq HandoffFiles
<1>1. \A n \in pulled : cache_of(n) \in HandoffFiles
  BY Names, CacheNames
<1> QED BY <1>1 DEF Standing

\* A source is there, in one version that is not cut.
LEMMA SourceRows ==
  ASSUME HandoffDisk, NEW s \in HandoffSources
  PROVE  /\ disk[s].is = "whole" /\ exists(s)
         /\ \E v \in Nat : v # cut_row /\ disk[s].from = {<<s, v>>}
<1>1. PICK v \in Nat : disk[s] = file({<<s, v>>})
  BY DEF HandoffDisk
<1>2. disk[s].is = "whole" /\ disk[s].from = {<<s, v>>}
  BY <1>1 DEF file
<1>3. v # cut_row
  BY DEF cut_row
<1> QED BY <1>2, <1>3 DEF exists

\* So it is after the step.
LEMMA SourceRowsNext ==
  ASSUME HandoffDisk', NEW s \in HandoffSources
  PROVE  \E v \in Nat : v # cut_row /\ disk'[s].from = {<<s, v>>}
<1>1. PICK v \in Nat : disk'[s] = file({<<s, v>>})
  BY DEF HandoffDisk
<1>2. disk'[s].is = "whole" /\ disk'[s].from = {<<s, v>>}
  BY <1>1 DEF file
<1>3. v # cut_row
  BY DEF cut_row
<1> QED BY <1>2, <1>3

\* A process that has just read some files has what they have.
LEMMA MadeOfRead ==
  ASSUME HandoffDisk', NEW N, N \subseteq HandoffFiles, made' = contents(N)'
  PROVE  MadeOf(N)'
<1>1. \A v \in made' : v[1] \in HandoffSources \/ v \in contents(N \ HandoffSources)'
  <2> SUFFICES ASSUME NEW v \in made'
               PROVE  v[1] \in HandoffSources \/ v \in contents(N \ HandoffSources)'
    OBVIOUS
  <2>1. PICK f \in N : v \in disk'[f].from
    BY ContentsHas
  <2>2. CASE f \in HandoffSources
    BY <2>1, <2>2, SourceRowsNext
  <2>3. CASE f \notin HandoffSources
    BY <2>1, <2>3, ContentsHas, N \ HandoffSources \subseteq HandoffFiles
  <2> QED BY <2>2, <2>3
<1>2. contents(N \ HandoffSources)' \subseteq made'
  BY ContentsHas, N \ HandoffSources \subseteq HandoffFiles
<1>3. \A s \in N \cap HandoffSources : on(made, {s})' # {}
  <2> SUFFICES ASSUME NEW s \in N \cap HandoffSources PROVE on(made', {s}) # {}
    OBVIOUS
  <2>1. PICK v \in Nat : disk'[s].from = {<<s, v>>}
    BY SourceRowsNext
  <2>2. <<s, v>> \in made'
    BY <2>1, ContentsHas
  <2> QED BY <2>2 DEF on
<1> QED BY <1>1, <1>2, <1>3 DEF MadeOf

\* A process that reads more files has what all of them have.
LEMMA MadeOfMore ==
  ASSUME HandoffDisk, NEW N, N \subseteq HandoffFiles, NEW M, M \subseteq HandoffFiles,
         disk' = disk, steady' = steady, MadeOf(N), made' = made \cup contents(M)
  PROVE  MadeOf(N \cup M)'
<1> DEFINE NM == N \cup M
           NS == N \ HandoffSources
           MS == M \ HandoffSources
           US == NM \ HandoffSources
<1>1. NM \subseteq HandoffFiles /\ NS \subseteq HandoffFiles /\ MS \subseteq HandoffFiles
      /\ US \subseteq HandoffFiles /\ US = NS \cup MS
  OBVIOUS
<1>0. HandoffDisk'
  BY DEF HandoffDisk
<1> HIDE DEF NM, NS, MS, US
<1>2. \A S : S \subseteq HandoffFiles => contents(S)' = contents(S)
  BY ContentsKept
<1>3. contents(US) = contents(NS) \cup contents(MS) /\ contents(NM) = contents(N) \cup contents(M)
  BY <1>1, ContentsOf DEF NM
<1>4. /\ \A v \in made : v[1] \in HandoffSources \/ v \in contents(NS)
      /\ contents(NS) \subseteq made
      /\ \A s \in N \cap HandoffSources : on(made, {s}) # {}
      /\ (steady \/ N \cap HandoffSources = {}) => made = contents(N)
  BY DEF MadeOf, NS
<1>5. \A v \in contents(M) : v[1] \in HandoffSources \/ v \in contents(MS)
  <2> SUFFICES ASSUME NEW v \in contents(M)
               PROVE  v[1] \in HandoffSources \/ v \in contents(MS)
    OBVIOUS
  <2>1. PICK f \in M : v \in disk[f].from
    BY ContentsHas
  <2>2. CASE f \in HandoffSources
    <3>1. PICK w \in Nat : disk[f].from = {<<f, w>>}
      BY <2>2, SourceRows
    <3> QED BY <2>1, <2>2, <3>1
  <2>3. CASE f \notin HandoffSources
    BY <2>1, <2>3, <1>1, ContentsHas DEF MS
  <2> QED BY <2>2, <2>3
<1>6. contents(MS) \subseteq contents(M)
  BY <1>1, ContentsHas DEF MS
<1>7. \A s \in M \cap HandoffSources : on(contents(M), {s}) # {}
  <2> SUFFICES ASSUME NEW s \in M \cap HandoffSources PROVE on(contents(M), {s}) # {}
    OBVIOUS
  <2>1. PICK v \in Nat : disk[s].from = {<<s, v>>}
    BY SourceRows
  <2>2. <<s, v>> \in contents(M)
    BY <2>1, ContentsHas
  <2> QED BY <2>2 DEF on
<1>8. \A v \in made' : v[1] \in HandoffSources \/ v \in contents(US)'
  BY <1>1, <1>2, <1>3, <1>4, <1>5
<1>9. contents(US)' \subseteq made'
  BY <1>1, <1>2, <1>3, <1>4, <1>6
<1>10. \A s \in NM \cap HandoffSources : on(made', {s}) # {}
  BY <1>4, <1>7 DEF NM, on
<1>11. (steady' \/ NM \cap HandoffSources = {}) => made' = contents(NM)'
  BY <1>1, <1>2, <1>3, <1>4 DEF NM
<1>12. MadeOf(NM)'
  BY <1>8, <1>9, <1>10, <1>11 DEF MadeOf, US
<1> QED BY <1>12 DEF NM

\* What is said of the disk alone stays when the disk does.
LEMMA SameDisk ==
  ASSUME disk' = disk, steady' = steady
  PROVE  /\ HandoffBase' <=> HandoffBase
         /\ \A m, W : Fed(W, inputs(m))' <=> Fed(W, inputs(m))
         /\ \A W, m : Traced(W, m)' <=> Traced(W, m)
         /\ \A W : WholeAll(W)' <=> WholeAll(W)
         /\ \A D : Gone(D)' <=> Gone(D)
         /\ \A W : Matched(W)' <=> Matched(W)
         /\ \A N : Standing(N)' = Standing(N)
<1>0. \A f : disk'[f] = disk[f]
  OBVIOUS
<1>1. HandoffBase' <=> HandoffBase
  <2>1. HandoffDisk' <=> HandoffDisk
    BY DEF HandoffDisk
  <2>2. OwnRows' <=> OwnRows
    BY <1>0 DEF OwnRows, exists
  <2>3. SavedRows' <=> SavedRows
    BY <1>0 DEF SavedRows, exists, whole
  <2>4. Sampled' <=> Sampled
    BY <1>0 DEF Sampled, exists, whole
  <2>5. Weighed' <=> Weighed
    BY <1>0 DEF Weighed, exists
  <2> QED BY <2>1, <2>2, <2>3, <2>4, <2>5 DEF HandoffBase
<1>2. \A m, W : Fed(W, inputs(m))' <=> Fed(W, inputs(m))
  <2> SUFFICES ASSUME NEW m, NEW W PROVE Fed(W, inputs(m))' <=> Fed(W, inputs(m))
    OBVIOUS
  <2>1. \A f \in DOMAIN inputs(m) : contents(inputs(m)[f])' = contents(inputs(m)[f])
    <3> SUFFICES ASSUME NEW f \in DOMAIN inputs(m)
                 PROVE  contents(inputs(m)[f])' = contents(inputs(m)[f])
      OBVIOUS
    <3>1. inputs(m)[f] \subseteq HandoffFiles
      BY InputNames, Names
    <3> QED BY <1>0, <3>1, ContentsKept
  <2> QED BY <1>0, <2>1 DEF Fed
<1>3. \A W, m : Traced(W, m)' <=> Traced(W, m)
  BY <1>0 DEF Traced, Based
<1>4. \A W : WholeAll(W)' <=> WholeAll(W)
  BY <1>0 DEF WholeAll, whole
<1>5. \A D : Gone(D)' <=> Gone(D)
  BY <1>0 DEF Gone, exists
<1>6. \A W : Matched(W)' <=> Matched(W)
  BY <1>0 DEF Matched
<1>7. \A N : Standing(N)' = Standing(N)
  BY <1>0 DEF Standing, exists
<1> QED BY <1>1, <1>2, <1>3, <1>4, <1>5, <1>6, <1>7

\* The parts of the invariant, of a pass that is at a step.
LEMMA InHandoffs ==
  ASSUME NEW p, NEW m, NEW i, PassAt(p, m, i)
  PROVE  /\ HandoffBase /\ HandoffDisk /\ IsRows(made)
         /\ Fed(Written(p, i), inputs(m)) /\ Traced(Written(p, i), m) /\ WholeAll(Written(p, i))
         /\ Gone(Dropped(p, i)) /\ Matched(Written(p, i))
         /\ HMade(p, i) /\ HPulled(p, i) /\ HPaired(p, i) /\ HCovered(p, i)
         /\ StepFacts(p, i, m) /\ i \in Nat \ {0} /\ i + 1 > 1 /\ i + 1 - 1 = i
BY DEF PassAt, HandoffBase, HandoffAt

\* A step that leaves the disk, writes nothing and drops nothing.
LEMMA QuietStep ==
  ASSUME NEW p, NEW m, NEW i, PassAt(p, m, i), disk' = disk, steady' = steady,
         ~Writes(p[i]), p[i].do # "unlink",
         IsRows(made'), HMade(p, i + 1)', HPulled(p, i + 1)', HChecked(p, i + 1)',
         HPaired(p, i + 1)', HCovered(p, i + 1)'
  PROVE  HandoffBase' /\ HandoffAt(p, m, i + 1)'
<1>1. Written(p, i + 1) = Written(p, i) /\ Dropped(p, i + 1) = Dropped(p, i)
  BY InHandoffs, WrittenNext, DroppedNext
<1>2. /\ Fed(Written(p, i), inputs(m))' /\ Traced(Written(p, i), m)' /\ WholeAll(Written(p, i))'
      /\ Gone(Dropped(p, i))' /\ Matched(Written(p, i))' /\ HandoffBase'
  BY InHandoffs, SameDisk
<1> QED BY <1>1, <1>2 DEF HandoffAt

\* What files have together are rows.
LEMMA RowsRead ==
  ASSUME HandoffDisk, NEW N, N \subseteq HandoffFiles
  PROVE  IsRows(contents(N))
BY ContentsHas DEF HandoffDisk, IsRows

\* A step goes on, and what holds before a step holds before the next.
Goes(p, m, i) == Proceed /\ HandoffBase' /\ HandoffAt(p, m, i + 1)'

\* Memory that is left alone still is what it was read from.
LEMMA MadeKept ==
  ASSUME disk' = disk, steady' = steady, made' = made, NEW N, N \subseteq HandoffFiles, MadeOf(N)
  PROVE  MadeOf(N)'
<1>1. contents(N)' = contents(N)
  BY ContentsKept
<1>2. contents(N \ HandoffSources)' = contents(N \ HandoffSources)
  BY ContentsKept, N \ HandoffSources \subseteq HandoffFiles
<1> QED BY <1>1, <1>2 DEF MadeOf

\* A step that looks at files reads none that a pull works on or that was
\* removed.
LEMMA ReadsKnown ==
  ASSUME NEW p, NEW m, NEW i, PassAt(p, m, i), p[i].do \in {"open", "add", "derive"}
  PROVE  p[i].reads \subseteq HandoffFiles /\ p[i].reads \cap pulled = {}
         /\ p[i].reads \cap Dropped(p, i) = {}
BY InHandoffs, Names DEF StepFacts, OpenFacts

\* A process reads files of the handoffs.
LEMMA TakenFiles ==
  ASSUME NEW p, NEW m, NEW i, PassAt(p, m, i)
  PROVE  Taken(p, i) \subseteq HandoffFiles
BY InHandoffs DEF StepFacts

\* A cache that is there has a row of its own that is not cut.
LEMMA RowsOwned ==
  ASSUME OwnRows, NEW f \in HandoffCaches, exists(f)
  PROVE  \E v \in disk[f].from : v[1] = f /\ v[2] # cut_row
<1>1. cache_of(f) = f
  BY CacheNames
<1>2. \E v \in disk[f].from : v[1] = cache_of(f) /\ v[2] # cut_row
  BY DEF OwnRows
<1> QED BY <1>1, <1>2

\* Which steps compare the attribution with the runtime panel, and what they
\* have read.
LEMMA PairRead ==
  ASSUME NEW p, NEW m, NEW i, PassAt(p, m, i), p[i].do \in {"open", "add", "derive"},
         same_rows("attribution_blocks", "runtime_blocks") \in p[i].checks
  PROVE  /\ counted("runtime_blocks") \in p[i].checks
         /\ "runtime_blocks" \in p[i].reads
         /\ \/ /\ m = "fresh" /\ p[i].do = "add" /\ p[i].reads = {"runtime_blocks"}
               /\ Known(p, i) /\ Taken(p, i) = {"attribution_partial"}
               /\ "attribution_partial" \notin Dropped(p, i)
               /\ "runtime_partial" \in Dropped(p, i)
            \/ /\ p[i].do = "open" /\ p[i].reads = decomposition_inputs
               /\ counted("attribution_blocks") \in p[i].checks
               /\ m = "fresh" => "attribution_blocks" \in Written(p, i)
<1> DEFINE c == same_rows("attribution_blocks", "runtime_blocks")
<1>1. CheckFacts(p, i, m, c)
  BY InHandoffs DEF StepFacts
<1>2. c.is = "same_rows" /\ c # same_rows("refunds", "traces")
  BY DEF same_rows
<1>3. "runtime_blocks" \in decomposition_inputs
  BY DEF decomposition_inputs
<1> HIDE DEF c
<1> QED BY <1>1, <1>2, <1>3 DEF CheckFacts, SameRowsFacts, c

-----------------------------------------------------------------------------
(* A step that only reads: goes on, or fails.                              *)

\* The opening of a notebook goes on or fails: read_parquet and the checks of
\* its first cell.
LEMMA OpenGoes ==
  ASSUME NEW p, NEW m, NEW i, PassAt(p, m, i), Open
  PROVE  Goes(p, m, i) \/ Fail
<1> DEFINE R == p[i].reads
<1>1. step = p[i] /\ i \in Nat \ {0} /\ p[i].do = "open"
  BY ScriptStep DEF Open, Running
<1>2. CASE Fail
  BY <1>2
<1>3. CASE ~Fail
  <2>1. /\ readable(R) /\ passes(p[i].checks, contents(R)) /\ made' = contents(R)
        /\ Proceed /\ disk' = disk
    BY <1>1, <1>3 DEF Open
  <2>2. steady' = steady
    BY <2>1, ProceedKeeps
  <2>3. R \subseteq HandoffFiles /\ R \cap pulled = {}
    BY <1>1, ReadsKnown
  <2>4. HandoffDisk' /\ HandoffDisk
    BY <2>1, <2>2, InHandoffs, SameDisk DEF HandoffBase
  <2>5. contents(R)' = contents(R)
    BY <2>1, <2>3, ContentsKept
  <2>6. Starts(p[i]) /\ ~Writes(p[i]) /\ Takes(p[i]) = R
    BY <1>1 DEF Starts, Writes, Takes
  <2>7. Taken(p, i + 1) = R
    BY <1>1, <2>6, TakenNext
  <2>8. IsRows(made')
    BY <2>1, <2>3, <2>4, RowsRead
  <2>9. HMade(p, i + 1)'
    BY <2>1, <2>3, <2>4, <2>5, <2>7, MadeOfRead, StandingSame DEF HMade
  <2>10. HPulled(p, i + 1)'
    BY <2>3, <2>7 DEF HPulled
  <2>11. HChecked(p, i + 1)'
    BY <1>1, InHandoffs DEF HChecked
  <2>12. HPaired(p, i + 1)'
    <3> DEFINE c == same_rows("attribution_blocks", "runtime_blocks")
    <3> SUFFICES ASSUME Paired(p, i + 1) PROVE \E v : pair(v) \subseteq made'
      BY DEF HPaired
    <3>1. c \in p[i].checks
      BY <1>1, <2>6, PairedNext
    <3>2. /\ versions(made', "attribution_blocks") = versions(made', "runtime_blocks")
          /\ \A v, w \in versions(made', "attribution_blocks") : v = w
      BY <2>1, <3>1 DEF passes, holds, same_rows
    <3>3. "runtime_blocks" \in R /\ counted("runtime_blocks") \in p[i].checks
      BY <1>1, <3>1, PairRead
    <3>9. whole("runtime_blocks") /\ exists("runtime_blocks")
      BY <2>1, <3>3 DEF passes, holds, counted, whole, exists
    <3>4. PICK x \in disk["runtime_blocks"].from : x[1] = "runtime_blocks"
      <4>1. "runtime_blocks" \in HandoffCaches
        BY CacheNames
      <4> QED BY <3>9, <4>1, RowsOwned, InHandoffs DEF HandoffBase
    <3>5. x \in made' /\ x = <<x[1], x[2]>>
      BY <2>1, <2>3, <2>8, <3>3, ContentsHas DEF IsRows
    <3>6. x[2] \in versions(made', "runtime_blocks")
      BY <3>4, <3>5 DEF versions, on
    <3>7. PICK y \in made' : y[1] = "attribution_blocks" /\ y[2] = x[2]
      BY <3>2, <3>6 DEF versions, on
    <3>8. y = <<y[1], y[2]>>
      BY <2>8 DEF IsRows
    <3> QED BY <3>4, <3>5, <3>7, <3>8 DEF pair
  <2>13. HCovered(p, i + 1)'
    <3>1. Written(p, i + 1) = Written(p, i)
      BY <1>1, <2>6, WrittenNext
    <3>2. Covered(p, i + 1) => Covered(p, i)
      BY <1>1, CoveredNext
    <3>3. HCovered(p, i)
      BY InHandoffs
    <3> QED BY <2>1, <3>1, <3>2, <3>3 DEF HCovered
  <2> QED BY <1>1, <2>1, <2>2, <2>6, <2>8, <2>9, <2>10, <2>11, <2>12, <2>13, QuietStep DEF Goes
<1> QED BY <1>2, <1>3

\* Files no pull works on add themselves to what is read.
LEMMA StandingUnion ==
  ASSUME NEW N, NEW M, M \cap pulled = {}, disk' = disk
  PROVE  Standing(N \cup M)' = Standing(N) \cup M
<1>1. \A f : exists(f)' <=> exists(f)
  BY DEF exists
<1> QED BY <1>1 DEF Standing

\* Memory after a step that reads further files.
LEMMA MoreRead ==
  ASSUME NEW p, NEW m, NEW i, PassAt(p, m, i), disk' = disk, steady' = steady,
         p[i].do \in {"add", "inspect"}, Takes(p[i]) \subseteq HandoffFiles, Takes(p[i]) \cap pulled = {},
         made' = made \cup contents(Takes(p[i]))
  PROVE  IsRows(made') /\ HMade(p, i + 1)' /\ HPulled(p, i + 1)' /\ HPaired(p, i + 1)'
<1> DEFINE M == Takes(p[i])
           T == Taken(p, i)
           D == Dropped(p, i)
<1>1. ~Starts(p[i]) /\ p[i].do # "derive" /\ p[i].do # "open" /\ p[i].do # "unlink"
  BY DEF Starts
<1>2. /\ Taken(p, i + 1) = T \cup M /\ Dropped(p, i + 1) = D
      /\ Known(p, i + 1) <=> Known(p, i)
      /\ Paired(p, i + 1) => Paired(p, i)
  BY <1>1, InHandoffs, TakenNext, DroppedNext, KnownNext, PairedNext
<1>3. T \subseteq HandoffFiles /\ Standing(T) \subseteq HandoffFiles
  BY TakenFiles, StandingFiles
<1>4. IsRows(made')
  <2>1. IsRows(contents(M)) /\ IsRows(made)
    BY InHandoffs, RowsRead
  <2> QED BY <2>1 DEF IsRows
<1>5. HMade(p, i + 1)'
  <2> SUFFICES ASSUME Known(p, i + 1), Taken(p, i + 1) \cap Dropped(p, i + 1) = {}
               PROVE  \E N : N = Standing(T \cup M)' /\ MadeOf(N)'
    BY <1>2 DEF HMade
  <2>1. Known(p, i) /\ T \cap D = {}
    BY <1>2
  <2>2. PICK N : N = Standing(T) /\ MadeOf(N)
    BY <2>1, InHandoffs DEF HMade
  <2>3. Standing(T \cup M)' = N \cup M
    BY <2>2, StandingUnion
  <2>4. MadeOf(N \cup M)'
    BY <1>3, <2>2, InHandoffs, MadeOfMore
  <2> QED BY <2>3, <2>4
<1>6. HPulled(p, i + 1)'
  <2>1. HPulled(p, i)
    BY InHandoffs
  <2> QED BY <1>2, <2>1 DEF HPulled, exists, whole
<1>7. HPaired(p, i + 1)'
  <2>1. HPaired(p, i)
    BY InHandoffs
  <2> QED BY <1>2, <2>1 DEF HPaired
<1> QED BY <1>4, <1>5, <1>6, <1>7

\* A manifest cell goes on, with the rows of the tables it hashes, or fails.
LEMMA InspectGoes ==
  ASSUME NEW p, NEW m, NEW i, PassAt(p, m, i), Inspect
  PROVE  Goes(p, m, i) \/ Fail
<1>1. step = p[i] /\ i \in Nat \ {0} /\ p[i].do = "inspect"
  BY ScriptStep DEF Inspect, Running
<1>2. CASE Fail
  BY <1>2
<1>3. CASE ~Fail
  <2>1. Proceed /\ disk' = disk /\ made' = made
    BY <1>3 DEF Inspect, Check
  <2>2. steady' = steady
    BY <2>1, ProceedKeeps
  <2>3. Takes(p[i]) = {} /\ ~Writes(p[i])
    BY <1>1 DEF Takes, Writes
  <2>4. contents({}) = {}
    BY DEF contents
  <2>5. IsRows(made') /\ HMade(p, i + 1)' /\ HPulled(p, i + 1)' /\ HPaired(p, i + 1)'
    BY <1>1, <2>1, <2>2, <2>3, <2>4, MoreRead
  <2>6. HChecked(p, i + 1)'
    BY <1>1, InHandoffs DEF HChecked
  <2>7. HCovered(p, i + 1)'
    <3>1. Written(p, i + 1) = Written(p, i)
      BY <1>1, <2>3, WrittenNext
    <3>2. Covered(p, i + 1) => Covered(p, i)
      BY <1>1, CoveredNext
    <3> QED BY <2>1, <3>1, <3>2, InHandoffs DEF HCovered
  <2> QED BY <1>1, <2>1, <2>2, <2>3, <2>5, <2>6, <2>7, QuietStep DEF Goes
<1> QED BY <1>2, <1>3

\* A step that reads further files and checks them goes on or fails.
LEMMA AddGoes ==
  ASSUME NEW p, NEW m, NEW i, PassAt(p, m, i), Add
  PROVE  Goes(p, m, i) \/ Fail
<1> DEFINE R == p[i].reads
           taken == made \cup contents(R)
<1>1. step = p[i] /\ i \in Nat \ {0} /\ p[i].do = "add"
  BY ScriptStep DEF Add, Running
<1>2. CASE Fail
  BY <1>2
<1>3. CASE ~Fail
  <2>1. /\ readable(R) /\ passes(p[i].checks, taken) /\ made' = taken
        /\ Proceed /\ disk' = disk
    BY <1>1, <1>3 DEF Add
  <2>2. steady' = steady
    BY <2>1, ProceedKeeps
  <2>3. Takes(p[i]) = R /\ ~Writes(p[i])
    BY <1>1 DEF Takes, Writes
  <2>4. R \subseteq HandoffFiles /\ R \cap pulled = {}
    BY <1>1, ReadsKnown
  <2>5. IsRows(made') /\ HMade(p, i + 1)' /\ HPulled(p, i + 1)' /\ HPaired(p, i + 1)'
    BY <1>1, <2>1, <2>2, <2>3, <2>4, MoreRead
  <2>6. HChecked(p, i + 1)'
    <3>1. RowsHold(p[i].checks, made')
      BY <2>1 DEF passes, holds, RowsHold
    <3>2. p[i + 1 - 1] = p[i]
      BY <1>1
    <3> HIDE DEF taken
    <3>3. i \in Nat
      BY <1>1
    <3> QED BY <3>1, <3>2, <3>3 DEF HChecked
  <2>7. HCovered(p, i + 1)'
    <3>1. Written(p, i + 1) = Written(p, i)
      BY <1>1, <2>3, WrittenNext
    <3>2. CASE Covered(p, i)
      BY <2>1, <3>1, <3>2, InHandoffs DEF HCovered
    <3>3. CASE covers("refunds") \in p[i].checks
      <4>1. CheckFacts(p, i, m, covers("refunds"))
        BY <1>1, <3>3, InHandoffs DEF StepFacts
      <4>2. "refunds" \in Written(p, i) /\ R = {"refunds"}
        <5>1. \A g \in {"runtime_partial", "attribution_partial"} : cache_of(g) # "refunds"
          BY CacheNames
        <5> QED BY <4>1, <5>1 DEF CheckFacts, CoversFacts, covers
      <4>3. <<"refunds", cut_row>> \notin taken
        BY <2>1, <3>3 DEF passes, holds, covers
      <4>4. <<"refunds", cut_row>> \notin disk["refunds"].from
        BY <2>4, <4>2, <4>3, ContentsHas
      <4> QED BY <2>1, <3>1, <4>2, <4>4 DEF HCovered
    <3>4. CASE ~Covered(p, i) /\ covers("refunds") \notin p[i].checks
      BY <1>1, <3>4, CoveredNext DEF HCovered
    <3> QED BY <3>2, <3>3, <3>4
  <2> QED BY <1>1, <2>1, <2>2, <2>3, <2>5, <2>6, <2>7, QuietStep DEF Goes
<1> QED BY <1>2, <1>3

\* What a step that changes one file, of which nothing written is computed,
\* leaves true of the others.
LEMMA FileFrame ==
  ASSUME NEW p, NEW m, NEW i, PassAt(p, m, i),
         NEW f \in HandoffTables \cup Partials.handoffs, NEW x, Becomes(f, x), steady' = steady,
         f \notin HandoffCaches \cap Written(p, i), Apart(p, i, m, f)
  PROVE  LET W == Written(p, i) IN
    /\ \A g \in W \cap DOMAIN inputs(m) : g # f =>
         ((steady' \/ inputs(m)[g] \cap HandoffSources = {}) => disk'[g] = file(contents(inputs(m)[g]))')
    /\ (m = "fresh" /\ steady') =>
         \A g \in W \cap HandoffTables : g # f => \A v \in disk'[g].from : Based(v, W)' /\ Based(v, W \cup {f})'
    /\ \A g \in W \cap HandoffTables : g # f => disk'[g].is = "whole"
    /\ \A g \in Dropped(p, i) : g # f => disk'[g].is = "none"
    /\ Matched(W)'
    /\ "refunds" \in W => disk'["refunds"] = disk["refunds"]
<1> DEFINE W == Written(p, i)
           D == Dropped(p, i)
<1>1. HandoffDisk /\ f \in HandoffFiles /\ f \notin HandoffSources
  BY InHandoffs, Names
<1>2. /\ DOMAIN disk' = HandoffFiles /\ disk'[f] = x
      /\ \A g \in HandoffFiles : g # f => disk'[g] = disk[g]
  BY <1>1, Changed DEF HandoffDisk
<1>3. /\ Fed(W, inputs(m)) /\ Traced(W, m) /\ WholeAll(W) /\ Gone(D) /\ Matched(W)
      /\ W \subseteq HandoffTables \cup Partials.handoffs /\ D \subseteq Partials.handoffs
  BY InHandoffs DEF StepFacts
<1>4. HandoffCaches \subseteq HandoffFiles /\ HandoffSources \subseteq HandoffFiles
      /\ HandoffTables \subseteq HandoffFiles /\ Partials.handoffs \subseteq HandoffFiles
      /\ HandoffCaches \subseteq HandoffTables
  BY Names
<1>5. \A g \in W \cap DOMAIN inputs(m) : g # f =>
         ((steady' \/ inputs(m)[g] \cap HandoffSources = {}) => disk'[g] = file(contents(inputs(m)[g]))')
  <2> SUFFICES ASSUME NEW g \in W \cap DOMAIN inputs(m), g # f,
                      steady' \/ inputs(m)[g] \cap HandoffSources = {}
               PROVE  disk'[g] = file(contents(inputs(m)[g])')
    BY DEF file
  <2> DEFINE N == inputs(m)[g]
  <2>1. N \subseteq HandoffFiles /\ g \in HandoffFiles
    BY InputNames, Names
  <2>2. f \notin N
    BY DEF Apart
  <2>3. \A h \in N : disk'[h] = disk[h]
    BY <1>2, <2>1, <2>2
  <2>4. contents(N)' = contents(N)
    BY <2>1, <2>3, ContentsKept
  <2>5. disk[g] = file(contents(N))
    BY <1>3 DEF Fed
  <2> HIDE DEF N
  <2>6. disk'[g] = file(contents(N)')
    BY <1>2, <2>1, <2>4, <2>5
  <2> QED BY <2>6 DEF N
<1>6. \A v : Based(v, W) => Based(v, W)' /\ Based(v, W \cup {f})'
  <2> SUFFICES ASSUME NEW v, Based(v, W) PROVE Based(v, W)' /\ Based(v, W \cup {f})'
    OBVIOUS
  <2>1. CASE v[1] \in HandoffSources /\ v \in disk[v[1]].from
    <3>1. disk'[v[1]] = disk[v[1]]
      BY <1>1, <1>2, <1>4, <2>1
    <3> QED BY <2>1, <3>1 DEF Based
  <2>2. CASE \E c \in HandoffCaches \cap W : v \in disk[c].from
    <3>1. PICK c \in HandoffCaches \cap W : v \in disk[c].from
      BY <2>2
    <3>2. disk'[c] = disk[c]
      BY <1>2, <1>4, <3>1
    <3> QED BY <3>1, <3>2 DEF Based
  <2> QED BY <2>1, <2>2 DEF Based
<1>7. (m = "fresh" /\ steady') =>
         \A g \in W \cap HandoffTables : g # f => \A v \in disk'[g].from : Based(v, W)' /\ Based(v, W \cup {f})'
  <2> SUFFICES ASSUME m = "fresh", steady', NEW g \in W \cap HandoffTables, g # f, NEW v \in disk'[g].from
               PROVE  Based(v, W)' /\ Based(v, W \cup {f})'
    OBVIOUS
  <2>1. v \in disk[g].from
    BY <1>2, <1>4
  <2>2. Based(v, W)
    BY <1>3, <2>1 DEF Traced
  <2> QED BY <1>6, <2>2
<1>8. \A g \in W \cap HandoffTables : g # f => disk'[g].is = "whole"
  BY <1>2, <1>3, <1>4 DEF WholeAll, whole
<1>9. \A g \in D : g # f => disk'[g].is = "none"
  BY <1>2, <1>3, <1>4 DEF Gone, exists
<1>10. Matched(W)'
  <2>1. "attribution_blocks" \in HandoffCaches /\ "runtime_blocks" \in HandoffCaches
    BY CacheNames
  <2>2. CASE "attribution_blocks" \in W
    <3>1. "runtime_blocks" \in W
      BY <1>3, <2>2 DEF Matched
    <3>2. /\ disk'["attribution_blocks"] = disk["attribution_blocks"]
          /\ disk'["runtime_blocks"] = disk["runtime_blocks"]
      BY <1>2, <1>4, <2>1, <2>2, <3>1
    <3> QED BY <1>3, <3>1, <3>2 DEF Matched
  <2>3. CASE "attribution_blocks" \notin W
    BY <2>3 DEF Matched
  <2> QED BY <2>2, <2>3
<1>11. "refunds" \in W => disk'["refunds"] = disk["refunds"]
  BY <1>2, <1>4, CacheNames
<1> QED BY <1>5, <1>7, <1>8, <1>9, <1>10, <1>11

-----------------------------------------------------------------------------
(* A step that writes or removes a table.                                  *)

\* A file of rows, whole or cut.
MadeFile(x) == /\ x = [is |-> x.is, from |-> x.from]
               /\ x.is \in {"none", "torn", "whole"}
               /\ x.is = "none" => x.from = {}
               /\ IsRows(x.from)

\* One file of rows changes: the disk is still one of files of rows.
LEMMA DiskChanged ==
  ASSUME HandoffDisk, NEW f \in HandoffTables \cup Partials.handoffs, NEW x, Becomes(f, x), MadeFile(x)
  PROVE  /\ HandoffDisk' /\ disk'[f] = x
         /\ \A g \in HandoffFiles : g # f => disk'[g] = disk[g]
<1>1. f \in HandoffFiles /\ f \notin HandoffSources
  BY Names
<1>2. /\ DOMAIN disk' = HandoffFiles /\ disk'[f] = x
      /\ \A g \in HandoffFiles : g # f => disk'[g] = disk[g]
  BY <1>1, Changed DEF HandoffDisk
<1>3. \A g \in HandoffFiles : MadeFile(disk'[g])
  <2> SUFFICES ASSUME NEW g \in HandoffFiles PROVE MadeFile(disk'[g])
    OBVIOUS
  <2>1. MadeFile(disk[g])
    BY DEF HandoffDisk, MadeFile
  <2> QED BY <1>2, <2>1
<1>4. \A s \in HandoffSources : \E v \in Nat : disk'[s] = file({<<s, v>>})
  <2>1. \A s \in HandoffSources : disk'[s] = disk[s]
    BY <1>1, <1>2, Names
  <2> QED BY <2>1 DEF HandoffDisk
<1> QED BY <1>2, <1>3, <1>4 DEF HandoffDisk, MadeFile

\* What the base asks of a table that no cache is.
TableFile(f, x) ==
  /\ MadeFile(x)
  /\ (f \in {"anchor_accounting", "execution_repricing"} /\ x.is # "none") =>
       /\ on(x.from, {"blocks"}) # {}
       /\ \/ whole("rpc_blocks") /\ on(x.from, {"rpc_blocks"}) = disk["rpc_blocks"].from
          \/ moved(x.from)
  /\ (f = "demand_card" /\ x.is # "none") => \E v : pair(v) \subseteq x.from

\* A table that is not a cache changes, and what holds of the disk still does.
LEMMA BaseOfTable ==
  ASSUME HandoffBase, NEW f \in HandoffTables \cup Partials.handoffs, f \notin HandoffCaches \cup pulled,
         NEW x, Becomes(f, x), TableFile(f, x)
  PROVE  HandoffBase'
<1>1. /\ HandoffDisk' /\ disk'[f] = x
      /\ \A g \in HandoffFiles : g # f => disk'[g] = disk[g]
  BY DiskChanged DEF HandoffBase, TableFile
<1>2. \A c \in HandoffCaches \cup pulled : disk'[c] = disk[c]
  BY <1>1, Names
<1>3. OwnRows'
  BY <1>2 DEF OwnRows, HandoffBase, exists
<1>4. SavedRows'
  <2>1. /\ disk'["runtime_blocks"] = disk["runtime_blocks"]
        /\ disk'["attribution_blocks"] = disk["attribution_blocks"]
        /\ disk'["static_panel"] = disk["static_panel"]
        /\ disk'["runtime_partial"] = disk["runtime_partial"]
    BY <1>2, CacheNames
  <2> QED BY <2>1 DEF SavedRows, HandoffBase, exists, whole
<1>5. Sampled'
  <2>1. disk'["rpc_blocks"] = disk["rpc_blocks"]
    BY <1>2, CacheNames
  <2> SUFFICES ASSUME NEW g \in {"anchor_accounting", "execution_repricing"}, disk'[g].is # "none"
               PROVE  /\ on(disk'[g].from, {"blocks"}) # {}
                      /\ \/ disk'["rpc_blocks"].is = "whole" /\ on(disk'[g].from, {"rpc_blocks"}) = disk'["rpc_blocks"].from
                         \/ moved(disk'[g].from)
    BY DEF Sampled, exists, whole
  <2>2. CASE g = f
    BY <1>1, <2>1, <2>2 DEF TableFile, whole
  <2>3. CASE g # f
    <3>1. disk'[g] = disk[g]
      BY <1>1, <2>3, TableNames, Names
    <3> QED BY <3>1, <2>1 DEF HandoffBase, Sampled, exists, whole
  <2> QED BY <2>2, <2>3
<1>6. Weighed'
  <2>1. CASE f = "demand_card"
    BY <1>1, <2>1 DEF Weighed, TableFile, exists
  <2>2. CASE f # "demand_card"
    <3>1. disk'["demand_card"] = disk["demand_card"]
      BY <1>1, <2>2, TableNames, Names
    <3> QED BY <3>1 DEF HandoffBase, Weighed, exists
  <2> QED BY <2>1, <2>2
<1> QED BY <1>1, <1>3, <1>4, <1>5, <1>6 DEF HandoffBase

\* A process that resumed no pull has what it read.
LEMMA MadeNow ==
  ASSUME NEW p, NEW m, NEW i, PassAt(p, m, i), Known(p, i), Taken(p, i) \cap pulled = {},
         Taken(p, i) \subseteq HandoffTables \cup HandoffSources
  PROVE  MadeOf(Taken(p, i))
<1>1. Taken(p, i) \cap Dropped(p, i) = {}
  BY InHandoffs, Names DEF StepFacts
<1>2. HMade(p, i)
  BY InHandoffs
<1> QED BY <1>1, <1>2, StandingSame DEF HMade

\* A table that is written, or what a kill leaves of it.
LEMMA WrittenTable ==
  ASSUME NEW p, NEW m, NEW i, PassAt(p, m, i), p[i].do = "write",
         NEW x \in {file(made), torn(p[i].file, made)}
  PROVE  /\ p[i].file \in HandoffTables \cup Partials.handoffs
         /\ p[i].file \notin HandoffCaches \cup pulled
         /\ TableFile(p[i].file, x)
<1> DEFINE f == p[i].file
           T == Taken(p, i)
<1>1. WriteFacts(p, i, m)
  BY InHandoffs DEF StepFacts
<1>2. f \in HandoffTables \cup Partials.handoffs /\ f \notin HandoffCaches \cup pulled
  BY <1>1, Names, CacheNames DEF WriteFacts
<1>3. MadeFile(x)
  <2>1. f \notin HandoffSources \cup {"other_rate"}
    BY <1>2, Names
  <2> QED BY <2>1, InHandoffs DEF MadeFile, file, torn, rows, IsRows
<1>4. MadeOf(T)
  BY <1>1, MadeNow DEF WriteFacts
<1>5. \E S : x.from = made \cup S /\ S \subseteq {<<f, cut_row>>}
  <2>1. CASE x = file(made)
    <3>1. x.from = made
      BY <2>1 DEF file
    <3>2. \A S : S = {} => made \cup S = made /\ S \subseteq {<<f, cut_row>>}
      OBVIOUS
    <3> QED BY <3>1, <3>2
  <2>2. CASE x = torn(f, made)
    <3>1. x.from = made \cup {<<f, cut_row>>}
      BY <2>2 DEF torn, rows
    <3> QED BY <3>1
  <2> QED BY <2>1, <2>2
<1>6. ASSUME f \in {"anchor_accounting", "execution_repricing"}
      PROVE  /\ on(x.from, {"blocks"}) # {}
             /\ whole("rpc_blocks") /\ on(x.from, {"rpc_blocks"}) = disk["rpc_blocks"].from
  <2>1. /\ {"blocks", "rpc_blocks"} \subseteq T /\ "rpc_blocks" \in Written(p, i)
        /\ T \ HandoffSources \subseteq {"rpc_blocks", "refunds"}
    BY <1>1, <1>6 DEF WriteFacts
  <2>2. "rpc_blocks" \in HandoffCaches /\ "refunds" \in HandoffCaches /\ "blocks" \in HandoffSources
        /\ "rpc_blocks" \notin HandoffSources
    BY CacheNames
  <2>3. on(made, {"blocks"}) # {}
    BY <1>4, <2>1, <2>2 DEF MadeOf
  <2>4. whole("rpc_blocks")
    BY <2>1, <2>2, InHandoffs, Names DEF WholeAll
  <2>5. T \ HandoffSources \subseteq HandoffFiles
    BY TakenFiles
  <2>6. disk["rpc_blocks"].from \subseteq made
    BY <1>4, <2>1, <2>2, <2>5, ContentsHas DEF MadeOf
  <2>7. cache_of("rpc_blocks") = "rpc_blocks" /\ cache_of("refunds") = "refunds"
    BY <2>2, CacheNames
  <2>8. \A v \in disk["rpc_blocks"].from : v[1] = "rpc_blocks"
    BY <2>2, <2>7, InHandoffs DEF HandoffBase, OwnRows
  <2>9. \A v \in disk["refunds"].from : v[1] # "rpc_blocks"
    BY <2>2, <2>7, InHandoffs DEF HandoffBase, OwnRows
  <2>10. \A v \in made : v[1] = "rpc_blocks" => v \in disk["rpc_blocks"].from
    <3> SUFFICES ASSUME NEW v \in made, v[1] = "rpc_blocks" PROVE v \in disk["rpc_blocks"].from
      OBVIOUS
    <3>1. PICK g \in T \ HandoffSources : v \in disk[g].from
      BY <1>4, <2>2, <2>5, ContentsHas DEF MadeOf
    <3> QED BY <2>1, <2>9, <3>1
  <2>11. on(made, {"rpc_blocks"}) = disk["rpc_blocks"].from
    BY <2>6, <2>8, <2>10 DEF on
  <2>12. PICK S : x.from = made \cup S /\ S \subseteq {<<f, cut_row>>}
    BY <1>5
  <2>13. \A v \in S : v[1] # "rpc_blocks" /\ v[1] # "blocks"
    BY <2>12, <1>6
  <2>14. on(x.from, {"rpc_blocks"}) = on(made, {"rpc_blocks"})
    BY <2>12, <2>13 DEF on
  <2>15. on(made, {"blocks"}) \subseteq on(x.from, {"blocks"})
    BY <2>12 DEF on
  <2> QED BY <2>3, <2>4, <2>11, <2>14, <2>15
<1>7. ASSUME f = "demand_card"
      PROVE  \E v : pair(v) \subseteq x.from
  <2>1. Paired(p, i) /\ Known(p, i)
    BY <1>1, <1>7 DEF WriteFacts
  <2>2. PICK v : pair(v) \subseteq made
    BY <2>1, InHandoffs DEF HPaired
  <2> QED BY <1>5, <2>2
<1> QED BY <1>2, <1>3, <1>6, <1>7 DEF TableFile

\* Memory still is what files have that did not change.
LEMMA MadeStays ==
  ASSUME NEW N, N \subseteq HandoffFiles, \A g \in N : disk'[g] = disk[g],
         made' = made, steady' = steady, MadeOf(N)
  PROVE  MadeOf(N)'
<1>1. contents(N)' = contents(N)
  BY ContentsKept
<1>2. contents(N \ HandoffSources)' = contents(N \ HandoffSources)
  BY ContentsKept, N \ HandoffSources \subseteq HandoffFiles
<1> QED BY <1>1, <1>2 DEF MadeOf

\* Rows of a table that are from what the pass wrote and from the sources.
LEMMA RowsBased ==
  ASSUME NEW W, HandoffDisk, Traced(W, "fresh"), steady,
         NEW N, N \subseteq (W \cap HandoffTables) \cup HandoffSources, NEW v \in contents(N)
  PROVE  Based(v, W)
<1>1. N \subseteq HandoffFiles
  BY Names
<1>2. PICK f \in N : v \in disk[f].from
  BY <1>1, ContentsHas
<1>3. CASE f \in HandoffSources
  <2>1. PICK w \in Nat : disk[f].from = {<<f, w>>}
    BY <1>3, SourceRows
  <2> QED BY <1>2, <1>3, <2>1 DEF Based
<1>4. CASE f \in W \cap HandoffTables
  BY <1>2, <1>4 DEF Traced
<1> QED BY <1>3, <1>4

\* What the demand card and the shocks are computed from holds no source.
LEMMA ShocksInputs ==
  ASSUME NEW m
  PROVE  /\ "demand_card" \in DOMAIN inputs(m) /\ "shocks" \in DOMAIN inputs(m)
         /\ inputs(m)["demand_card"] = {"runtime_blocks", "attribution_blocks", "metering_anchor", "equilibrium_anchor"}
         /\ inputs(m)["shocks"] = {"contiguous_panel", "contiguous_bal", "current_data", "demand_card"}
         /\ inputs(m)["demand_card"] \cap HandoffSources = {}
         /\ inputs(m)["shocks"] \cap HandoffSources = {}
BY DEF inputs, fed, decomposition_inputs, build_full_multiscale_workload, HandoffSources

\* to_parquet of a table goes on, and the table is what the process has read.
LEMMA WriteGoes ==
  ASSUME NEW p, NEW m, NEW i, PassAt(p, m, i), Write
  PROVE  Goes(p, m, i)
<1> DEFINE f == p[i].file
           T == Taken(p, i)
           W == Written(p, i)
           V == W \cup {f}
           x == file(made)
<1>1. step = p[i] /\ i \in Nat \ {0} /\ p[i].do = "write"
  BY ScriptStep DEF Write, Running
<1>2. Proceed /\ Becomes(f, x) /\ made' = made
  BY <1>1 DEF Write, Becomes
<1>3. steady' = steady
  BY <1>2, ProceedKeeps
<1>4. WriteFacts(p, i, m)
  BY <1>1, InHandoffs DEF StepFacts
<1>5. /\ f \in HandoffTables \cup Partials.handoffs /\ f \notin HandoffCaches \cup pulled
      /\ TableFile(f, x)
  BY <1>1, WrittenTable
<1>6. HandoffBase'
  BY <1>2, <1>5, BaseOfTable, InHandoffs
<1>7. /\ HandoffDisk /\ DOMAIN disk = HandoffFiles
      /\ disk'[f] = x /\ \A g \in HandoffFiles : g # f => disk'[g] = disk[g]
  BY <1>2, <1>5, DiskChanged, InHandoffs DEF TableFile, HandoffDisk
<1>8. /\ ~Starts(p[i]) /\ Writes(p[i]) /\ Takes(p[i]) = {}
      /\ p[i].do # "unlink" /\ p[i].do # "derive" /\ p[i].do # "add"  /\ p[i].do # "open"
  BY <1>1 DEF Starts, Writes, Takes
<1>9. /\ Taken(p, i + 1) = T /\ Written(p, i + 1) = V /\ Dropped(p, i + 1) = Dropped(p, i)
      /\ Known(p, i + 1) <=> Known(p, i)
      /\ Paired(p, i + 1) => Paired(p, i)
      /\ Covered(p, i + 1) => Covered(p, i)
  <2>1. Taken(p, i + 1) = T
    BY <1>1, <1>8, TakenNext
  <2>2. Written(p, i + 1) = V
    BY <1>1, <1>8, WrittenNext
  <2>3. Dropped(p, i + 1) = Dropped(p, i)
    BY <1>1, <1>8, DroppedNext
  <2>4. Known(p, i + 1) <=> Known(p, i)
    BY <1>1, <1>8, KnownNext
  <2>5. Paired(p, i + 1) => Paired(p, i)
    BY <1>1, <1>8, PairedNext
  <2>6. Covered(p, i + 1) => Covered(p, i)
    BY <1>1, <1>8, CoveredNext
  <2> QED BY <2>1, <2>2, <2>3, <2>4, <2>5, <2>6
<1>10. /\ T \subseteq HandoffTables \cup HandoffSources /\ T \cap pulled = {} /\ Known(p, i)
       /\ f \notin T /\ T \subseteq HandoffFiles /\ f \notin Dropped(p, i) /\ Apart(p, i, m, f)
       /\ (m = "fresh" => T \subseteq (W \cap HandoffTables) \cup HandoffSources)
  BY <1>4, TakenFiles DEF WriteFacts
<1>11. MadeOf(T) /\ MadeOf(T)'
  <2>1. MadeOf(T)
    BY <1>10, MadeNow
  <2>2. \A g \in T : disk'[g] = disk[g]
    BY <1>7, <1>10
  <2> QED BY <1>2, <1>3, <1>10, <2>1, <2>2, MadeStays
<1>12. /\ \A g \in W \cap DOMAIN inputs(m) : g # f =>
            ((steady' \/ inputs(m)[g] \cap HandoffSources = {}) => disk'[g] = file(contents(inputs(m)[g]))')
       /\ (m = "fresh" /\ steady') =>
            \A g \in W \cap HandoffTables : g # f => \A v \in disk'[g].from : Based(v, W)' /\ Based(v, V)'
       /\ \A g \in W \cap HandoffTables : g # f => disk'[g].is = "whole"
       /\ \A g \in Dropped(p, i) : g # f => disk'[g].is = "none"
       /\ Matched(W)'
       /\ "refunds" \in W => disk'["refunds"] = disk["refunds"]
  BY <1>2, <1>3, <1>5, <1>10, FileFrame
<1>13. IsRows(made')
  BY <1>2, InHandoffs
<1>14. HMade(p, i + 1)'
  BY <1>9, <1>10, <1>11, StandingSame DEF HMade
<1>15. HPulled(p, i + 1)'
  BY <1>9, <1>10 DEF HPulled
<1>16. HChecked(p, i + 1)'
  BY <1>1, <1>8, InHandoffs DEF HChecked
<1>17. HPaired(p, i + 1)'
  BY <1>2, <1>9, InHandoffs DEF HPaired
<1>18. HCovered(p, i + 1)'
  BY <1>9, <1>12, InHandoffs DEF HCovered
<1>19. Fed(V, inputs(m))'
  <2> SUFFICES ASSUME NEW g \in V \cap DOMAIN inputs(m), steady' \/ inputs(m)[g] \cap HandoffSources = {}
               PROVE  disk'[g] = file(contents(inputs(m)[g]))'
    BY DEF Fed
  <2>1. CASE g # f
    BY <1>12, <2>1 DEF file
  <2>2. CASE g = f
    <3> DEFINE N == inputs(m)[f]
    <3>0. N \subseteq HandoffFiles /\ N \subseteq HandoffTables \cup HandoffSources
      BY <2>2, InputNames, Names
    <3>4. made = contents(N) /\ f \notin N
      <4>1. CASE T = N
        <5>1. steady \/ T \cap HandoffSources = {}
          BY <1>3, <2>2, <4>1
        <5> QED BY <1>10, <1>11, <4>1, <5>1 DEF MadeOf
      <4>2. CASE f = "shocks" /\ "demand_card" \in W /\ T = N \cup {"metering_anchor"}
        <5> DEFINE C == inputs(m)["demand_card"]
        <5>1. "demand_card" \in DOMAIN inputs(m) /\ C \cap HandoffSources = {}
              /\ "metering_anchor" \in C /\ N \cap HandoffSources = {} /\ "demand_card" \in N
              /\ C \subseteq HandoffFiles
          BY <4>2, ShocksInputs, InputNames, Names
        <5>2. T \cap HandoffSources = {}
          BY <1>10, <4>2, <5>1, TableNames, Names
        <5>3. made = contents(T)
          BY <1>11, <5>2 DEF MadeOf
        <5>4. disk["demand_card"] = file(contents(C))
          BY <4>2, <5>1, InHandoffs DEF Fed
        <5>5. disk["demand_card"].from = contents(C)
          BY <5>4 DEF file
        <5> HIDE DEF C
        <5>6. disk["metering_anchor"].from \subseteq disk["demand_card"].from
          BY <5>1, <5>5, ContentsHas
        <5>7. contents(T) = contents(N)
          <6> HIDE DEF N, T
          <6>1. \A v : v \in contents(T) <=> v \in contents(N)
            BY <1>10, <3>0, <4>2, <5>1, <5>6, ContentsHas
          <6>2. contents(T) \subseteq contents(N) /\ contents(N) \subseteq contents(T)
            BY <6>1
          <6> QED BY <6>2
        <5> QED BY <1>10, <4>2, <5>3, <5>7
      <4> QED BY <1>4, <2>2, <4>1, <4>2 DEF WriteFacts
    <3>1. \A h \in N : disk'[h] = disk[h]
      BY <1>7, <3>0, <3>4
    <3>2. contents(N)' = contents(N)
      BY <3>0, <3>1, ContentsKept
    <3> HIDE DEF N
    <3>5. disk'[f] = file(contents(N)')
      BY <1>7, <3>2, <3>4
    <3>6. disk'[f].is = "whole"
      BY <1>7 DEF file
    <3> QED BY <2>2, <3>5 DEF N
  <2> QED BY <2>1, <2>2
<1>20. Traced(V, m)'
  <2> SUFFICES ASSUME m = "fresh", steady', NEW g \in V \cap HandoffTables, NEW v \in disk'[g].from
               PROVE  Based(v, V)'
    BY DEF Traced
  <2>1. CASE g # f
    BY <1>12, <2>1
  <2>2. CASE g = f
    <3>1. v \in made /\ steady /\ made = contents(T)
      BY <1>3, <1>7, <1>11, <2>2 DEF file, MadeOf
    <3>2. Traced(W, "fresh")
      BY InHandoffs
    <3>3. Based(v, W)
      BY <1>7, <1>10, <3>1, <3>2, RowsBased
    <3>4. \A c \in HandoffCaches \cup HandoffSources : disk'[c] = disk[c]
      BY <1>5, <1>7, Names
    <3> QED BY <3>3, <3>4 DEF Based
  <2> QED BY <2>1, <2>2
<1>21. WholeAll(V)'
  BY <1>7, <1>12 DEF WholeAll, whole, file
<1>22. Gone(Dropped(p, i))'
  BY <1>10, <1>12 DEF Gone, exists
<1>23. Matched(V)'
  BY <1>5, <1>12, CacheNames DEF Matched
<1> QED BY <1>2, <1>6, <1>9, <1>13, <1>14, <1>15, <1>16, <1>17, <1>18, <1>19, <1>20, <1>21, <1>22, <1>23
        DEF Goes, HandoffAt

\* Caches and partial files are removed; of the sampled rows only drifted or
\* cut ones.
LEMMA BaseRemoved ==
  ASSUME HandoffBase, NEW R, R \subseteq HandoffCaches \cup Partials.handoffs,
         DOMAIN disk' = HandoffFiles,
         \A g \in HandoffFiles : disk'[g] = IF g \in R THEN missing ELSE disk[g],
         "rpc_blocks" \in R => \E v \in disk["rpc_blocks"].from : drifted(v) \/ v[2] = cut_row
  PROVE  HandoffBase'
<1>0. missing.is = "none" /\ missing.from = {} /\ MadeFile(missing)
  BY DEF missing, MadeFile, IsRows
<1>1. HandoffDisk'
  <2>1. \A g \in HandoffFiles : MadeFile(disk'[g])
    <3> SUFFICES ASSUME NEW g \in HandoffFiles PROVE MadeFile(disk'[g])
      OBVIOUS
    <3>1. MadeFile(disk[g])
      BY DEF HandoffDisk, HandoffBase, MadeFile
    <3> QED BY <1>0, <3>1
  <2>2. \A s \in HandoffSources : \E v \in Nat : disk'[s] = file({<<s, v>>})
    <3>1. \A s \in HandoffSources : disk'[s] = disk[s]
      BY Names
    <3> QED BY <3>1 DEF HandoffDisk, HandoffBase
  <2> QED BY <2>1, <2>2 DEF HandoffDisk, MadeFile
<1>2. HandoffCaches \cup pulled \subseteq HandoffFiles
  BY Names
<1>3. OwnRows'
  BY <1>0, <1>2 DEF OwnRows, HandoffBase, exists
<1>4. SavedRows'
  <2>1. \A g \in {"runtime_blocks", "attribution_blocks", "static_panel", "runtime_partial"} :
          disk'[g] = missing \/ disk'[g] = disk[g]
    BY <1>2, CacheNames
  <2> QED BY <1>0, <2>1 DEF SavedRows, HandoffBase, exists, whole
<1>5. Sampled'
  <2> SUFFICES ASSUME NEW g \in {"anchor_accounting", "execution_repricing"}, disk'[g].is # "none"
               PROVE  /\ on(disk'[g].from, {"blocks"}) # {}
                      /\ \/ disk'["rpc_blocks"].is = "whole" /\ on(disk'[g].from, {"rpc_blocks"}) = disk'["rpc_blocks"].from
                         \/ moved(disk'[g].from)
    BY DEF Sampled, exists, whole
  <2>1. disk'[g] = disk[g]
    BY TableNames, Names
  <2>2. /\ on(disk[g].from, {"blocks"}) # {}
        /\ \/ disk["rpc_blocks"].is = "whole" /\ on(disk[g].from, {"rpc_blocks"}) = disk["rpc_blocks"].from
           \/ moved(disk[g].from)
    BY <2>1 DEF Sampled, HandoffBase, exists, whole
  <2>3. CASE moved(disk[g].from)
    BY <2>1, <2>2, <2>3
  <2>4. CASE on(disk[g].from, {"rpc_blocks"}) = disk["rpc_blocks"].from /\ "rpc_blocks" \in R
    <3>1. PICK v \in disk["rpc_blocks"].from : drifted(v) \/ v[2] = cut_row
      BY <2>4
    <3>2. moved(disk[g].from)
      BY <2>4, <3>1 DEF moved, on
    <3> QED BY <2>1, <2>2, <3>2
  <2>5. CASE "rpc_blocks" \notin R
    <3>1. disk'["rpc_blocks"] = disk["rpc_blocks"]
      BY <1>2, <2>5, CacheNames
    <3> QED BY <2>1, <2>2, <3>1
  <2> QED BY <2>2, <2>3, <2>4, <2>5
<1>6. Weighed'
  <2>1. disk'["demand_card"] = disk["demand_card"]
    BY TableNames, Names
  <2> QED BY <2>1 DEF HandoffBase, Weighed, exists
<1> QED BY <1>1, <1>3, <1>4, <1>5, <1>6 DEF HandoffBase

\* A partial file is removed at the end of its pull.
LEMMA UnlinkGoes ==
  ASSUME NEW p, NEW m, NEW i, PassAt(p, m, i), Unlink
  PROVE  Goes(p, m, i)
<1> DEFINE f == p[i].file
           T == Taken(p, i)
           W == Written(p, i)
           D == Dropped(p, i)
<1>1. step = p[i] /\ i \in Nat \ {0} /\ p[i].do = "unlink"
  BY ScriptStep DEF Unlink, Running
<1>2. Proceed /\ Becomes(f, missing) /\ made' = made
  BY <1>1 DEF Unlink, Becomes
<1>3. steady' = steady
  BY <1>2, ProceedKeeps
<1>4. f \in Partials.handoffs /\ f \in HandoffFiles /\ f \notin HandoffTables /\ f \notin HandoffCaches
  BY <1>1, InHandoffs, Names DEF StepFacts
<1>5. /\ DOMAIN disk' = HandoffFiles /\ disk'[f] = missing
      /\ \A g \in HandoffFiles : g # f => disk'[g] = disk[g]
  BY <1>2, <1>4, Changed, InHandoffs DEF HandoffDisk
<1>6. HandoffBase'
  <2>1. {f} \subseteq HandoffCaches \cup Partials.handoffs /\ "rpc_blocks" \notin {f}
    BY <1>4, CacheNames, Names
  <2>2. \A g \in HandoffFiles : disk'[g] = IF g \in {f} THEN missing ELSE disk[g]
    BY <1>5
  <2> QED BY <1>5, <2>1, <2>2, BaseRemoved, InHandoffs
<1>7. Apart(p, i, m, f)
  BY <1>4, InputNames, Names DEF Apart
<1>8. /\ ~Starts(p[i]) /\ ~Writes(p[i]) /\ Takes(p[i]) = {}
      /\ p[i].do # "derive" /\ p[i].do # "add"  /\ p[i].do # "open"
  BY <1>1 DEF Starts, Writes, Takes
<1>9. /\ Taken(p, i + 1) = T /\ Written(p, i + 1) = W /\ Dropped(p, i + 1) = D \cup {f}
      /\ Known(p, i + 1) <=> Known(p, i)
      /\ Paired(p, i + 1) => Paired(p, i)
      /\ Covered(p, i + 1) => Covered(p, i)
  <2>1. Taken(p, i + 1) = T
    BY <1>1, <1>8, TakenNext
  <2>2. Written(p, i + 1) = W
    BY <1>1, <1>8, WrittenNext
  <2>3. Dropped(p, i + 1) = D \cup {f}
    BY <1>1, <1>8, DroppedNext
  <2>4. Known(p, i + 1) <=> Known(p, i)
    BY <1>1, <1>8, KnownNext
  <2>5. Paired(p, i + 1) => Paired(p, i)
    BY <1>1, <1>8, PairedNext
  <2>6. Covered(p, i + 1) => Covered(p, i)
    BY <1>1, <1>8, CoveredNext
  <2> QED BY <2>1, <2>2, <2>3, <2>4, <2>5, <2>6
<1>12. /\ \A g \in W \cap DOMAIN inputs(m) : g # f =>
            ((steady' \/ inputs(m)[g] \cap HandoffSources = {}) => disk'[g] = file(contents(inputs(m)[g]))')
       /\ (m = "fresh" /\ steady') =>
            \A g \in W \cap HandoffTables : g # f => \A v \in disk'[g].from : Based(v, W)' /\ Based(v, W \cup {f})'
       /\ \A g \in W \cap HandoffTables : g # f => disk'[g].is = "whole"
       /\ \A g \in D : g # f => disk'[g].is = "none"
       /\ Matched(W)'
       /\ "refunds" \in W => disk'["refunds"] = disk["refunds"]
  <2>1. f \in HandoffTables \cup Partials.handoffs /\ f \notin HandoffCaches \cap W
    BY <1>4
  <2> QED BY <1>2, <1>3, <1>7, <2>1, FileFrame
<1>13. IsRows(made')
  BY <1>2, InHandoffs
<1>14. HMade(p, i + 1)'
  <2> SUFFICES ASSUME Known(p, i), T \cap (D \cup {f}) = {}
               PROVE  \E N : N = Standing(T)' /\ MadeOf(N)'
    BY <1>9 DEF HMade
  <2>1. PICK N : N = Standing(T) /\ MadeOf(N)
    BY InHandoffs DEF HMade
  <2>2. T \subseteq HandoffFiles /\ N \subseteq HandoffFiles
    BY <2>1, TakenFiles, StandingFiles
  <2>3. \A g \in T : disk'[g] = disk[g]
    BY <1>5, <2>2
  <2>4. N = Standing(T)'
    BY <2>1, <2>3 DEF Standing, exists
  <2>5. f \notin N
    <3>1. \A n \in pulled : cache_of(n) \in HandoffCaches
      BY CacheNames
    <3> QED BY <1>4, <2>1, <3>1 DEF Standing
  <2>6. \A g \in N : disk'[g] = disk[g]
    BY <1>5, <2>2, <2>5
  <2>7. MadeOf(N)'
    BY <1>2, <1>3, <2>1, <2>2, <2>6, MadeStays
  <2> QED BY <2>4, <2>7
<1>15. HPulled(p, i + 1)'
  <2> SUFFICES ASSUME NEW g \in (pulled \cap T) \ (D \cup {f})
               PROVE  /\ disk'[g].is # "none" => disk'[g].is = "whole"
                      /\ disk'[g].is = "none" => g = "runtime_partial" /\ disk'[cache_of(g)].is = "whole"
    BY <1>9 DEF HPulled, exists, whole
  <2>1. g \in HandoffFiles /\ cache_of(g) \in HandoffCaches /\ cache_of(g) \in HandoffFiles
    BY CacheNames, Names
  <2>2. disk'[g] = disk[g] /\ disk'[cache_of(g)] = disk[cache_of(g)]
    BY <1>4, <1>5, <2>1
  <2> QED BY <2>2, InHandoffs DEF HPulled, exists, whole
<1>16. HChecked(p, i + 1)'
  BY <1>1, <1>8, InHandoffs DEF HChecked
<1>17. HPaired(p, i + 1)'
  BY <1>2, <1>9, InHandoffs DEF HPaired
<1>18. HCovered(p, i + 1)'
  BY <1>9, <1>12, InHandoffs DEF HCovered
<1>19. Fed(W, inputs(m))'
  <2> SUFFICES ASSUME NEW g \in W \cap DOMAIN inputs(m), steady' \/ inputs(m)[g] \cap HandoffSources = {}
               PROVE  disk'[g] = file(contents(inputs(m)[g]))'
    BY DEF Fed
  <2>1. g # f
    BY <1>4, InputNames
  <2> QED BY <1>12, <2>1 DEF file
<1>20. Traced(W, m)'
  BY <1>4, <1>12 DEF Traced
<1>21. WholeAll(W)'
  BY <1>4, <1>12 DEF WholeAll, whole
<1>22. Gone(D \cup {f})'
  <2>1. missing.is = "none"
    BY DEF missing
  <2> QED BY <1>5, <1>12, <2>1 DEF Gone, exists
<1> QED BY <1>2, <1>6, <1>9, <1>12, <1>13, <1>14, <1>15, <1>16, <1>17, <1>18, <1>19, <1>20, <1>21, <1>22
        DEF Goes, HandoffAt

\* The table a script derives, whole or cut, is as the base asks.
LEMMA DerivedTable ==
  ASSUME NEW p, NEW m, NEW i, PassAt(p, m, i), p[i].do = "derive",
         NEW x \in {file(contents(p[i].reads)), torn(p[i].file, contents(p[i].reads))}
  PROVE  /\ p[i].file \in HandoffTables \cup Partials.handoffs
         /\ p[i].file \notin HandoffCaches \cup pulled
         /\ TableFile(p[i].file, x)
<1>1. DeriveFacts(p, i, m)
  BY InHandoffs DEF StepFacts
<1>2. /\ p[i].file \in HandoffTables \cup Partials.handoffs /\ p[i].file \notin HandoffCaches \cup pulled
  BY <1>1, Names DEF DeriveFacts
<1>3. IsRows(contents(p[i].reads))
  BY ReadsKnown, RowsRead, InHandoffs
<1>4. MadeFile(x)
  <2>1. p[i].file \notin HandoffSources \cup {"other_rate"}
    BY <1>2, Names
  <2> QED BY <1>3, <2>1 DEF MadeFile, file, torn, rows, IsRows
<1> QED BY <1>1, <1>2, <1>4 DEF TableFile, DeriveFacts

\* A script that derives a table writes it whole, or fails, perhaps with the
\* table cut.
LEMMA DeriveGoes ==
  ASSUME NEW p, NEW m, NEW i, PassAt(p, m, i), Derive
  PROVE  Goes(p, m, i) \/ Fail
<1> DEFINE f == p[i].file
           R == p[i].reads
           T == Taken(p, i)
           W == Written(p, i)
           D == Dropped(p, i)
           x == file(contents(R))
<1>1. step = p[i] /\ i \in Nat \ {0} /\ p[i].do = "derive"
  BY ScriptStep DEF Derive, Running
<1>2. DeriveFacts(p, i, m)
  BY <1>1, InHandoffs DEF StepFacts
<1>3. /\ f \in HandoffTables \cup Partials.handoffs /\ f \notin HandoffCaches \cup pulled
      /\ TableFile(f, x) /\ f \in HandoffTables
  BY <1>1, <1>2, DerivedTable DEF DeriveFacts
<1>4. R \subseteq HandoffFiles /\ R \cap pulled = {}
  BY <1>1, ReadsKnown
<1>5. Takes(p[i]) = R /\ p[i].do # "unlink" /\ p[i].do # "add" /\ p[i].do # "open"
  BY <1>1 DEF Takes
<1>6. /\ Dropped(p, i + 1) = D
      /\ Covered(p, i + 1) => Covered(p, i)
  BY <1>1, <1>5, DroppedNext, CoveredNext
<1>7. f \notin D
  BY <1>3, InHandoffs, Names DEF StepFacts
<1>8. HChecked(p, i + 1)'
  BY <1>1, <1>5, InHandoffs DEF HChecked
<1>9. CASE Fail
  BY <1>9
<1>10. CASE ~Fail
  <2>1. CASE Proceed /\ Becomes(f, x) /\ made' = contents(R) /\ (p[i].again \/ ~exists(f))
    <3>1. steady' = steady
      BY <2>1, ProceedKeeps
    <3>2. HandoffBase'
      BY <1>3, <2>1, BaseOfTable, InHandoffs
    <3>3. /\ HandoffDisk /\ HandoffDisk' /\ DOMAIN disk = HandoffFiles
          /\ disk'[f] = x /\ \A g \in HandoffFiles : g # f => disk'[g] = disk[g]
      BY <1>3, <2>1, DiskChanged, InHandoffs DEF TableFile, HandoffDisk
    <3>4. \A g \in R : disk'[g] = disk[g]
      BY <1>2, <1>4, <3>3 DEF DeriveFacts
    <3>5. contents(R)' = contents(R)
      BY <1>4, <3>4, ContentsKept
    <3>6. IsRows(made')
      BY <1>4, <2>1, <3>3, RowsRead
    <3>7. /\ \A g \in W \cap DOMAIN inputs(m) : g # f =>
                ((steady' \/ inputs(m)[g] \cap HandoffSources = {}) => disk'[g] = file(contents(inputs(m)[g]))')
          /\ (m = "fresh" /\ steady') =>
                \A g \in W \cap HandoffTables : g # f => \A v \in disk'[g].from : Based(v, W)' /\ Based(v, W \cup {f})'
          /\ \A g \in W \cap HandoffTables : g # f => disk'[g].is = "whole"
          /\ \A g \in D : g # f => disk'[g].is = "none"
          /\ Matched(W)'
          /\ "refunds" \in W => disk'["refunds"] = disk["refunds"]
      <4>1. f \notin HandoffCaches \cap W /\ Apart(p, i, m, f)
        BY <1>2, <1>3 DEF DeriveFacts
      <4> QED BY <1>3, <2>1, <3>1, <4>1, FileFrame
    <3>8. Gone(D)'
      BY <1>7, <3>7 DEF Gone, exists
    <3>9. CASE p[i].again
      <4>1. Starts(p[i]) /\ Writes(p[i])
        BY <1>1, <3>9 DEF Starts, Writes
      <4>2. Taken(p, i + 1) = R /\ Written(p, i + 1) = W \cup {f}
        BY <1>1, <1>5, <4>1, TakenNext, WrittenNext
      <4>3. ~Paired(p, i + 1)
        BY <1>1, <1>5, <4>1, PairedNext
      <4>4. HMade(p, i + 1)'
        BY <1>4, <2>1, <3>3, <3>5, <4>2, MadeOfRead, StandingSame DEF HMade
      <4>5. HPulled(p, i + 1)' /\ HPaired(p, i + 1)'
        BY <1>4, <4>2, <4>3 DEF HPulled, HPaired
      <4>6. HCovered(p, i + 1)'
        BY <1>6, <3>7, <4>2, InHandoffs DEF HCovered
      <4>7. Fed(W \cup {f}, inputs(m))'
        <5> SUFFICES ASSUME NEW g \in (W \cup {f}) \cap DOMAIN inputs(m), steady' \/ inputs(m)[g] \cap HandoffSources = {}
                     PROVE  disk'[g] = file(contents(inputs(m)[g]))'
          BY DEF Fed
        <5>1. CASE g # f
          BY <3>7, <5>1 DEF file
        <5>2. CASE g = f
          <6>1. R = inputs(m)[g]
            BY <1>2, <3>9, <5>2 DEF DeriveFacts
          <6>2. disk'[g] = file(contents(R)')
            BY <3>3, <3>5, <5>2
          <6> HIDE DEF R
          <6> QED BY <6>1, <6>2 DEF file
        <5> QED BY <5>1, <5>2
      <4>8. Traced(W \cup {f}, m)'
        <5> SUFFICES ASSUME m = "fresh", steady', NEW g \in (W \cup {f}) \cap HandoffTables, NEW v \in disk'[g].from
                     PROVE  Based(v, W \cup {f})'
          BY DEF Traced
        <5>1. CASE g # f
          BY <3>7, <5>1
        <5>2. CASE g = f
          <6>1. v \in contents(R) /\ steady
            BY <3>1, <3>3, <5>2 DEF file
          <6>2. Traced(W, "fresh") /\ R \subseteq (W \cap HandoffTables) \cup HandoffSources
            BY <1>1, InHandoffs DEF StepFacts, OpenFacts
          <6>3. Based(v, W)
            BY <3>3, <6>1, <6>2, RowsBased
          <6>4. \A c \in HandoffCaches \cup HandoffSources : disk'[c] = disk[c]
            BY <1>3, <3>3, Names
          <6> QED BY <6>3, <6>4 DEF Based
        <5> QED BY <5>1, <5>2
      <4>9. WholeAll(W \cup {f})'
        BY <3>3, <3>7 DEF WholeAll, whole, file
      <4>10. Matched(W \cup {f})'
        BY <1>3, <3>7, CacheNames DEF Matched
      <4> QED BY <1>6, <1>8, <2>1, <3>2, <3>6, <3>8, <4>2, <4>4, <4>5, <4>6, <4>7, <4>8, <4>9, <4>10 DEF Goes, HandoffAt
    <3>10. CASE ~p[i].again
      <4>1. ~Starts(p[i]) /\ ~Writes(p[i]) /\ f \notin W /\ m # "fresh"
        BY <1>1, <1>2, <3>10 DEF Starts, Writes, DeriveFacts
      <4>2. Taken(p, i + 1) = T \cup R /\ Written(p, i + 1) = W
        BY <1>1, <1>5, <4>1, TakenNext, WrittenNext
      <4>3. ~Known(p, i + 1)
        BY <1>1, <4>1, KnownNext
      <4>4. HMade(p, i + 1)' /\ HPaired(p, i + 1)'
        BY <4>3 DEF HMade, HPaired
      <4>5. HPulled(p, i + 1)'
        <5> SUFFICES ASSUME NEW g \in (pulled \cap T) \ D
                     PROVE  /\ disk'[g].is # "none" => disk'[g].is = "whole"
                            /\ disk'[g].is = "none" => g = "runtime_partial" /\ disk'[cache_of(g)].is = "whole"
          BY <1>4, <1>6, <4>2 DEF HPulled, exists, whole
        <5>1. g \in HandoffFiles /\ cache_of(g) \in HandoffCaches /\ cache_of(g) \in HandoffFiles
          BY CacheNames, Names
        <5>2. disk'[g] = disk[g] /\ disk'[cache_of(g)] = disk[cache_of(g)]
          BY <1>3, <3>3, <5>1
        <5> QED BY <5>2, InHandoffs DEF HPulled, exists, whole
      <4>6. HCovered(p, i + 1)'
        BY <1>6, <3>7, <4>2, InHandoffs DEF HCovered
      <4>7. Fed(W, inputs(m))'
        <5> SUFFICES ASSUME NEW g \in W \cap DOMAIN inputs(m), steady' \/ inputs(m)[g] \cap HandoffSources = {}
                     PROVE  disk'[g] = file(contents(inputs(m)[g]))'
          BY DEF Fed
        <5>1. g # f
          BY <4>1
        <5> QED BY <3>7, <5>1 DEF file
      <4>8. Traced(W, m)'
        BY <4>1 DEF Traced
      <4>9. WholeAll(W)'
        BY <3>7, <4>1 DEF WholeAll, whole
      <4> QED BY <1>6, <1>8, <2>1, <3>2, <3>6, <3>7, <3>8, <4>2, <4>4, <4>5, <4>6, <4>7, <4>8, <4>9 DEF Goes, HandoffAt
    <3> QED BY <3>9, <3>10
  <2>2. CASE Proceed /\ disk' = disk /\ made' = made /\ ~p[i].again
    <3>1. steady' = steady
      BY <2>2, ProceedKeeps
    <3>2. ~Starts(p[i]) /\ ~Writes(p[i])
      BY <1>1, <2>2 DEF Starts, Writes
    <3>3. Taken(p, i + 1) = T \cup R /\ Written(p, i + 1) = W /\ ~Known(p, i + 1)
      BY <1>1, <1>5, <3>2, TakenNext, WrittenNext, KnownNext
    <3>4. IsRows(made') /\ HMade(p, i + 1)' /\ HPaired(p, i + 1)'
      BY <2>2, <3>3, InHandoffs DEF HMade, HPaired
    <3>5. HPulled(p, i + 1)'
      BY <1>4, <1>6, <2>2, <3>3, InHandoffs DEF HPulled, exists, whole
    <3>6. HCovered(p, i + 1)'
      BY <1>6, <2>2, <3>3, InHandoffs DEF HCovered
    <3> QED BY <1>5, <1>8, <2>2, <3>1, <3>2, <3>4, <3>5, <3>6, QuietStep DEF Goes
  <2> QED BY <1>1, <1>10, <2>1, <2>2 DEF Derive, Becomes
<1> QED BY <1>9, <1>10

-----------------------------------------------------------------------------
(* A step of a pull: its cache is saved, or its partial file resumed.      *)

\* A cache but the refunds, and what a pull works on, has rows of that cache
\* alone.
LEMMA PulledRows ==
  ASSUME OwnRows, NEW g \in pulled \cup HandoffCaches, g # "refunds", NEW v \in disk[g].from
  PROVE  v[1] = cache_of(g)
BY DEF OwnRows

\* What is at hand when the rows of a pull are saved: those of the partial
\* file g, or those of the cache if there was nothing to ask for.
SavedFrom(f, g, T, D) ==
  /\ f = cache_of(g) /\ f \in HandoffCaches /\ f # g
  /\ f \notin {"refunds", "rpc_blocks", "static_panel"}
  /\ g \in T /\ g \notin D
  /\ T \cap pulled = {g} /\ f \notin T
  /\ file(on(made, {f})) = IF exists(g) THEN disk[g] ELSE disk[f]
  /\ on(made, {f}) = (IF exists(g) THEN disk[g] ELSE disk[f]).from
\* Some of the rows are not cut.
SomeRow(S) == \E v \in S : v[2] # cut_row

\* What a pull saves as its cache: all its partial file has, or the cache as
\* it was.
LEMMA SavedIs ==
  ASSUME NEW p, NEW m, NEW i, PassAt(p, m, i), p[i].do = "save"
  PROVE  /\ \E g \in pulled : SavedFrom(p[i].file, g, Taken(p, i), Dropped(p, i))
         /\ made = contents(Standing(Taken(p, i)))
         /\ SomeRow(on(made, {p[i].file}))
<1> DEFINE f == p[i].file
           T == Taken(p, i)
<1>1. SaveFacts(p, i, m)
  BY InHandoffs DEF StepFacts
<1>2. PICK g \in pulled : /\ f = cache_of(g) /\ T \subseteq {g, "runtime_blocks"} /\ g \in T
                          /\ g \notin Dropped(p, i) /\ (T # {g} => f = "attribution_blocks")
                          /\ f \notin {"refunds", "rpc_blocks", "static_panel"}
  BY <1>1, CacheNames DEF SaveFacts
<1>3. f \in HandoffCaches /\ g # "refunds" /\ f # g /\ f \notin T /\ T \cap pulled = {g} /\ f \in HandoffFiles
      /\ g \in HandoffFiles /\ "runtime_blocks" \in HandoffFiles
      /\ "runtime_blocks" \in HandoffCaches /\ cache_of(f) = f /\ cache_of("runtime_blocks") = "runtime_blocks"
      /\ g \notin HandoffSources /\ "runtime_blocks" \notin HandoffSources /\ f \notin HandoffSources
  BY <1>2, CacheNames, Names
<1>4. Known(p, i) /\ T \cap Dropped(p, i) = {}
  BY <1>1, <1>2, <1>3, InHandoffs, Names DEF SaveFacts, StepFacts
<1>5. PICK N : N = Standing(T) /\ MadeOf(N)
  BY <1>4, InHandoffs DEF HMade
<1> DEFINE h == IF exists(g) THEN g ELSE f
<1>6. /\ h \in N /\ N \subseteq {h, "runtime_blocks"} /\ (T = {g} => N = {h})
  BY <1>2, <1>3, <1>5 DEF Standing
<1>7. h \in HandoffFiles /\ h \notin HandoffSources /\ N \subseteq HandoffFiles /\ cache_of(h) = f /\ h # "refunds"
  BY <1>2, <1>3, <1>6
<1>8. made = contents(N)
  <2>1. N \cap HandoffSources = {}
    BY <1>3, <1>6, <1>7
  <2> QED BY <1>5, <2>1 DEF MadeOf
<1>9. OwnRows /\ HandoffDisk /\ HPulled(p, i)
  BY InHandoffs DEF HandoffBase
<1>10. h \in pulled \cup HandoffCaches
  BY <1>3
<1>11. \A v \in disk[h].from : v[1] = f
  BY <1>7, <1>9, <1>10, PulledRows
<1>12. disk[h].from \subseteq made
  BY <1>6, <1>7, <1>8, ContentsHas
<1>13. \A v \in made : v[1] = f => v \in disk[h].from
  <2> SUFFICES ASSUME NEW v \in made, v[1] = f PROVE v \in disk[h].from
    OBVIOUS
  <2>1. PICK k \in N : v \in disk[k].from
    BY <1>7, <1>8, ContentsHas
  <2>2. CASE k = h
    BY <2>1, <2>2
  <2>3. CASE k # h
    <3>1. k = "runtime_blocks" /\ f = "attribution_blocks"
      BY <1>2, <1>6, <2>1, <2>3
    <3>2. v[1] = "runtime_blocks"
      BY <1>3, <1>9, <2>1, <3>1, PulledRows
    <3> QED BY <3>1, <3>2
  <2> QED BY <2>2, <2>3
<1>14. on(made, {f}) = disk[h].from
  BY <1>11, <1>12, <1>13 DEF on
<1>15. disk[h].is = "whole" /\ exists(h)
  <2>1. /\ exists(g) => whole(g)
        /\ ~exists(g) => whole(cache_of(g))
    BY <1>2, <1>9 DEF HPulled
  <2> QED BY <1>2, <2>1 DEF whole, exists
<1>16. disk[h] = file(disk[h].from)
  BY <1>7, <1>9, <1>15 DEF HandoffDisk, file
<1>17. \E v \in disk[h].from : v[2] # cut_row
  BY <1>9, <1>10, <1>15 DEF OwnRows
<1>18. file(on(made, {f})) = disk[h]
  BY <1>14, <1>16
<1>19. disk[h] = IF exists(g) THEN disk[g] ELSE disk[f]
  OBVIOUS
<1>20. made = contents(Standing(T))
  BY <1>5, <1>8
<1> HIDE DEF h
<1>21. SavedFrom(f, g, T, Dropped(p, i))
  BY <1>2, <1>3, <1>14, <1>18, <1>19 DEF SavedFrom
<1>22. SomeRow(on(made, {f}))
  BY <1>14, <1>17 DEF SomeRow
<1> QED BY <1>20, <1>21, <1>22

\* One version of the attribution, and no cut row in what is saved.
LEMMA SavedOnce ==
  ASSUME NEW p, NEW m, NEW i, PassAt(p, m, i), p[i].do = "save"
  PROVE  /\ p[i].file = "runtime_blocks" => <<"runtime_blocks", cut_row>> \notin made
         /\ p[i].file = "attribution_blocks" =>
              /\ "runtime_blocks" \in Written(p, i)
              /\ \E v : /\ v # cut_row /\ on(made, {"attribution_blocks"}) = {<<"attribution_blocks", v>>}
                        /\ disk["runtime_blocks"].from = {<<"runtime_blocks", v>>}
<1>1. SaveFacts(p, i, m) /\ HChecked(p, i) /\ IsRows(made)
  BY InHandoffs DEF StepFacts, PassAt, HandoffAt
<1>2. p[i - 1].do = "add" => RowsHold(p[i - 1].checks, made)
  BY <1>1 DEF SaveFacts, HChecked
<1>3. ASSUME p[i].file = "runtime_blocks"
      PROVE  <<"runtime_blocks", cut_row>> \notin made
  <2>1. p[i - 1].do = "add" /\ covers("runtime_blocks") \in p[i - 1].checks
    BY <1>1, <1>3 DEF SaveFacts
  <2> QED BY <1>2, <2>1 DEF RowsHold, covers
<1>4. ASSUME p[i].file = "attribution_blocks"
      PROVE  /\ "runtime_blocks" \in Written(p, i)
             /\ \E v : /\ v # cut_row /\ on(made, {"attribution_blocks"}) = {<<"attribution_blocks", v>>}
                       /\ disk["runtime_blocks"].from = {<<"runtime_blocks", v>>}
  <2>1. /\ p[i - 1].do = "add" /\ same_rows("attribution_blocks", "runtime_blocks") \in p[i - 1].checks
        /\ "runtime_blocks" \in Written(p, i) /\ Taken(p, i) = {"attribution_partial", "runtime_blocks"}
    BY <1>1, <1>4 DEF SaveFacts
  <2>2. /\ versions(made, "attribution_blocks") = versions(made, "runtime_blocks")
        /\ \A v, w \in versions(made, "attribution_blocks") : v = w
    BY <1>2, <2>1 DEF RowsHold, same_rows
  <2>3. "runtime_blocks" \in HandoffCaches /\ "attribution_blocks" \in HandoffCaches
        /\ "runtime_blocks" \notin pulled /\ "runtime_blocks" \in HandoffTables
        /\ cache_of("runtime_blocks") = "runtime_blocks" /\ "runtime_blocks" \in HandoffFiles
    BY CacheNames, Names
  <2>4. whole("runtime_blocks") /\ OwnRows /\ SavedRows /\ HandoffDisk
    BY <2>1, <2>3, InHandoffs DEF WholeAll, HandoffBase
  <2>5. PICK x \in on(made, {"attribution_blocks"}) : TRUE
    <3>1. SomeRow(on(made, {p[i].file}))
      BY SavedIs
    <3> QED BY <1>4, <3>1 DEF SomeRow
  <2> DEFINE v == x[2]
  <2>6. v \in versions(made, "attribution_blocks")
    BY <2>5 DEF versions
  <2>7. on(made, {"attribution_blocks"}) = {<<"attribution_blocks", v>>}
    <3>1. \A y \in on(made, {"attribution_blocks"}) : y = <<"attribution_blocks", y[2]>> /\ y[2] \in versions(made, "attribution_blocks")
      BY <1>1 DEF on, IsRows, versions
    <3>2. \A y \in on(made, {"attribution_blocks"}) : y[2] = v
      BY <2>2, <2>6, <3>1
    <3>3. \A y \in on(made, {"attribution_blocks"}) : y = <<"attribution_blocks", v>>
      BY <3>1, <3>2
    <3> QED BY <2>5, <3>3
  <2>8. \A y \in disk["runtime_blocks"].from : y \in made /\ y = <<"runtime_blocks", y[2]>> /\ y[2] = v
    <3> SUFFICES ASSUME NEW y \in disk["runtime_blocks"].from
                 PROVE  y \in made /\ y = <<"runtime_blocks", y[2]>> /\ y[2] = v
      OBVIOUS
    <3>1. y \in made
      <4> DEFINE N == Standing(Taken(p, i))
      <4>1. made = contents(N)
        BY <1>4, SavedIs
      <4>2. "runtime_blocks" \in N /\ N \subseteq HandoffFiles
        BY <2>1, <2>3, TakenFiles, StandingFiles DEF Standing
      <4> HIDE DEF N
      <4> QED BY <4>1, <4>2, ContentsHas
    <3>2. y[1] = "runtime_blocks" /\ y = <<y[1], y[2]>>
      BY <2>3, <2>4, PulledRows DEF HandoffDisk, IsRows
    <3>3. y[2] \in versions(made, "runtime_blocks")
      BY <3>1, <3>2 DEF versions, on
    <3> QED BY <2>2, <2>6, <3>1, <3>2, <3>3
  <2>9. disk["runtime_blocks"].from = {<<"runtime_blocks", v>>} /\ v # cut_row
    <3>1. exists("runtime_blocks")
      BY <2>4 DEF whole, exists
    <3>2. PICK y \in disk["runtime_blocks"].from : TRUE
      BY <2>3, <2>4, <3>1, RowsOwned
    <3>3. disk["runtime_blocks"].from = {<<"runtime_blocks", v>>}
      BY <2>8, <3>2
    <3>4. <<"runtime_blocks", cut_row>> \notin disk["runtime_blocks"].from
      BY <2>4 DEF SavedRows
    <3> QED BY <3>3, <3>4
  <2> QED BY <2>1, <2>7, <2>9
<1> QED BY <1>3, <1>4

\* The base, of a cache that is saved, or of what a kill leaves of it.
LEMMA BaseOfSaved ==
  ASSUME NEW p, NEW m, NEW i, PassAt(p, m, i), p[i].do = "save",
         NEW x, \/ x = file(on(made, {p[i].file}))
                \/ x = torn(p[i].file, on(made, {p[i].file})),
         Becomes(p[i].file, x)
  PROVE  HandoffBase'
<1> DEFINE f == p[i].file
           S == on(made, {f})
<1>0. PICK g \in pulled : SavedFrom(f, g, Taken(p, i), Dropped(p, i))
  BY SavedIs
<1>1. /\ f = cache_of(g) /\ f \in HandoffCaches /\ f # g
      /\ f \notin {"refunds", "rpc_blocks", "static_panel"}
      /\ file(S) = IF exists(g) THEN disk[g] ELSE disk[f]
      /\ S = (IF exists(g) THEN disk[g] ELSE disk[f]).from
      /\ \E v \in S : v[2] # cut_row
  <2>1. SomeRow(S)
    BY SavedIs
  <2> QED BY <1>0, <2>1 DEF SavedFrom, SomeRow
<1>2. /\ x.is \in {"torn", "whole"} /\ S \subseteq x.from /\ x.from \subseteq S \cup {<<f, cut_row>>}
      /\ x.is = "whole" => x = file(S) /\ x.from = S
      /\ x = [is |-> x.is, from |-> x.from]
  BY DEF file, torn, rows
<1>3. IsRows(made) /\ HandoffBase /\ HandoffDisk /\ OwnRows /\ SavedRows
  BY InHandoffs DEF HandoffBase
<1>4. MadeFile(x)
  <2>1. f \notin HandoffSources \cup {"other_rate"}
    BY <1>1, Names
  <2> QED BY <1>2, <1>3, <2>1 DEF MadeFile, IsRows, on
<1>5. /\ f \in HandoffTables /\ f \in HandoffFiles /\ cache_of(f) = f /\ f \notin pulled
      /\ HandoffCaches \cup pulled \subseteq HandoffFiles
  BY <1>1, CacheNames, Names
<1>6. /\ HandoffDisk' /\ disk'[f] = x
      /\ \A h \in HandoffFiles : h # f => disk'[h] = disk[h]
  BY <1>3, <1>4, <1>5, DiskChanged
<1>7. \A v \in S : v[1] = f
  BY DEF on
<1>8. OwnRows'
  <2> SUFFICES ASSUME NEW h \in HandoffCaches \cup pulled
               PROVE  /\ \A v \in disk'[h].from : v[1] = cache_of(h) \/ (h = "refunds" /\ v[1] = "other_rate")
                      /\ disk'[h].is # "none" => \E v \in disk'[h].from : v[1] = cache_of(h) /\ v[2] # cut_row
    BY DEF OwnRows, exists
  <2>1. CASE h = f
    <3>1. \A v \in x.from : v[1] = f
      BY <1>2, <1>7
    <3>2. \E v \in x.from : v[1] = f /\ v[2] # cut_row
      BY <1>1, <1>2, <1>7
    <3> QED BY <1>5, <1>6, <2>1, <3>1, <3>2
  <2>2. CASE h # f
    <3>1. disk'[h] = disk[h]
      BY <1>5, <1>6, <2>2
    <3> QED BY <1>3, <3>1 DEF OwnRows, exists
  <2> QED BY <2>1, <2>2
<1>9. SavedRows'
  <2>0. {"runtime_blocks", "attribution_blocks", "static_panel", "runtime_partial"} \subseteq HandoffFiles
    BY <1>5, CacheNames
  <2>1. disk'["static_panel"] = disk["static_panel"] /\ disk'["runtime_partial"] = disk["runtime_partial"]
    BY <1>1, <1>5, <1>6, <2>0, CacheNames
  <2>2. disk'["runtime_blocks"].is = "whole" =>
           /\ <<"runtime_blocks", cut_row>> \notin disk'["runtime_blocks"].from
           /\ disk["runtime_partial"].is # "none" => disk["runtime_partial"] = disk'["runtime_blocks"]
    <3>1. CASE f = "runtime_blocks"
      <4>1. <<"runtime_blocks", cut_row>> \notin S
        BY <3>1, SavedOnce DEF on
      <4>2. g = "runtime_partial"
        BY <1>1, <3>1, CacheNames
      <4> QED BY <1>1, <1>2, <1>6, <3>1, <4>1, <4>2 DEF exists
    <3>2. CASE f # "runtime_blocks"
      <4>1. disk'["runtime_blocks"] = disk["runtime_blocks"]
        BY <1>6, <2>0, <3>2
      <4> QED BY <1>3, <4>1 DEF SavedRows, whole, exists
    <3> QED BY <3>1, <3>2
  <2>3. disk'["attribution_blocks"].is = "whole" =>
           \E v : v # cut_row /\ disk'["attribution_blocks"].from = {<<"attribution_blocks", v>>}
    <3>1. CASE f = "attribution_blocks"
      <4>1. PICK v : v # cut_row /\ S = {<<"attribution_blocks", v>>}
        BY <3>1, SavedOnce
      <4> QED BY <1>2, <1>6, <3>1, <4>1
    <3>2. CASE f # "attribution_blocks"
      <4>1. disk'["attribution_blocks"] = disk["attribution_blocks"]
        BY <1>6, <2>0, <3>2
      <4> QED BY <1>3, <4>1 DEF SavedRows, whole
    <3> QED BY <3>1, <3>2
  <2> QED BY <1>3, <2>1, <2>2, <2>3 DEF SavedRows, whole, exists
<1>10. Sampled' /\ Weighed'
  <2>1. \A h \in {"anchor_accounting", "execution_repricing", "demand_card", "rpc_blocks"} : disk'[h] = disk[h]
    <3>1. \A h \in {"anchor_accounting", "execution_repricing", "demand_card", "rpc_blocks"} : h \in HandoffFiles /\ h # f
      BY <1>1, TableNames, CacheNames, Names
    <3> QED BY <1>6, <3>1
  <2> QED BY <1>3, <2>1 DEF HandoffBase, Sampled, Weighed, exists, whole
<1> QED BY <1>6, <1>8, <1>9, <1>10 DEF HandoffBase

\* No table that is computed from others is a cache.
LEMMA CachesAlone ==
  ASSUME NEW m, NEW f \in DOMAIN inputs(m)
  PROVE  f \notin HandoffCaches \cup pulled
BY DEF inputs, fed, simulated, repriced, HandoffCaches, Caches, pulled

\* A pull that has checked its rows saves the cache and goes on.
LEMMA SaveGoes ==
  ASSUME NEW p, NEW m, NEW i, PassAt(p, m, i), Save
  PROVE  Goes(p, m, i)
<1> DEFINE f == p[i].file
           T == Taken(p, i)
           W == Written(p, i)
           D == Dropped(p, i)
           x == file(on(made, {f}))
<1>1. step = p[i] /\ i \in Nat \ {0} /\ p[i].do = "save"
  BY ScriptStep DEF Save, Running
<1>2. Proceed /\ Becomes(f, x) /\ made' = made
  BY <1>1 DEF Save, Becomes
<1>3. steady' = steady
  BY <1>2, ProceedKeeps
<1>0. PICK g \in pulled : SavedFrom(f, g, T, D)
  BY <1>1, SavedIs
<1>4. /\ f = cache_of(g) /\ f \in HandoffCaches /\ f # g
      /\ g \in T /\ g \notin D /\ T \cap pulled = {g} /\ f \notin T
      /\ x = IF exists(g) THEN disk[g] ELSE disk[f]
      /\ f \notin {"refunds", "rpc_blocks", "static_panel"}
  BY <1>0 DEF SavedFrom
<1>5. SaveFacts(p, i, m)
  BY <1>1, InHandoffs DEF StepFacts
<1>6. /\ f \in HandoffTables /\ f \in HandoffFiles /\ f \notin pulled /\ g \in HandoffFiles /\ f \notin D
      /\ f \notin W /\ Apart(p, i, m, f) /\ f \notin HandoffSources /\ T \subseteq HandoffFiles
  BY <1>4, <1>5, CacheNames, Names, TakenFiles, InHandoffs DEF SaveFacts, StepFacts
<1>7. HandoffBase'
  BY <1>1, <1>2, BaseOfSaved
<1>8. /\ disk'[f] = x /\ \A h \in HandoffFiles : h # f => disk'[h] = disk[h]
  BY <1>2, <1>6, Changed, InHandoffs DEF HandoffDisk
<1>9. /\ ~Starts(p[i]) /\ Writes(p[i]) /\ Takes(p[i]) = {}
      /\ p[i].do # "unlink" /\ p[i].do # "derive" /\ p[i].do # "add"  /\ p[i].do # "open"
  BY <1>1 DEF Starts, Writes, Takes
<1>10. /\ Taken(p, i + 1) = T /\ Written(p, i + 1) = W \cup {f} /\ Dropped(p, i + 1) = D
       /\ Known(p, i + 1) <=> Known(p, i)
       /\ Paired(p, i + 1) => Paired(p, i)
       /\ Covered(p, i + 1) => Covered(p, i)
  <2>1. Taken(p, i + 1) = T
    BY <1>1, <1>9, TakenNext
  <2>2. Written(p, i + 1) = W \cup {f}
    BY <1>1, <1>9, WrittenNext
  <2>3. Dropped(p, i + 1) = D
    BY <1>1, <1>9, DroppedNext
  <2>4. Known(p, i + 1) <=> Known(p, i)
    BY <1>1, <1>9, KnownNext
  <2>5. Paired(p, i + 1) => Paired(p, i)
    BY <1>1, <1>9, PairedNext
  <2>6. Covered(p, i + 1) => Covered(p, i)
    BY <1>1, <1>9, CoveredNext
  <2> QED BY <2>1, <2>2, <2>3, <2>4, <2>5, <2>6
<1>11. /\ \A h \in W \cap DOMAIN inputs(m) : h # f =>
            ((steady' \/ inputs(m)[h] \cap HandoffSources = {}) => disk'[h] = file(contents(inputs(m)[h]))')
       /\ (m = "fresh" /\ steady') =>
            \A h \in W \cap HandoffTables : h # f => \A v \in disk'[h].from : Based(v, W)' /\ Based(v, W \cup {f})'
       /\ \A h \in W \cap HandoffTables : h # f => disk'[h].is = "whole"
       /\ \A h \in D : h # f => disk'[h].is = "none"
       /\ Matched(W)'
       /\ "refunds" \in W => disk'["refunds"] = disk["refunds"]
  BY <1>2, <1>3, <1>6, FileFrame
<1>12. x.is = "whole" /\ x.from = on(made, {f})
  BY DEF file
<1>13. IsRows(made')
  BY <1>2, InHandoffs
<1>14. \A h \in pulled : disk'[h] = disk[h]
  BY <1>6, <1>8, Names
<1>15. HMade(p, i + 1)'
  <2> SUFFICES ASSUME Known(p, i), T \cap D = {}
               PROVE  \E N : N = Standing(T)' /\ MadeOf(N)'
    BY <1>10 DEF HMade
  <2>1. PICK N : N = Standing(T) /\ MadeOf(N)
    BY InHandoffs DEF HMade
  <2>2. N \subseteq HandoffFiles
    BY <1>6, <2>1, StandingFiles
  <2>3. N = Standing(T)'
    BY <1>14, <2>1 DEF Standing, exists
  <2>4. f \in N => ~exists(g)
    <3> SUFFICES ASSUME f \in N PROVE ~exists(g)
      OBVIOUS
    <3>1. PICK n \in T : f = IF n \in pulled /\ ~exists(n) THEN cache_of(n) ELSE n
      BY <2>1 DEF Standing
    <3>2. n = g
      BY <1>4, <3>1
    <3> QED BY <1>4, <3>1, <3>2
  <2>5. \A h \in N : disk'[h] = disk[h]
    BY <1>4, <1>8, <2>2, <2>4
  <2>6. MadeOf(N)'
    BY <1>2, <1>3, <2>1, <2>2, <2>5, MadeStays
  <2> QED BY <2>3, <2>6
<1>16. HPulled(p, i + 1)'
  <2> SUFFICES ASSUME NEW h \in (pulled \cap T) \ D
               PROVE  /\ disk'[h].is # "none" => disk'[h].is = "whole"
                      /\ disk'[h].is = "none" => h = "runtime_partial" /\ disk'[cache_of(h)].is = "whole"
    BY <1>10 DEF HPulled, exists, whole
  <2>1. h = g /\ disk'[h] = disk[h] /\ disk'[cache_of(h)].is = "whole"
    BY <1>4, <1>8, <1>12, <1>14
  <2> QED BY <2>1, InHandoffs DEF HPulled, exists, whole
<1>17. HChecked(p, i + 1)'
  BY <1>1, <1>9, InHandoffs DEF HChecked
<1>18. HPaired(p, i + 1)'
  BY <1>2, <1>10, InHandoffs DEF HPaired
<1>19. HCovered(p, i + 1)'
  BY <1>10, <1>11, InHandoffs DEF HCovered
<1>20. Fed(W \cup {f}, inputs(m))'
  <2> SUFFICES ASSUME NEW h \in (W \cup {f}) \cap DOMAIN inputs(m), steady' \/ inputs(m)[h] \cap HandoffSources = {}
               PROVE  disk'[h] = file(contents(inputs(m)[h]))'
    BY DEF Fed
  <2>1. h # f
    BY <1>4, CachesAlone
  <2> QED BY <1>11, <2>1 DEF file
<1>21. Traced(W \cup {f}, m)'
  <2> SUFFICES ASSUME m = "fresh", steady', NEW h \in (W \cup {f}) \cap HandoffTables, NEW v \in disk'[h].from
               PROVE  Based(v, W \cup {f})'
    BY DEF Traced
  <2>1. CASE h # f
    BY <1>11, <2>1
  <2>2. CASE h = f
    BY <1>4, <2>2 DEF Based
  <2> QED BY <2>1, <2>2
<1>22. WholeAll(W \cup {f})'
  BY <1>8, <1>11, <1>12 DEF WholeAll, whole
<1>23. Gone(D)'
  BY <1>6, <1>11 DEF Gone, exists
<1>24. Matched(W \cup {f})'
  <2>1. CASE f = "attribution_blocks"
    <3>1. PICK v : /\ on(made, {"attribution_blocks"}) = {<<"attribution_blocks", v>>}
                   /\ disk["runtime_blocks"].from = {<<"runtime_blocks", v>>}
      BY <1>1, <2>1, SavedOnce
    <3>2. "runtime_blocks" \in W
      BY <1>1, <2>1, SavedOnce
    <3>3. disk'["runtime_blocks"] = disk["runtime_blocks"]
      BY <1>6, <1>8, <3>2, CacheNames, Names
    <3> QED BY <1>8, <1>12, <2>1, <3>1, <3>2, <3>3 DEF Matched
  <2>2. CASE f # "attribution_blocks"
    BY <1>11, <2>2 DEF Matched
  <2> QED BY <2>1, <2>2
<1> QED BY <1>2, <1>7, <1>10, <1>13, <1>15, <1>16, <1>17, <1>18, <1>19, <1>20, <1>21, <1>22, <1>23, <1>24
        DEF Goes, HandoffAt

\* The file whose rows a pull starts from.
resumed(f) == IF f = "runtime_partial" /\ ~exists(f) THEN "runtime_blocks" ELSE f

\* The least of a set of numbers, as the model chooses it.
LEMMA LeastOf ==
  ASSUME NEW S, S \subseteq Int, NEW a \in S, \A k \in S : a <= k
  PROVE  (CHOOSE n \in S : \A k \in S : n <= k) = a
<1> DEFINE L == CHOOSE n \in S : \A k \in S : n <= k
<1>1. L \in S /\ \A k \in S : L <= k
  OBVIOUS
<1> HIDE DEF L
<1>2. L <= a /\ a <= L /\ L \in Int /\ a \in Int
  BY <1>1
<1>3. L = a
  BY <1>2
<1> QED BY <1>3 DEF L

\* The rows a pull starts from are those of its partial file or, without one,
\* of the cache.
LEMMA FoundIs ==
  ASSUME NEW p, NEW m, NEW i, PassAt(p, m, i), p[i].do = "resume"
  PROVE  /\ found = disk[resumed(p[i].file)]
         /\ resumed(p[i].file) \in HandoffCaches \cup pulled
         /\ cache_of(resumed(p[i].file)) = cache_of(p[i].file)
         /\ p[i].file = "refunds" <=> resumed(p[i].file) = "refunds"
<1> DEFINE f == p[i].file
<1>1. ResumeFacts(p, i, m) /\ step = p[i]
  BY InHandoffs, ScriptStep DEF StepFacts
<1>2. f \in pulled \cup {"refunds", "rpc_blocks", "static_panel"}
  BY <1>1 DEF ResumeFacts
<1>3. /\ resumed(f) \in HandoffCaches \cup pulled
      /\ cache_of(resumed(f)) = cache_of(f)
      /\ f = "refunds" <=> resumed(f) = "refunds"
  BY <1>2, CacheNames DEF resumed
<1>4. \A g \in HandoffCaches \cup pulled : ~exists(g) => disk[g] = missing
  BY InHandoffs, Names DEF HandoffDisk, exists, missing
<1>5. CASE f = "runtime_partial"
  <2>1. step.earlier = <<"runtime_partial", "runtime_blocks">>
    BY <1>1, <1>5 DEF ResumeFacts
  <2> DEFINE there == {n \in DOMAIN step.earlier : exists(step.earlier[n])}
  <2>2. DOMAIN step.earlier = {1, 2} /\ step.earlier[1] = "runtime_partial" /\ step.earlier[2] = "runtime_blocks"
    BY <2>1
  <2>3. there = {n \in {1, 2} : exists(step.earlier[n])}
    BY <2>2
  <2>4. found = IF there = {} THEN missing
                ELSE disk[step.earlier[CHOOSE n \in there : \A k \in there : n <= k]]
    BY DEF found
  <2> HIDE DEF there
  <2>5. ASSUME exists("runtime_partial") PROVE found = disk[resumed(f)]
    <3>0. exists(step.earlier[1])
      BY <2>2, <2>5
    <3>3. 1 \in there /\ there \subseteq {1, 2}
      BY <2>3, <3>0
    <3>1. 1 \in there /\ there \subseteq Int /\ \A k \in there : 1 <= k
      BY <3>3
    <3>2. (CHOOSE n \in there : \A k \in there : n <= k) = 1
      BY <3>1, LeastOf
    <3> QED BY <1>5, <2>2, <2>4, <2>5, <3>1, <3>2 DEF resumed
  <2>6. ASSUME ~exists("runtime_partial"), exists("runtime_blocks") PROVE found = disk[resumed(f)]
    <3>1. there = {2}
      BY <2>2, <2>3, <2>6
    <3>2. (CHOOSE n \in there : \A k \in there : n <= k) = 2
      BY <3>1, LeastOf
    <3> QED BY <1>5, <2>2, <2>4, <2>6, <3>1, <3>2 DEF resumed
  <2>7. ASSUME ~exists("runtime_partial"), ~exists("runtime_blocks") PROVE found = disk[resumed(f)]
    <3>1. there = {}
      BY <2>2, <2>3, <2>7
    <3>2. disk["runtime_blocks"] = missing
      BY <1>4, <2>7, CacheNames
    <3> QED BY <1>5, <2>4, <2>7, <3>1, <3>2 DEF resumed
  <2>8. found = disk[resumed(f)]
    BY <2>5, <2>6, <2>7
  <2> QED BY <1>3, <2>8
<1>6. CASE f # "runtime_partial"
  <2>1. step.earlier = <<f>>
    BY <1>1, <1>6 DEF ResumeFacts
  <2> DEFINE there == {n \in DOMAIN step.earlier : exists(step.earlier[n])}
  <2>2. DOMAIN step.earlier = {1} /\ step.earlier[1] = f
    BY <2>1
  <2>3. there = {n \in {1} : exists(step.earlier[n])}
    BY <2>2
  <2>4. found = IF there = {} THEN missing
                ELSE disk[step.earlier[CHOOSE n \in there : \A k \in there : n <= k]]
    BY DEF found
  <2> HIDE DEF there
  <2>5. ASSUME exists(f) PROVE found = disk[resumed(f)]
    <3>1. there = {1}
      BY <2>2, <2>3, <2>5
    <3>2. (CHOOSE n \in there : \A k \in there : n <= k) = 1
      BY <3>1, LeastOf
    <3> QED BY <1>3, <1>6, <2>2, <2>4, <3>1, <3>2 DEF resumed
  <2>6. ASSUME ~exists(f) PROVE found = disk[resumed(f)]
    <3>1. there = {}
      BY <2>2, <2>3, <2>6
    <3>2. disk[f] = missing
      BY <1>2, <1>4, <2>6, CacheNames
    <3> QED BY <1>3, <1>6, <2>4, <3>1, <3>2 DEF resumed
  <2>8. found = disk[resumed(f)]
    BY <2>5, <2>6
  <2> QED BY <1>3, <2>8
<1> QED BY <1>5, <1>6

\* Rows that are asked for now: of the cache, of one version, and none cut.
LEMMA AskedIs ==
  ASSUME NEW p, NEW m, NEW i, PassAt(p, m, i), p[i].do = "resume"
  PROVE  /\ \A v \in asked : /\ v = <<v[1], v[2]>>
                             /\ \/ v[1] = cache_of(p[i].file) /\ v[2] # cut_row
                                \/ v[1] = "other_rate" /\ p[i].file = "refunds" /\ v[2] # cut_row
         /\ \E v \in asked : v[1] = cache_of(p[i].file) /\ v[2] # cut_row
<1>1. ResumeFacts(p, i, m) /\ step = p[i] /\ HandoffDisk
  BY InHandoffs, ScriptStep DEF StepFacts
<1>2. p[i].cache = cache_of(p[i].file) /\ p[i].source \in HandoffSources
  BY <1>1 DEF ResumeFacts
<1>3. cache_of(p[i].file) = "refunds" => p[i].file = "refunds"
  BY <1>1, CacheNames DEF ResumeFacts
<1>4. PICK w \in Nat : w # cut_row /\ disk[p[i].source].from = {<<p[i].source, w>>}
  BY <1>1, <1>2, SourceRows
<1>5. content(p[i].source) = {<<p[i].source, w>>}
  BY <1>2, <1>4, ContentIs, Names
<1>6. versions(content(p[i].source), p[i].source) = {w}
  <2>1. on(content(p[i].source), {p[i].source}) = {<<p[i].source, w>>}
    BY <1>5 DEF on
  <2>2. versions(content(p[i].source), p[i].source) = {v[2] : v \in {<<p[i].source, w>>}}
    BY <2>1 DEF versions
  <2>3. \A y : y \in {v[2] : v \in {<<p[i].source, w>>}} <=> y = w
    OBVIOUS
  <2> QED BY <2>2, <2>3
<1>7. asked = {<<cache_of(p[i].file), v>> : v \in {w}}
              \cup IF cache_of(p[i].file) = "refunds" THEN other_gross_delta_rate ELSE {}
  BY <1>1, <1>2, <1>6 DEF asked
<1>8. \A v \in other_gross_delta_rate : v = <<v[1], v[2]>> /\ v[1] = "other_rate" /\ v[2] # cut_row
  <2> SUFFICES ASSUME NEW n \in versions(made, "blocks") PROVE n # cut_row
    BY DEF other_gross_delta_rate
  <2>1. PICK w0 \in made : w0[1] = "blocks" /\ w0[2] = n
    BY DEF versions, on
  <2>2. "blocks" \in HandoffSources
    BY CacheNames
  <2> QED BY <2>1, <2>2, InHandoffs DEF IsRows
<1>9. <<cache_of(p[i].file), w>> \in asked
  BY <1>7
<1>10. ASSUME NEW v \in asked
       PROVE  /\ v = <<v[1], v[2]>>
              /\ \/ v[1] = cache_of(p[i].file) /\ v[2] # cut_row
                 \/ v[1] = "other_rate" /\ p[i].file = "refunds" /\ v[2] # cut_row
  <2>1. CASE v = <<cache_of(p[i].file), w>>
    BY <1>4, <2>1
  <2>2. CASE v # <<cache_of(p[i].file), w>>
    BY <1>3, <1>7, <1>8, <2>2
  <2> QED BY <2>1, <2>2
<1> QED BY <1>4, <1>9, <1>10

\* The base, of the rows of a pull with those asked for, and of what a kill
\* leaves of them.
LEMMA BaseOfResumed ==
  ASSUME NEW p, NEW m, NEW i, PassAt(p, m, i), p[i].do = "resume", found.is # "whole",
         NEW x, x.is \in {"torn", "whole"}, x = [is |-> x.is, from |-> x.from],
         found.from \cup asked \subseteq x.from,
         \/ x.from = found.from \cup asked
         \/ p[i].file # "static_panel" /\ x.from = found.from \cup asked \cup {<<cache_of(p[i].file), cut_row>>},
         Becomes(p[i].file, x)
  PROVE  HandoffBase'
<1> DEFINE f == p[i].file
           c == cache_of(f)
           h == resumed(f)
<1>1. ResumeFacts(p, i, m) /\ HandoffBase /\ HandoffDisk /\ OwnRows /\ SavedRows
  BY InHandoffs DEF StepFacts, HandoffBase
<1>2. /\ f \in pulled \cup {"refunds", "rpc_blocks", "static_panel"}
      /\ f \in HandoffTables \cup Partials.handoffs
      /\ f \in HandoffCaches \cup pulled /\ HandoffCaches \cup pulled \subseteq HandoffFiles
      /\ f \notin {"runtime_blocks", "attribution_blocks"}
  BY <1>1, CacheNames, Names DEF ResumeFacts
<1>3. found = disk[h] /\ h \in HandoffCaches \cup pulled /\ cache_of(h) = c /\ (h = "refunds" <=> f = "refunds")
  BY FoundIs
<1>4. /\ \A v \in asked : v = <<v[1], v[2]>> /\ ((v[1] = c /\ v[2] # cut_row) \/ (v[1] = "other_rate" /\ f = "refunds" /\ v[2] # cut_row))
      /\ \E v \in asked : v[1] = c /\ v[2] # cut_row
  BY AskedIs
<1>5. /\ IsRows(found.from)
      /\ \A v \in found.from : v[1] = c \/ (f = "refunds" /\ v[1] = "other_rate")
  <2>1. IsRows(disk[h].from)
    BY <1>1, <1>2, <1>3 DEF HandoffDisk
  <2>2. \A v \in disk[h].from : v[1] = cache_of(h) \/ (h = "refunds" /\ v[1] = "other_rate")
    BY <1>1, <1>3 DEF OwnRows
  <2> QED BY <1>3, <2>1, <2>2
<1>6. /\ IsRows(x.from)
      /\ \A v \in x.from : v[1] = c \/ (f = "refunds" /\ v[1] = "other_rate")
      /\ \E v \in x.from : v[1] = c /\ v[2] # cut_row
  <2>1. c \in HandoffCaches
    BY <1>2, CacheNames
  <2>2. c \notin HandoffSources \cup {"other_rate"}
    BY <2>1, Names
  <2>3. \A v \in x.from : v \in found.from \/ v \in asked \/ v = <<c, cut_row>>
    OBVIOUS
  <2>4. IsRows(x.from)
    BY <1>4, <1>5, <2>2, <2>3 DEF IsRows
  <2>5. \A v \in x.from : v[1] = c \/ (f = "refunds" /\ v[1] = "other_rate")
    BY <1>4, <1>5, <2>3
  <2>6. \E v \in x.from : v[1] = c /\ v[2] # cut_row
    BY <1>4
  <2> QED BY <2>4, <2>5, <2>6
<1>7. MadeFile(x)
  BY <1>6 DEF MadeFile
<1>8. /\ HandoffDisk' /\ disk'[f] = x
      /\ \A g \in HandoffFiles : g # f => disk'[g] = disk[g]
  BY <1>1, <1>2, <1>7, DiskChanged
<1>9. OwnRows'
  <2> SUFFICES ASSUME NEW g \in HandoffCaches \cup pulled
               PROVE  /\ \A v \in disk'[g].from : v[1] = cache_of(g) \/ (g = "refunds" /\ v[1] = "other_rate")
                      /\ disk'[g].is # "none" => \E v \in disk'[g].from : v[1] = cache_of(g) /\ v[2] # cut_row
    BY DEF OwnRows, exists
  <2>1. CASE g = f
    BY <1>6, <1>8, <2>1
  <2>2. CASE g # f
    <3>1. disk'[g] = disk[g]
      BY <1>2, <1>8, <2>2
    <3> QED BY <1>1, <3>1 DEF OwnRows, exists
  <2> QED BY <2>1, <2>2
<1>10. SavedRows'
  <2>0. {"runtime_blocks", "attribution_blocks", "static_panel", "runtime_partial"} \subseteq HandoffFiles
    BY <1>2, CacheNames
  <2>1. disk'["runtime_blocks"] = disk["runtime_blocks"] /\ disk'["attribution_blocks"] = disk["attribution_blocks"]
    BY <1>2, <1>8, <2>0
  <2>2. <<"static_panel", cut_row>> \notin disk'["static_panel"].from
    <3>1. CASE f = "static_panel"
      <4>1. h = "static_panel"
        BY <3>1 DEF resumed
      <4>2. <<"static_panel", cut_row>> \notin found.from
        BY <1>1, <1>3, <4>1 DEF SavedRows
      <4>3. <<"static_panel", cut_row>> \notin asked
        BY <1>4, <3>1
      <4> QED BY <1>8, <3>1, <4>2, <4>3
    <3>2. CASE f # "static_panel"
      <4>1. disk'["static_panel"] = disk["static_panel"]
        BY <1>8, <2>0, <3>2
      <4> QED BY <1>1, <4>1 DEF SavedRows
    <3> QED BY <3>1, <3>2
  <2>3. whole("runtime_blocks") /\ disk'["runtime_partial"].is # "none" => disk'["runtime_partial"] = disk["runtime_blocks"]
    <3>1. CASE f = "runtime_partial"
      <4>1. exists(f) => h = f
        BY DEF resumed
      <4>2. ~exists(f) => h = "runtime_blocks"
        BY <3>1 DEF resumed
      <4>3. whole("runtime_blocks") => found.is = "whole"
        BY <1>1, <1>3, <3>1, <4>1, <4>2 DEF SavedRows, whole
      <4> QED BY <4>3
    <3>2. CASE f # "runtime_partial"
      <4>1. disk'["runtime_partial"] = disk["runtime_partial"]
        BY <1>8, <2>0, <3>2
      <4> QED BY <1>1, <4>1 DEF SavedRows, exists
    <3> QED BY <3>1, <3>2
  <2> QED BY <1>1, <2>1, <2>2, <2>3 DEF SavedRows, whole, exists
<1>11. /\ disk'["demand_card"] = disk["demand_card"] /\ disk'["anchor_accounting"] = disk["anchor_accounting"]
       /\ disk'["execution_repricing"] = disk["execution_repricing"]
  <2>1. \A g \in {"anchor_accounting", "execution_repricing", "demand_card"} : g \in HandoffFiles /\ g # f
    BY <1>2, TableNames, CacheNames, Names
  <2> QED BY <1>8, <2>1
<1>12. Weighed'
  BY <1>1, <1>11 DEF HandoffBase, Weighed, exists
<1>13. Sampled'
  <2>0. "rpc_blocks" \in HandoffFiles
    BY <1>2, CacheNames
  <2>1. CASE f = "rpc_blocks"
    <3>1. h = "rpc_blocks"
      BY <2>1 DEF resumed
    <3>2. ~whole("rpc_blocks")
      BY <1>3, <3>1 DEF whole
    <3> QED BY <1>1, <1>11, <3>2 DEF HandoffBase, Sampled, exists
  <2>2. CASE f # "rpc_blocks"
    <3>1. disk'["rpc_blocks"] = disk["rpc_blocks"]
      BY <1>8, <2>0, <2>2
    <3> QED BY <1>1, <1>11, <3>1 DEF HandoffBase, Sampled, exists, whole
  <2> QED BY <2>1, <2>2
<1> QED BY <1>8, <1>9, <1>10, <1>12, <1>13 DEF HandoffBase

\* The numbers at hand, when those of a file are added that was not among them.
LEMMA MadeAdds ==
  ASSUME NEW N, N \subseteq HandoffFiles, NEW f \in HandoffFiles \ HandoffSources,
         \A g \in N : disk'[g] = disk[g],
         made' = made \cup disk'[f].from, steady' = steady, MadeOf(N),
         \A v \in disk'[f].from : v[1] \notin HandoffSources
  PROVE  MadeOf(N \cup {f})'
<1> DEFINE M == N \cup {f}
           NS == N \ HandoffSources
           MS == M \ HandoffSources
<1>1. M \subseteq HandoffFiles /\ NS \subseteq HandoffFiles /\ MS \subseteq HandoffFiles
      /\ MS = NS \cup {f} /\ M \cap HandoffSources = N \cap HandoffSources /\ NS \subseteq N
  OBVIOUS
<1> HIDE DEF M, NS, MS
<1>2. contents(N)' = contents(N) /\ contents(NS)' = contents(NS)
  BY <1>1, ContentsKept
<1>3. contents(M)' = contents(N) \cup disk'[f].from
  <2>1. \A v : v \in contents(M)' <=> v \in contents(N)' \/ v \in disk'[f].from
    BY <1>1, ContentsHas DEF M
  <2> QED BY <1>2, <2>1
<1>4. contents(MS)' = contents(NS) \cup disk'[f].from
  <2>1. \A v : v \in contents(MS)' <=> v \in contents(NS)' \/ v \in disk'[f].from
    BY <1>1, ContentsHas
  <2> QED BY <1>2, <2>1
<1>5. /\ \A v \in made : v[1] \in HandoffSources \/ v \in contents(NS)
      /\ contents(NS) \subseteq made
      /\ \A s \in N \cap HandoffSources : on(made, {s}) # {}
      /\ (steady \/ N \cap HandoffSources = {}) => made = contents(N)
  BY DEF MadeOf, NS
<1>6. \A v \in made' : v[1] \in HandoffSources \/ v \in contents(MS)'
  BY <1>4, <1>5
<1>7. contents(MS)' \subseteq made'
  BY <1>4, <1>5
<1>8. \A s \in M \cap HandoffSources : on(made', {s}) # {}
  BY <1>1, <1>5 DEF on
<1>9. (steady' \/ M \cap HandoffSources = {}) => made' = contents(M)'
  BY <1>1, <1>3, <1>5
<1>10. MadeOf(M)'
  BY <1>6, <1>7, <1>8, <1>9 DEF MadeOf, MS
<1> QED BY <1>10 DEF M

\* The other files, whether the rows were all there or not.
LEMMA ResumeFrame ==
  ASSUME NEW p, NEW m, NEW i, PassAt(p, m, i),
         NEW f \in HandoffTables \cup Partials.handoffs, NEW x,
         disk' = disk \/ Becomes(f, x), steady' = steady,
         f \notin HandoffCaches \cap Written(p, i), Apart(p, i, m, f)
  PROVE  LET W == Written(p, i) IN
    /\ \A g \in W \cap DOMAIN inputs(m) : g # f =>
         ((steady' \/ inputs(m)[g] \cap HandoffSources = {}) => disk'[g] = file(contents(inputs(m)[g]))')
    /\ (m = "fresh" /\ steady') =>
         \A g \in W \cap HandoffTables : g # f => \A v \in disk'[g].from : Based(v, W \cup {f})'
    /\ \A g \in W \cap HandoffTables : g # f => disk'[g].is = "whole"
    /\ \A g \in Dropped(p, i) : g # f => disk'[g].is = "none"
    /\ Matched(W)'
    /\ "refunds" \in W => disk'["refunds"] = disk["refunds"]
<1> DEFINE W == Written(p, i)
           D == Dropped(p, i)
<1>1. CASE disk' = disk
  <2>1. /\ Fed(W, inputs(m))' /\ Traced(W, m)' /\ WholeAll(W)' /\ Gone(D)' /\ Matched(W)'
    BY <1>1, InHandoffs, SameDisk
  <2>2. \A g \in W \cap DOMAIN inputs(m) :
          ((steady' \/ inputs(m)[g] \cap HandoffSources = {}) => disk'[g] = file(contents(inputs(m)[g]))')
    BY <2>1 DEF Fed, file
  <2>3. (m = "fresh" /\ steady') =>
         \A g \in W \cap HandoffTables : \A v \in disk'[g].from : Based(v, W)'
    BY <2>1 DEF Traced
  <2>4. \A v : Based(v, W)' => Based(v, W \cup {f})'
    BY DEF Based
  <2>5. (\A g \in W \cap HandoffTables : disk'[g].is = "whole") /\ (\A g \in D : disk'[g].is = "none")
    BY <2>1 DEF WholeAll, Gone, whole, exists
  <2> QED BY <1>1, <2>1, <2>2, <2>3, <2>4, <2>5
<1>2. CASE Becomes(f, x)
  <2>1. /\ \A g \in W \cap DOMAIN inputs(m) : g # f =>
             ((steady' \/ inputs(m)[g] \cap HandoffSources = {}) => disk'[g] = file(contents(inputs(m)[g]))')
        /\ (m = "fresh" /\ steady') =>
             \A g \in W \cap HandoffTables : g # f => \A v \in disk'[g].from : Based(v, W)' /\ Based(v, W \cup {f})'
        /\ \A g \in W \cap HandoffTables : g # f => disk'[g].is = "whole"
        /\ \A g \in Dropped(p, i) : g # f => disk'[g].is = "none"
        /\ Matched(W)'
        /\ "refunds" \in W => disk'["refunds"] = disk["refunds"]
    BY <1>2, FileFrame
  <2> QED BY <2>1
<1> QED BY <1>1, <1>2

\* A resumed pull goes on with what it found and what it queried.
LEMMA ResumeGoes ==
  ASSUME NEW p, NEW m, NEW i, PassAt(p, m, i), Resume
  PROVE  Goes(p, m, i)
<1> DEFINE f == p[i].file
           h == resumed(f)
           T == Taken(p, i)
           W == Written(p, i)
           D == Dropped(p, i)
           x == file(found.from \cup asked)
<1>1. step = p[i] /\ i \in Nat \ {0} /\ p[i].do = "resume"
  BY ScriptStep DEF Resume, Running
<1>2. Proceed /\ \/ found.is = "whole" /\ made' = made \cup found.from /\ disk' = disk
                 \/ found.is # "whole" /\ made' = made \cup found.from \cup asked /\ Becomes(f, x)
  BY <1>1 DEF Resume, Becomes
<1>3. steady' = steady
  BY <1>2, ProceedKeeps
<1>4. ResumeFacts(p, i, m)
  BY <1>1, InHandoffs DEF StepFacts
<1>5. /\ f \in pulled \cup {"refunds", "rpc_blocks", "static_panel"}
      /\ f \notin D /\ f \notin W /\ f \notin T
      /\ p[i].cache \notin T /\ p[i].cache \notin W /\ p[i].cache = cache_of(f) /\ Apart(p, i, m, f)
  BY <1>4 DEF ResumeFacts
<1>6. /\ f \in HandoffTables \cup Partials.handoffs /\ f \in HandoffFiles \ HandoffSources
      /\ f \in HandoffCaches \cup pulled /\ f # "attribution_blocks" /\ f # "runtime_blocks"
      /\ f # "contiguous_bal" /\ (f \in pulled \/ f \in HandoffCaches)
      /\ T \subseteq HandoffFiles /\ HandoffCaches \cup pulled \subseteq HandoffFiles
      /\ f \in HandoffTables => f \in HandoffCaches
  BY <1>5, CacheNames, Names, TakenFiles
<1>7. /\ found = disk[h] /\ h \in HandoffCaches \cup pulled /\ cache_of(h) = cache_of(f)
      /\ h \in HandoffFiles
  BY <1>1, <1>6, FoundIs
<1>8. /\ HandoffBase /\ HandoffDisk /\ OwnRows /\ IsRows(made)
  BY InHandoffs DEF HandoffBase
<1>9. x.is = "whole" /\ x.from = found.from \cup asked /\ x = [is |-> x.is, from |-> x.from]
  BY DEF file
<1>10. HandoffBase'
  <2>1. CASE found.is = "whole"
    BY <1>2, <1>3, <1>8, <2>1, SameDisk
  <2>2. CASE found.is # "whole"
    <3> HIDE DEF x
    <3> QED BY <1>1, <1>2, <1>9, <2>2, BaseOfResumed
  <2> QED BY <2>1, <2>2
<1>11. HandoffDisk' /\ OwnRows'
  BY <1>10 DEF HandoffBase
<1>12. found.is # "whole" => /\ disk'[f] = x /\ made' = made \cup disk'[f].from
                             /\ \A g \in HandoffFiles : g # f => disk'[g] = disk[g]
  <2> SUFFICES ASSUME found.is # "whole"
               PROVE  /\ disk'[f] = x /\ made' = made \cup disk'[f].from
                      /\ \A g \in HandoffFiles : g # f => disk'[g] = disk[g]
    OBVIOUS
  <2> HIDE DEF x
  <2>1. Becomes(f, x) /\ DOMAIN disk = HandoffFiles
    BY <1>2, <1>8 DEF HandoffDisk
  <2>2. /\ disk'[f] = x /\ \A g \in HandoffFiles : g # f => disk'[g] = disk[g]
    BY <1>6, <2>1, Changed
  <2> QED BY <1>2, <1>9, <2>2
<1>13. /\ ~Starts(p[i]) /\ Writes(p[i]) /\ Takes(p[i]) = {f}
       /\ p[i].do # "unlink" /\ p[i].do # "derive" /\ p[i].do # "add"  /\ p[i].do # "open"
  BY <1>1 DEF Starts, Writes, Takes
<1>14. /\ Taken(p, i + 1) = T \cup {f} /\ Written(p, i + 1) = W \cup {f} /\ Dropped(p, i + 1) = D
       /\ Known(p, i + 1) <=> Known(p, i)
       /\ Paired(p, i + 1) => Paired(p, i)
       /\ Covered(p, i + 1) => Covered(p, i)
  <2>1. Taken(p, i + 1) = T \cup {f}
    BY <1>1, <1>13, TakenNext
  <2>2. Written(p, i + 1) = W \cup {f}
    BY <1>1, <1>13, WrittenNext
  <2>3. Dropped(p, i + 1) = D
    BY <1>1, <1>13, DroppedNext
  <2>4. Known(p, i + 1) <=> Known(p, i)
    BY <1>1, <1>13, KnownNext
  <2>5. Paired(p, i + 1) => Paired(p, i)
    BY <1>1, <1>13, PairedNext
  <2>6. Covered(p, i + 1) => Covered(p, i)
    BY <1>1, <1>13, CoveredNext
  <2> QED BY <2>1, <2>2, <2>3, <2>4, <2>5, <2>6
<1>15. /\ \A g \in W \cap DOMAIN inputs(m) : g # f =>
            ((steady' \/ inputs(m)[g] \cap HandoffSources = {}) => disk'[g] = file(contents(inputs(m)[g]))')
       /\ (m = "fresh" /\ steady') =>
            \A g \in W \cap HandoffTables : g # f => \A v \in disk'[g].from : Based(v, W \cup {f})'
       /\ \A g \in W \cap HandoffTables : g # f => disk'[g].is = "whole"
       /\ \A g \in D : g # f => disk'[g].is = "none"
       /\ Matched(W)'
       /\ "refunds" \in W => disk'["refunds"] = disk["refunds"]
  <2> HIDE DEF x
  <2>1. disk' = disk \/ Becomes(f, x)
    BY <1>2
  <2>2. f \notin HandoffCaches \cap W
    BY <1>5
  <2> QED BY <1>3, <1>5, <1>6, <2>1, <2>2, ResumeFrame
<1>16. IsRows(made')
  <2>1. IsRows(disk[h].from)
    BY <1>7, <1>8 DEF HandoffDisk
  <2>2. IsRows(asked)
    <3>1. cache_of(f) \in HandoffCaches
      BY <1>4, CacheNames DEF ResumeFacts
    <3>2. cache_of(f) \notin HandoffSources \cup {"other_rate"}
      BY <3>1, Names
    <3>3. \A v \in asked : /\ v = <<v[1], v[2]>>
                           /\ (v[1] = cache_of(f) /\ v[2] # cut_row) \/ (v[1] = "other_rate" /\ v[2] # cut_row)
      BY <1>1, AskedIs
    <3> QED BY <3>3 DEF IsRows
  <2> QED BY <1>2, <1>7, <1>8, <2>1, <2>2 DEF IsRows
<1>17. HMade(p, i + 1)'
  <2> SUFFICES ASSUME Known(p, i), T \cap D = {}
               PROVE  \E N : N = Standing(T \cup {f})' /\ MadeOf(N)'
    BY <1>14 DEF HMade
  <2>1. PICK N : N = Standing(T) /\ MadeOf(N)
    BY InHandoffs DEF HMade
  <2>2. N \subseteq HandoffFiles
    BY <1>6, <2>1, StandingFiles
  <2>3. CASE found.is = "whole"
    <3>0. PICK H : H = h
      OBVIOUS
    <3>1. disk' = disk /\ made' = made \cup disk[H].from /\ H \in HandoffFiles
      BY <1>2, <1>7, <2>3, <3>0
    <3>2. contents({H}) = disk[H].from
      <4>1. \A v : v \in contents({H}) <=> v \in disk[H].from
        BY <3>1, ContentsHas
      <4> QED BY <4>1
    <3>3. {H} \subseteq HandoffFiles /\ made' = made \cup contents({H})
      BY <3>1, <3>2
    <3>4. MadeOf(N \cup {H})'
      BY <1>3, <1>8, <2>1, <2>2, <3>1, <3>3, MadeOfMore
    <3>5. Standing(T \cup {f})' = N \cup {H}
      <4>1. \A g : exists(g)' <=> exists(g)
        BY <3>1 DEF exists
      <4>2. H = IF f \in pulled /\ ~exists(f) THEN cache_of(f) ELSE f
        <5>1. f # "runtime_partial" => h = f /\ exists(f)
          BY <1>7, <2>3 DEF resumed, exists
        <5>2. f = "runtime_partial" => h = IF ~exists(f) THEN cache_of(f) ELSE f
          BY CacheNames DEF resumed
        <5>3. "runtime_partial" \in pulled
          BY CacheNames
        <5> QED BY <3>0, <5>1, <5>2, <5>3
      <4> QED BY <2>1, <4>1, <4>2 DEF Standing
    <3> QED BY <3>4, <3>5
  <2>4. CASE found.is # "whole"
    <3>1. \A g \in T : exists(g)' <=> exists(g)
      BY <1>5, <1>6, <1>12, <2>4 DEF exists
    <3>2. exists(f)'
      BY <1>9, <1>12, <2>4 DEF exists
    <3>3. Standing(T \cup {f})' = N \cup {f}
      BY <2>1, <3>1, <3>2 DEF Standing
    <3>4. f \notin N
      <4> SUFFICES ASSUME f \in N PROVE FALSE
        OBVIOUS
      <4>1. PICK n \in T : f = IF n \in pulled /\ ~exists(n) THEN cache_of(n) ELSE n
        BY <2>1 DEF Standing
      <4>2. n \in pulled /\ f = cache_of(n)
        BY <1>5, <4>1
      <4> QED BY <1>5, <1>6, <4>2, CacheNames
    <3>5. \A g \in N : disk'[g] = disk[g]
      BY <1>12, <2>2, <2>4, <3>4
    <3>6. \A v \in disk'[f].from : v[1] \notin HandoffSources
      <4>1. cache_of(f) \notin HandoffSources /\ "other_rate" \notin HandoffSources
        BY <1>5, CacheNames
      <4> QED BY <1>6, <1>11, <4>1 DEF OwnRows
    <3>7. MadeOf(N \cup {f})'
      BY <1>3, <1>6, <1>12, <2>1, <2>2, <2>4, <3>5, <3>6, MadeAdds
    <3> QED BY <3>3, <3>7
  <2> QED BY <2>3, <2>4
<1>18. HPulled(p, i + 1)'
  <2> SUFFICES ASSUME NEW g \in (pulled \cap (T \cup {f})) \ D
               PROVE  /\ disk'[g].is # "none" => disk'[g].is = "whole"
                      /\ disk'[g].is = "none" => g = "runtime_partial" /\ disk'[cache_of(g)].is = "whole"
    BY <1>14 DEF HPulled, exists, whole
  <2>1. CASE g # f
    <3>1. g \in HandoffFiles /\ cache_of(g) \in HandoffFiles /\ cache_of(g) # f
      BY <1>5, <1>6, CacheNames
    <3>2. disk'[g] = disk[g] /\ disk'[cache_of(g)] = disk[cache_of(g)]
      BY <1>2, <1>12, <2>1, <3>1
    <3> QED BY <2>1, <3>2, InHandoffs DEF HPulled, exists, whole
  <2>2. CASE g = f
    <3>1. CASE found.is # "whole"
      BY <1>9, <1>12, <2>2, <3>1
    <3>2. CASE found.is = "whole"
      <4>1. disk' = disk /\ disk[h].is = "whole"
        BY <1>2, <1>7, <3>2
      <4>2. h = f \/ (h = "runtime_blocks" /\ f = "runtime_partial" /\ ~exists(f))
        BY DEF resumed
      <4> QED BY <2>2, <4>1, <4>2, CacheNames DEF exists
    <3> QED BY <3>1, <3>2
  <2> QED BY <2>1, <2>2
<1>19. HChecked(p, i + 1)'
  BY <1>1, <1>13, InHandoffs DEF HChecked
<1>20. HPaired(p, i + 1)'
  <2>1. made \subseteq made'
    BY <1>2
  <2> QED BY <1>14, <2>1, InHandoffs DEF HPaired
<1>21. HCovered(p, i + 1)'
  BY <1>14, <1>15, InHandoffs DEF HCovered
<1>22. Fed(W \cup {f}, inputs(m))'
  <2> SUFFICES ASSUME NEW g \in (W \cup {f}) \cap DOMAIN inputs(m), steady' \/ inputs(m)[g] \cap HandoffSources = {}
               PROVE  disk'[g] = file(contents(inputs(m)[g]))'
    BY DEF Fed
  <2>1. g # f
    BY <1>6, CachesAlone
  <2> QED BY <1>15, <2>1 DEF file
<1>23. Traced(W \cup {f}, m)'
  <2> SUFFICES ASSUME m = "fresh", steady', NEW g \in (W \cup {f}) \cap HandoffTables, NEW v \in disk'[g].from
               PROVE  Based(v, W \cup {f})'
    BY DEF Traced
  <2>1. CASE g # f
    BY <1>15, <2>1
  <2>2. CASE g = f
    BY <1>6, <2>2 DEF Based
  <2> QED BY <2>1, <2>2
<1>24. WholeAll(W \cup {f})'
  <2>1. f \in HandoffTables => disk'[f].is = "whole"
    <3>1. CASE found.is # "whole"
      BY <1>9, <1>12, <3>1
    <3>2. CASE found.is = "whole"
      <4>1. f \in HandoffTables => h = f
        BY <1>6, Names, CacheNames DEF resumed
      <4> QED BY <1>2, <1>7, <3>2, <4>1
    <3> QED BY <3>1, <3>2
  <2> QED BY <1>15, <2>1 DEF WholeAll, whole
<1>25. Gone(D)'
  BY <1>5, <1>15 DEF Gone, exists
<1>26. Matched(W \cup {f})'
  BY <1>6, <1>15 DEF Matched
<1> QED BY <1>2, <1>10, <1>14, <1>16, <1>17, <1>18, <1>19, <1>20, <1>21, <1>22, <1>23, <1>24, <1>25, <1>26
        DEF Goes, HandoffAt

-----------------------------------------------------------------------------
(* Why a pass fails.                                                       *)

\* The files whose rows a later pass keeps, by name.
LEMMA KeptCaches ==
  ASSUME chain = "handoffs"
  PROVE  kept = {"refunds", "runtime_blocks", "static_panel", "rpc_blocks", "contiguous_bal"} \cup pulled
<1>1. Caches[chain] = HandoffCaches /\ Partials[chain] = pulled \cup {"sensitivity_partial"}
  BY DEF HandoffCaches, pulled, Partials
<1> QED BY <1>1, CacheNames DEF kept

\* What makes a file unusable, of those a pull keeps.
LEMMA UnusableIs ==
  ASSUME NEW f \in HandoffCaches \cup pulled
  PROVE  unusable(f) <=>
    /\ exists(f)
    /\ \E v \in disk[f].from :
         \/ drifted(v)
         \/ v[2] = cut_row /\ cache_of(f) # "contiguous_bal"
         \/ /\ \/ f \in {"refunds", "runtime_partial", "attribution_partial"}
               \/ f = "runtime_blocks" /\ ~exists("runtime_partial")
            /\ v[2] \notin versions(disk["traces"].from, "traces") \cup {cut_row}
<1>1. cache_of(f) = CASE f = "runtime_partial" -> "runtime_blocks"
                      [] f = "attribution_partial" -> "attribution_blocks"
                      [] f = "contiguous_bal_partial" -> "contiguous_bal"
                      [] OTHER -> f
  BY DEF cache_of
<1> QED BY <1>1 DEF unusable

\* The traces are there in one version.
LEMMA TracesIs ==
  ASSUME HandoffDisk
  PROVE  \E w \in Nat : /\ w # cut_row /\ disk["traces"].from = {<<"traces", w>>}
                        /\ versions(disk["traces"].from, "traces") = {w}
<1>1. PICK w \in Nat : w # cut_row /\ disk["traces"].from = {<<"traces", w>>}
  BY SourceRows, CacheNames
<1>2. on(disk["traces"].from, {"traces"}) = {<<"traces", w>>}
  BY <1>1 DEF on
<1>3. versions(disk["traces"].from, "traces") = {v[2] : v \in {<<"traces", w>>}}
  BY <1>2 DEF versions
<1>4. \A y : y \in {v[2] : v \in {<<"traces", w>>}} <=> y = w
  OBVIOUS
<1> QED BY <1>1, <1>3, <1>4

\* Rows that stop a pass, wherever they were read from.
LEMMA MovedSourceStops ==
  ASSUME chain = "handoffs", NEW s \in HandoffSources, NEW v \in disk[s].from, drifted(v)
  PROVE  obstructed
BY DEF obstructed, Sources

\* Cut, drifted or outdated rows that a pass keeps are a reason to fail.
LEMMA RowStops ==
  ASSUME chain = "handoffs", HandoffBase, NEW f \in kept, NEW v \in disk[f].from,
         \/ drifted(v)
         \/ v[2] = cut_row /\ cache_of(f) # "contiguous_bal"
         \/ /\ \/ f \in {"refunds", "runtime_partial", "attribution_partial"}
               \/ f = "runtime_blocks" /\ ~exists("runtime_partial")
            /\ v[2] \notin versions(disk["traces"].from, "traces") \cup {cut_row}
  PROVE  obstructed
<1>1. f \in HandoffCaches \cup pulled
  BY KeptCaches, CacheNames
<1>2. exists(f)
  <2>1. f \in HandoffFiles
    BY <1>1, Names
  <2> QED BY <2>1 DEF HandoffBase, HandoffDisk, exists
<1>3. unusable(f)
  BY <1>1, <1>2, UnusableIs
<1> QED BY <1>3 DEF obstructed

\* Where a row is that a pass wrote, or a source has.
LEMMA BasedRow ==
  ASSUME HandoffBase, NEW W, NEW v, Based(v, W)
  PROVE  /\ v[1] \in HandoffSources \cup HandoffCaches \cup {"other_rate"}
         /\ v[1] \in HandoffSources \cup HandoffCaches => v \in disk[v[1]].from
         /\ v[1] \in HandoffCaches => v[1] \in W
         /\ v[1] = "other_rate" => v \in disk["refunds"].from
<1>1. CASE v[1] \in HandoffSources /\ v \in disk[v[1]].from
  BY <1>1, CacheNames
<1>2. CASE \E c \in HandoffCaches \cap W : v \in disk[c].from
  <2>1. PICK c \in HandoffCaches \cap W : v \in disk[c].from
    BY <1>2
  <2>2. v[1] = c \/ (c = "refunds" /\ v[1] = "other_rate")
    BY <2>1, CacheNames DEF HandoffBase, OwnRows
  <2> QED BY <2>1, <2>2, CacheNames
<1> QED BY <1>1, <1>2 DEF Based

\* A row of a published number that moved or was cut.
LEMMA PublishedStops ==
  ASSUME chain = "handoffs", HandoffBase, NEW W, Matched(W), NEW v, Based(v, W),
         drifted(v) \/ (v[2] = cut_row /\ v[1] # "contiguous_bal")
  PROVE  obstructed
<1>1. CASE \E c \in HandoffCaches \cap W : v \in disk[c].from
  <2>1. PICK c \in HandoffCaches \cap W : v \in disk[c].from
    BY <1>1
  <2>2. v[1] = c \/ (c = "refunds" /\ v[1] = "other_rate")
    BY <2>1, CacheNames DEF HandoffBase, OwnRows
  <2>3. CASE c # "attribution_blocks"
    <3>1. c \in kept /\ cache_of(c) = c
      BY <2>1, <2>3, KeptCaches, CacheNames
    <3> QED BY <2>1, <2>2, <3>1, RowStops
  <2>4. CASE c = "attribution_blocks"
    <3>1. PICK w : /\ disk["attribution_blocks"].from = {<<"attribution_blocks", w>>}
                   /\ disk["runtime_blocks"].from = {<<"runtime_blocks", w>>}
      BY <2>1, <2>4 DEF Matched
    <3>2. v = <<"attribution_blocks", w>>
      BY <2>1, <2>4, <3>1
    <3> DEFINE r == <<"runtime_blocks", w>>
    <3>3. r \in disk["runtime_blocks"].from /\ r[2] = v[2]
      BY <3>1, <3>2
    <3>4. drifted(r) <=> drifted(v)
      BY <3>3 DEF drifted
    <3>5. "runtime_blocks" \in kept /\ cache_of("runtime_blocks") # "contiguous_bal"
      BY KeptCaches, CacheNames
    <3> HIDE DEF r
    <3> QED BY <3>3, <3>4, <3>5, RowStops
  <2> QED BY <2>3, <2>4
<1>2. CASE v[1] \in HandoffSources /\ v \in disk[v[1]].from
  <2>1. PICK w \in Nat : w # cut_row /\ disk[v[1]].from = {<<v[1], w>>}
    BY <1>2, SourceRows DEF HandoffBase
  <2>2. v[2] # cut_row
    BY <1>2, <2>1
  <2> QED BY <1>2, <2>2, MovedSourceStops
<1> QED BY <1>1, <1>2 DEF Based

\* A fresh process has exactly what it read, all of it of the sources and of
\* the caches the pass wrote.
LEMMA FreshMade ==
  ASSUME NEW p, NEW m, NEW i, PassAt(p, m, i), m = "fresh", steady, Known(p, i),
         Taken(p, i) \subseteq ReadBack(p, i)
  PROVE  made = contents(Taken(p, i)) /\ \A v \in made : Based(v, Written(p, i))
<1>1. Taken(p, i) \cap pulled = {} /\ Taken(p, i) \subseteq HandoffTables \cup HandoffSources
  BY Names DEF ReadBack
<1>2. MadeOf(Taken(p, i))
  BY <1>1, MadeNow
<1>3. made = contents(Taken(p, i))
  BY <1>2 DEF MadeOf
<1>4. Traced(Written(p, i), "fresh") /\ HandoffDisk
  BY InHandoffs
<1>5. \A v \in contents(Taken(p, i)) : Based(v, Written(p, i))
  BY <1>4, RowsBased DEF ReadBack
<1> QED BY <1>3, <1>5

\* Whatever a step of a fresh pass reads is there, whole and from what is.
LEMMA FreshRead ==
  ASSUME NEW p, NEW m, NEW i, PassAt(p, m, i), m = "fresh", steady,
         p[i].do \in {"open", "add", "derive"}
  PROVE  /\ readable(p[i].reads) /\ p[i].reads \subseteq HandoffFiles
         /\ \A f \in p[i].reads : whole(f)
         /\ \A v \in contents(p[i].reads) : Based(v, Written(p, i))
<1>1. OpenFacts(p, i, m)
  BY InHandoffs DEF StepFacts
<1>2. p[i].reads \subseteq ReadBack(p, i)
  BY <1>1 DEF OpenFacts, ReadBack
<1>3. \A f \in p[i].reads : whole(f)
  BY <1>2, SourceRows, InHandoffs DEF WholeAll, whole, ReadBack
<1>4. readable(p[i].reads)
  BY <1>3 DEF readable, whole, exists
<1>5. \A v \in contents(p[i].reads) : Based(v, Written(p, i))
  BY <1>2, RowsBased, InHandoffs DEF ReadBack
<1> QED BY <1>2, <1>3, <1>4, <1>5, Names DEF ReadBack

\* Why a check may fail.
LEMMA CheckIs ==
  ASSUME NEW c, NEW S, ~holds(c, S) \/ unsure(c, S),
         c.is \in {"counted", "covers", "same_rows", "as_in", "published", "perhaps"}
  PROVE  /\ c.is \in {"counted", "perhaps"} => ~whole(c.file)
         /\ c.is = "covers" => <<c.cache, cut_row>> \in S
         /\ c.is = "same_rows" => ~(/\ versions(S, c.one) = versions(S, c.other)
                                    /\ \A v, w \in versions(S, c.one) : v = w)
         /\ c.is = "as_in" => on(contents(c.reads), c.of) # on(disk[c.file].from, c.of)
         /\ c.is = "published" => \E v \in S : drifted(v) \/ (v[2] = cut_row /\ v[1] # "contiguous_bal")
<1>1. CASE c.is = "counted"
  BY <1>1 DEF holds, unsure
<1>2. CASE c.is = "covers"
  BY <1>2 DEF holds, unsure
<1>3. CASE c.is = "same_rows"
  BY <1>3 DEF holds, unsure
<1>4. CASE c.is = "as_in"
  BY <1>4 DEF holds, unsure
<1>5. CASE c.is = "published"
  BY <1>5 DEF holds, unsure
<1>6. CASE c.is = "perhaps"
  BY <1>6 DEF holds, unsure
<1> QED BY <1>1, <1>2, <1>3, <1>4, <1>5, <1>6

\* What a step that looks at rows has before it, and what it reads.
Looked(p, i, S) == \/ p[i].do \in {"open", "derive"} /\ S = contents(p[i].reads)
                   \/ p[i].do = "add" /\ S = made \cup contents(p[i].reads)

\* What kind of check a step makes, and of what.
LEMMA CheckIn ==
  ASSUME NEW p, NEW m, NEW i, PassAt(p, m, i), p[i].do \in {"open", "add", "derive"},
         NEW c \in p[i].checks
  PROVE  /\ CheckFacts(p, i, m, c)
         /\ c.is \in {"counted", "covers", "same_rows", "as_in", "published", "perhaps"}
BY InHandoffs DEF StepFacts, CheckFacts

\* What a fresh pass counts it has written, whole.
LEMMA FreshWhole ==
  ASSUME NEW p, NEW m, NEW i, PassAt(p, m, i), m = "fresh",
         p[i].do \in {"open", "add", "derive"}, NEW c \in p[i].checks, c.is \in {"counted", "perhaps"}
  PROVE  whole(c.file)
BY CheckIn, InHandoffs DEF CheckFacts, WholeAll

\* In a fresh pass, numbers differ from the published ones only for a reason.
LEMMA FreshPublished ==
  ASSUME NEW p, NEW m, NEW i, PassAt(p, m, i), m = "fresh", steady,
         p[i].do \in {"open", "add", "derive"}, NEW c \in p[i].checks, c.is = "published",
         NEW S, Looked(p, i, S), NEW v \in S, drifted(v) \/ (v[2] = cut_row /\ v[1] # "contiguous_bal")
  PROVE  obstructed
<1>1. CheckFacts(p, i, m, c)
  BY CheckIn
<1>2. \A y \in contents(p[i].reads) : Based(y, Written(p, i))
  BY FreshRead
<1>3. p[i].do = "add" => \A y \in made : Based(y, Written(p, i))
  BY <1>1, FreshMade DEF CheckFacts, PublishedFacts
<1>4. Based(v, Written(p, i))
  BY <1>2, <1>3 DEF Looked
<1> QED BY <1>4, PublishedStops, InHandoffs DEF PassAt

\* In a fresh pass, a coverage check fails only for a reason.
LEMMA FreshCovers ==
  ASSUME NEW p, NEW m, NEW i, PassAt(p, m, i), m = "fresh", steady,
         p[i].do \in {"open", "add", "derive"}, NEW c \in p[i].checks, c.is = "covers",
         NEW S, Looked(p, i, S), <<c.cache, cut_row>> \in S
  PROVE  obstructed
<1>1. CheckFacts(p, i, m, c) /\ p[i].do = "add" /\ S = made \cup contents(p[i].reads)
  BY CheckIn DEF CheckFacts, CoversFacts, Looked
<1>2. HandoffBase /\ HandoffDisk /\ OwnRows /\ SavedRows /\ chain = "handoffs"
  BY InHandoffs DEF HandoffBase, PassAt
<1> DEFINE r == <<c.cache, cut_row>>
<1>3. CASE /\ c = covers("refunds") /\ Known(p, i)
           /\ Taken(p, i) \subseteq ReadBack(p, i)
  <2>1. r = <<"refunds", cut_row>>
    BY <1>3 DEF covers
  <2>2. \A v \in S : Based(v, Written(p, i))
    BY <1>1, <1>3, FreshMade, FreshRead
  <2>3. Based(r, Written(p, i)) /\ r[1] = "refunds" /\ r[2] = cut_row
    BY <2>1, <2>2
  <2>4. r \in disk["refunds"].from
    BY <1>2, <2>3, BasedRow, CacheNames
  <2>5. "refunds" \in kept /\ cache_of("refunds") # "contiguous_bal"
    BY <1>2, KeptCaches, CacheNames
  <2> HIDE DEF r
  <2> QED BY <1>2, <2>3, <2>4, <2>5, RowStops
<1>4. ASSUME NEW g \in {"runtime_partial", "attribution_partial"},
             c = covers(cache_of(g)), p[i].reads = {}, Known(p, i), g \notin Dropped(p, i), Taken(p, i) = {g}
      PROVE  obstructed
  <2>1. r = <<cache_of(g), cut_row>> /\ r \in made
    <3>1. contents({}) = {}
      BY DEF contents
    <3> QED BY <1>1, <1>4, <3>1 DEF covers
  <2>2. g \in pulled /\ Taken(p, i) \cap Dropped(p, i) = {} /\ Taken(p, i) \cap HandoffSources = {}
        /\ Taken(p, i) \subseteq HandoffFiles /\ g \in kept
    BY <1>2, <1>4, CacheNames, Names, KeptCaches, TakenFiles
  <2>3. PICK N : N = Standing(Taken(p, i)) /\ MadeOf(N)
    BY <1>4, <2>2, InHandoffs DEF HMade
  <2>4. N = {IF ~exists(g) THEN cache_of(g) ELSE g}
    BY <1>4, <2>2, <2>3 DEF Standing
  <2>5. made = contents(N)
    BY <2>3 DEF MadeOf
  <2>6. N \subseteq HandoffFiles
    BY <2>2, <2>3, StandingFiles
  <2>7. HPulled(p, i)
    BY InHandoffs
  <2>8. CASE exists(g)
    <3>1. r \in disk[g].from
      BY <2>1, <2>4, <2>5, <2>6, <2>8, ContentsHas
    <3>2. cache_of(g) # "contiguous_bal" /\ r[2] = cut_row
      BY <1>4, <2>1, CacheNames
    <3> HIDE DEF r
    <3> QED BY <1>2, <2>2, <3>1, <3>2, RowStops
  <2>9. CASE ~exists(g)
    <3>1. g = "runtime_partial" /\ whole(cache_of(g))
      BY <1>4, <2>2, <2>7, <2>9 DEF HPulled
    <3>2. whole("runtime_blocks") /\ cache_of(g) = "runtime_blocks"
      BY <3>1, CacheNames
    <3>3. r \in disk["runtime_blocks"].from
      BY <2>1, <2>4, <2>5, <2>6, <2>9, <3>2, ContentsHas
    <3> QED BY <1>2, <2>1, <3>2, <3>3 DEF SavedRows
  <2> QED BY <2>8, <2>9
<1> HIDE DEF r
<1> QED BY <1>1, <1>3, <1>4 DEF CheckFacts, CoversFacts

\* Rows of one name, of one version.
HasRow(S, c) == \E v \in S : v[1] = c
\* The rows of name c have no other version than w.
OnlyVersion(S, c, w) == \A v \in S : v[1] = c => v[2] = w
\* The rows of c and of d are of one and the same version.
AllSame(S, c, d) == /\ versions(S, c) = versions(S, d)
                    /\ \A v, w \in versions(S, c) : v = w

\* Rows of one name and version.
LEMMA OneVersion ==
  ASSUME NEW S, NEW c, NEW w, HasRow(S, c), OnlyVersion(S, c, w)
  PROVE  versions(S, c) = {w}
<1>1. \A y : y \in versions(S, c) <=> \E v \in S : v[1] = c /\ v[2] = y
  BY DEF versions, on
<1>2. \A y : y \in versions(S, c) <=> y = w
  BY <1>1 DEF HasRow, OnlyVersion
<1> QED BY <1>2

\* Two caches, each in the same one version, are over the same blocks.
LEMMA SameVersion ==
  ASSUME NEW S, NEW c, NEW d, NEW w, HasRow(S, c), HasRow(S, d), OnlyVersion(S, c, w), OnlyVersion(S, d, w)
  PROVE  AllSame(S, c, d)
<1>1. versions(S, c) = {w}
  BY OneVersion
<1>2. versions(S, d) = {w}
  BY OneVersion
<1> QED BY <1>1, <1>2 DEF AllSame

\* Refunds over other blocks than the traces are a reason to fail.
LEMMA RefundsStop ==
  ASSUME NEW p, NEW m, NEW i, PassAt(p, m, i), m = "fresh", steady, p[i].do = "add",
         p[i].reads = {"refunds"}, "refunds" \in Written(p, i), Known(p, i), "traces" \in Taken(p, i),
         Taken(p, i) \subseteq ReadBack(p, i),
         NEW S, S = made \cup contents(p[i].reads),
         ~AllSame(S, "refunds", "traces")
  PROVE  obstructed
<1>1. HandoffBase /\ HandoffDisk /\ OwnRows /\ chain = "handoffs"
  BY InHandoffs DEF HandoffBase, PassAt
<1>2. PICK w \in Nat : /\ w # cut_row /\ disk["traces"].from = {<<"traces", w>>}
                       /\ versions(disk["traces"].from, "traces") = {w}
  BY <1>1, TracesIs
<1>3. \A v \in S : Based(v, Written(p, i))
  BY FreshMade, FreshRead
<1>4. "refunds" \in HandoffCaches /\ "refunds" \in HandoffFiles /\ "traces" \in HandoffSources /\ "traces" \in HandoffFiles
      /\ "refunds" \in kept /\ cache_of("refunds") = "refunds" /\ "refunds" \in HandoffTables
  BY <1>1, CacheNames, Names, KeptCaches
<1>5. OnlyVersion(S, "traces", w)
  <2>1. \A v \in S : v[1] = "traces" => v \in disk["traces"].from
    BY <1>1, <1>3, <1>4, BasedRow
  <2> QED BY <1>2, <2>1 DEF OnlyVersion
<1>6. \A v \in S : v[1] = "refunds" => v \in disk["refunds"].from
  BY <1>1, <1>3, <1>4, BasedRow
<1>7. HasRow(S, "refunds")
  <2>1. exists("refunds")
    BY <1>4, InHandoffs DEF WholeAll, whole, exists
  <2>2. PICK v \in disk["refunds"].from : v[1] = "refunds"
    BY <1>1, <1>4, <2>1, RowsOwned
  <2>3. v \in contents(p[i].reads)
    BY <1>4, <2>2, ContentsHas
  <2> QED BY <2>2, <2>3 DEF HasRow
<1>8. HasRow(S, "traces")
  <2>1. made = contents(Taken(p, i)) /\ Taken(p, i) \subseteq HandoffFiles
    BY FreshMade, TakenFiles
  <2>2. <<"traces", w>> \in made
    BY <1>2, <2>1, ContentsHas
  <2> QED BY <2>2 DEF HasRow
<1>9. PICK v \in S : v[1] = "refunds" /\ v[2] # w
  <2>1. ~OnlyVersion(S, "refunds", w)
    BY <1>5, <1>7, <1>8, SameVersion
  <2> QED BY <2>1 DEF OnlyVersion
<1>10. v \in disk["refunds"].from
  BY <1>6, <1>9
<1>11. v[2] = cut_row \/ v[2] \notin versions(disk["traces"].from, "traces") \cup {cut_row}
  BY <1>2, <1>9
<1> QED BY <1>1, <1>4, <1>10, <1>11, RowStops

\* An attribution over other blocks than the runtime panel is a reason to
\* fail.
LEMMA AttributionStops ==
  ASSUME NEW p, NEW m, NEW i, PassAt(p, m, i), m = "fresh", steady, p[i].do = "add",
         p[i].reads = {"runtime_blocks"}, Known(p, i),
         Taken(p, i) = {"attribution_partial"}, "attribution_partial" \notin Dropped(p, i),
         "runtime_partial" \in Dropped(p, i),
         NEW S, S = made \cup contents(p[i].reads),
         ~AllSame(S, "attribution_blocks", "runtime_blocks")
  PROVE  obstructed
<1>1. HandoffBase /\ HandoffDisk /\ OwnRows /\ chain = "handoffs"
  BY InHandoffs DEF HandoffBase, PassAt
<1>2. PICK w \in Nat : /\ w # cut_row /\ disk["traces"].from = {<<"traces", w>>}
                       /\ versions(disk["traces"].from, "traces") = {w}
  BY <1>1, TracesIs
<1> DEFINE a == "attribution_partial"
           r == "runtime_blocks"
<1>3. /\ a \in pulled /\ a \in kept /\ r \in kept /\ r \in HandoffCaches /\ r \in HandoffFiles /\ a \in HandoffFiles
      /\ cache_of(a) = "attribution_blocks" /\ cache_of(r) = r /\ {a} \cap HandoffSources = {}
      /\ a \in HandoffCaches \cup pulled /\ r \in HandoffCaches \cup pulled
      /\ cache_of(a) # "contiguous_bal" /\ cache_of(r) # "contiguous_bal"
  BY <1>1, CacheNames, Names, KeptCaches
<1>4. exists(a)
  <2>1. exists(a) \/ a = "runtime_partial"
    BY <1>3, InHandoffs DEF HPulled
  <2> QED BY <2>1
<1>5. made = disk[a].from
  <2>0. HMade(p, i) /\ Taken(p, i) \cap Dropped(p, i) = {}
    BY InHandoffs
  <2>1. PICK N : N = Standing(Taken(p, i)) /\ MadeOf(N)
    BY <2>0 DEF HMade
  <2>2. N = {a}
    BY <1>4, <2>1 DEF Standing
  <2>3. made = contents({a})
    BY <1>3, <2>1, <2>2 DEF MadeOf
  <2>4. \A v : v \in contents({a}) <=> v \in disk[a].from
    BY <1>3, ContentsHas
  <2> QED BY <2>3, <2>4
<1>6. \A v : v \in S <=> v \in disk[a].from \/ v \in disk[r].from
  BY <1>3, <1>5, ContentsHas
<1>7. exists(r)
  BY <1>3, FreshRead DEF whole, exists
<1>8. ~exists("runtime_partial")
  BY InHandoffs DEF Gone
<1>9. (\A v \in disk[a].from : v[1] = "attribution_blocks") /\ (\A v \in disk[r].from : v[1] = r)
  BY <1>1, <1>3, PulledRows
<1>10. HasRow(S, "attribution_blocks")
  <2>1. \E v \in disk[a].from : v[1] = cache_of(a) /\ v[2] # cut_row
    BY <1>1, <1>3, <1>4 DEF OwnRows
  <2> QED BY <1>3, <1>6, <2>1 DEF HasRow
<1>11. HasRow(S, r)
  <2>1. \E v \in disk[r].from : v[1] = cache_of(r) /\ v[2] # cut_row
    BY <1>1, <1>3, <1>7 DEF OwnRows
  <2> QED BY <1>3, <1>6, <2>1 DEF HasRow
<1>12. PICK v \in S : v[2] # w
  <2>1. ~(OnlyVersion(S, "attribution_blocks", w) /\ OnlyVersion(S, "runtime_blocks", w))
    BY <1>10, <1>11, SameVersion
  <2> QED BY <2>1 DEF OnlyVersion
<1>13. v[2] = cut_row \/ v[2] \notin versions(disk["traces"].from, "traces") \cup {cut_row}
  BY <1>2, <1>12
<1>14. CASE v \in disk[a].from
  BY <1>1, <1>3, <1>13, <1>14, RowStops
<1>15. CASE v \in disk[r].from
  BY <1>1, <1>3, <1>8, <1>13, <1>15, RowStops
<1> QED BY <1>6, <1>14, <1>15

\* The panels a fresh pass saved are over the same blocks when the
\* decomposition opens them.
LEMMA MatchedHold ==
  ASSUME NEW p, NEW m, NEW i, PassAt(p, m, i), m = "fresh", steady, p[i].do = "open",
         p[i].reads = decomposition_inputs, "attribution_blocks" \in Written(p, i),
         NEW S, S = contents(p[i].reads)
  PROVE  AllSame(S, "attribution_blocks", "runtime_blocks")
<1>1. HandoffBase /\ chain = "handoffs"
  BY InHandoffs DEF PassAt
<1>2. PICK w : /\ disk["attribution_blocks"].from = {<<"attribution_blocks", w>>}
               /\ disk["runtime_blocks"].from = {<<"runtime_blocks", w>>}
  BY InHandoffs DEF Matched
<1>3. p[i].reads \subseteq HandoffFiles /\ \A v \in S : Based(v, Written(p, i))
  BY FreshRead
<1>4. "attribution_blocks" \in HandoffCaches /\ "runtime_blocks" \in HandoffCaches
  BY CacheNames
<1>5. ASSUME NEW d \in {"attribution_blocks", "runtime_blocks"} PROVE OnlyVersion(S, d, w)
  <2> SUFFICES ASSUME NEW v \in S, v[1] = d PROVE v[2] = w
    BY DEF OnlyVersion
  <2>1. v \in disk[v[1]].from
    BY <1>1, <1>3, <1>4, BasedRow
  <2> QED BY <1>2, <2>1
<1>6. "attribution_blocks" \in p[i].reads /\ "runtime_blocks" \in p[i].reads
  BY DEF decomposition_inputs
<1>7. HasRow(S, "attribution_blocks")
  <2>1. <<"attribution_blocks", w>> \in S
    BY <1>2, <1>3, <1>6, ContentsHas
  <2> QED BY <2>1 DEF HasRow
<1>8. HasRow(S, "runtime_blocks")
  <2>1. <<"runtime_blocks", w>> \in S
    BY <1>2, <1>3, <1>6, ContentsHas
  <2> QED BY <2>1 DEF HasRow
<1> QED BY <1>5, <1>7, <1>8, SameVersion

\* In a fresh pass, an equality check of two caches fails only for a reason.
LEMMA FreshSameRows ==
  ASSUME NEW p, NEW m, NEW i, PassAt(p, m, i), m = "fresh", steady,
         p[i].do \in {"open", "add", "derive"}, NEW c \in p[i].checks, c.is = "same_rows",
         NEW S, Looked(p, i, S),
         ~AllSame(S, c.one, c.other)
  PROVE  obstructed
<1>1. CheckFacts(p, i, m, c)
  BY CheckIn
<1>2. CASE c = same_rows("refunds", "traces")
  <2>1. c.one = "refunds" /\ c.other = "traces" /\ c # same_rows("attribution_blocks", "runtime_blocks")
    BY <1>2 DEF same_rows
  <2>2. /\ p[i].do = "add" /\ p[i].reads = {"refunds"} /\ "refunds" \in Written(p, i) /\ Known(p, i)
        /\ Taken(p, i) \subseteq ReadBack(p, i)
        /\ "traces" \in Taken(p, i)
    BY <1>1, <2>1 DEF CheckFacts, SameRowsFacts
  <2>3. S = made \cup contents(p[i].reads)
    BY <2>2 DEF Looked
  <2> QED BY <2>1, <2>2, <2>3, RefundsStop
<1>3. CASE c = same_rows("attribution_blocks", "runtime_blocks")
  <2>1. c.one = "attribution_blocks" /\ c.other = "runtime_blocks" /\ c # same_rows("refunds", "traces")
    BY <1>3 DEF same_rows
  <2>2. CASE /\ p[i].do = "add" /\ p[i].reads = {"runtime_blocks"}
             /\ Known(p, i) /\ Taken(p, i) = {"attribution_partial"}
             /\ "attribution_partial" \notin Dropped(p, i)
             /\ "runtime_partial" \in Dropped(p, i)
    <3>1. S = made \cup contents(p[i].reads)
      BY <2>2 DEF Looked
    <3>2. ~AllSame(S, "attribution_blocks", "runtime_blocks")
      BY <2>1
    <3> QED BY <2>2, <3>1, <3>2, AttributionStops
  <2>3. CASE /\ p[i].do = "open" /\ p[i].reads = decomposition_inputs
             /\ "attribution_blocks" \in Written(p, i)
    <3>1. S = contents(p[i].reads)
      BY <2>3 DEF Looked
    <3> QED BY <2>1, <2>3, <3>1, MatchedHold
  <2> QED BY <1>1, <2>1, <2>2, <2>3 DEF CheckFacts, SameRowsFacts
<1> QED BY <1>1, <1>2, <1>3 DEF CheckFacts, SameRowsFacts

\* The rows of f that are of a source, or of a cache, are those there are.
Rooted(f) == \A v \in disk[f].from : v[1] \in HandoffSources \cup HandoffCaches => v \in disk[v[1]].from

\* A current row is in its source or in its cache, and cut only in a cache
\* nothing covers.
LEMMA CurrentRow ==
  ASSUME chain = "handoffs", NEW v \in current
  PROVE  /\ v[1] \in HandoffSources \cup HandoffCaches \cup {"other_rate"}
         /\ v[1] \in HandoffSources \cup HandoffCaches => v \in disk[v[1]].from
         /\ v[1] = "other_rate" => \E c \in HandoffCaches : v \in disk[c].from
         /\ v[2] = cut_row => v[1] \in uncovered \cup HandoffSources
<1>1. Sources[chain] = HandoffSources /\ Caches[chain] = HandoffCaches
  BY DEF Sources, HandoffCaches
<1>2. "other_rate" \notin HandoffSources \cup HandoffCaches /\ HandoffSources \cap HandoffCaches = {}
  BY CacheNames
<1>3. \/ \E s \in HandoffSources : v \in on(disk[s].from, {s})
      \/ /\ \E c \in HandoffCaches : v \in on(disk[c].from, {c, "other_rate"})
         /\ v[2] # cut_row \/ v[1] \in uncovered
  BY <1>1 DEF current
<1>4. CASE \E s \in HandoffSources : v \in on(disk[s].from, {s})
  BY <1>2, <1>4 DEF on
<1>5. CASE /\ \E c \in HandoffCaches : v \in on(disk[c].from, {c, "other_rate"})
           /\ v[2] # cut_row \/ v[1] \in uncovered
  <2>1. PICK c \in HandoffCaches : v \in disk[c].from /\ (v[1] = c \/ v[1] = "other_rate")
    BY <1>5 DEF on
  <2> QED BY <1>2, <1>5, <2>1
<1> QED BY <1>3, <1>4, <1>5

\* In a complete run every table is whole and has current rows.
LEMMA CompleteIs ==
  ASSUME chain = "handoffs", Complete, NEW f \in HandoffTables
  PROVE  whole(f) /\ exists(f) /\ Rooted(f) /\ disk[f].from \subseteq current
<1>1. whole(f) /\ disk[f].from \subseteq current
  BY DEF Complete, HandoffTables
<1> QED BY <1>1, CurrentRow DEF Rooted, whole, exists

\* A table a fresh pass wrote has the rows its sources and caches have.
LEMMA TracedIs ==
  ASSUME HandoffBase, NEW W, Traced(W, "fresh"), steady, NEW f \in W \cap HandoffTables
  PROVE  Rooted(f)
BY BasedRow DEF Traced, Rooted

\* The metering anchor has what its three inputs have.
LEMMA MeteringIs ==
  ASSUME NEW p, NEW m, NEW i, PassAt(p, m, i), "metering_anchor" \in Written(p, i)
  PROVE  /\ disk["metering_anchor"].from = disk["daily_metering"].from \cup disk["runtime_blocks"].from
                                             \cup disk["static_panel"].from
<1> DEFINE N == {"daily_metering", "runtime_blocks", "static_panel"}
<1>1. inputs(m)["metering_anchor"] = N /\ "metering_anchor" \in DOMAIN inputs(m) /\ N \cap HandoffSources = {}
  BY DEF inputs, fed, metering_inputs, HandoffSources
<1>2. N \subseteq HandoffFiles
  BY CacheNames, TableNames, Names
<1>3. disk["metering_anchor"] = file(contents(N))
  <2>1. Fed(Written(p, i), inputs(m))
    BY InHandoffs
  <2> QED BY <1>1, <2>1 DEF Fed
<1>4. disk["metering_anchor"].from = contents(N)
  BY <1>3 DEF file
<1>5. \A v : v \in contents(N) <=> v \in disk["daily_metering"].from \cup disk["runtime_blocks"].from \cup disk["static_panel"].from
  BY <1>2, ContentsHas
<1> QED BY <1>4, <1>5

\* The daily counts under the anchor are those it was computed from.
LEMMA MeteringAsIn ==
  ASSUME NEW p, NEW m, NEW i, PassAt(p, m, i), "metering_anchor" \in Written(p, i)
  PROVE  on(contents({"daily_metering"}), {"blocks"}) = on(disk["metering_anchor"].from, {"blocks"})
<1>1. \A v : v \in contents({"daily_metering"}) <=> v \in disk["daily_metering"].from
  <2>1. {"daily_metering"} \subseteq HandoffFiles
    BY TableNames, Names
  <2> QED BY <2>1, ContentsHas
<1>2. /\ \A v \in disk["runtime_blocks"].from : v[1] = "runtime_blocks"
      /\ \A v \in disk["static_panel"].from : v[1] = "static_panel"
  <2>1. OwnRows
    BY InHandoffs DEF HandoffBase
  <2> QED BY <2>1, PulledRows, CacheNames
<1> QED BY <1>1, <1>2, MeteringIs DEF on

\* The anchor under the demand card is the one it was computed from.
LEMMA DemandAsIn ==
  ASSUME NEW p, NEW m, NEW i, PassAt(p, m, i), {"demand_card", "metering_anchor"} \subseteq Written(p, i),
         Rooted("equilibrium_anchor")
  PROVE  on(contents({"metering_anchor"}), {"runtime_blocks"}) = on(disk["demand_card"].from, {"runtime_blocks"})
<1> DEFINE N == {"runtime_blocks", "attribution_blocks", "metering_anchor", "equilibrium_anchor"}
<1>1. inputs(m)["demand_card"] = N /\ "demand_card" \in DOMAIN inputs(m) /\ N \cap HandoffSources = {}
  BY ShocksInputs
<1>2. N \subseteq HandoffFiles /\ {"metering_anchor"} \subseteq HandoffFiles
  BY CacheNames, TableNames, Names
<1>3. disk["demand_card"].from = contents(N)
  <2>0. Fed(Written(p, i), inputs(m))
    BY InHandoffs
  <2>1. disk["demand_card"] = file(contents(N))
    BY <1>1, <2>0 DEF Fed
  <2> QED BY <2>1 DEF file
<1>4. \A v : v \in contents(N) <=> v \in disk["runtime_blocks"].from \cup disk["attribution_blocks"].from
                                          \cup disk["metering_anchor"].from \cup disk["equilibrium_anchor"].from
  BY <1>2, ContentsHas
<1>5. \A v : v \in contents({"metering_anchor"}) <=> v \in disk["metering_anchor"].from
  BY <1>2, ContentsHas
<1>6. \A v \in disk["attribution_blocks"].from : v[1] = "attribution_blocks"
  <2>1. OwnRows
    BY InHandoffs DEF HandoffBase
  <2> QED BY <2>1, PulledRows, CacheNames
<1>7. disk["runtime_blocks"].from \subseteq disk["metering_anchor"].from
  BY MeteringIs
<1>8. \A v \in disk["equilibrium_anchor"].from : v[1] = "runtime_blocks" => v \in disk["runtime_blocks"].from
  BY CacheNames DEF Rooted
<1> HIDE DEF N
<1>9. \A v : v \in on(contents({"metering_anchor"}), {"runtime_blocks"}) <=> v \in on(disk["demand_card"].from, {"runtime_blocks"})
  BY <1>3, <1>4, <1>5, <1>6, <1>7, <1>8 DEF on
<1> QED BY <1>9

\* The two repriced tables of a fresh pass have the same sampled rows.
LEMMA RepricedIs ==
  ASSUME NEW p, NEW m, NEW i, PassAt(p, m, i), m = "fresh", steady,
         {"execution_repricing", "anchor_accounting"} \subseteq Written(p, i)
  PROVE  on(contents({"anchor_accounting"}), {"blocks", "rpc_blocks"})
           = on(disk["execution_repricing"].from, {"blocks", "rpc_blocks"})
<1> DEFINE E == {"blocks", "rpc_blocks", "traces", "refunds"}
           A == {"blocks", "rpc_blocks"}
<1>1. /\ inputs(m)["execution_repricing"] = E /\ inputs(m)["anchor_accounting"] = A
      /\ {"execution_repricing", "anchor_accounting"} \subseteq DOMAIN inputs(m)
  BY DEF inputs, fed, simulated, repriced
<1>2. E \subseteq HandoffFiles /\ A \subseteq HandoffFiles /\ {"anchor_accounting"} \subseteq HandoffFiles
  BY CacheNames, TableNames, Names
<1>3. disk["execution_repricing"].from = contents(E) /\ disk["anchor_accounting"].from = contents(A)
  <2>0. Fed(Written(p, i), inputs(m))
    BY InHandoffs
  <2>1. disk["execution_repricing"] = file(contents(E)) /\ disk["anchor_accounting"] = file(contents(A))
    BY <1>1, <2>0 DEF Fed
  <2> QED BY <2>1 DEF file
<1>4. \A v : v \in contents(E) <=> v \in contents(A) \cup disk["traces"].from \cup disk["refunds"].from
  BY <1>2, ContentsHas
<1>5. \A v : v \in contents({"anchor_accounting"}) <=> v \in disk["anchor_accounting"].from
  BY <1>2, ContentsHas
<1>6. \A v \in disk["traces"].from : v[1] = "traces"
  BY TracesIs, InHandoffs
<1>7. \A v \in disk["refunds"].from : v[1] = "refunds" \/ v[1] = "other_rate"
  <2>1. OwnRows
    BY InHandoffs DEF HandoffBase
  <2>2. "refunds" \in HandoffCaches /\ cache_of("refunds") = "refunds"
    BY CacheNames
  <2> QED BY <2>1, <2>2 DEF OwnRows
<1> HIDE DEF E, A
<1>8. \A v : v \in on(contents({"anchor_accounting"}), {"blocks", "rpc_blocks"})
               <=> v \in on(disk["execution_repricing"].from, {"blocks", "rpc_blocks"})
  BY <1>3, <1>4, <1>5, <1>6, <1>7 DEF on
<1> QED BY <1>8

\* The sampled blocks behind two complete tables are the same, or one stops.
LEMMA SampledIs ==
  ASSUME HandoffBase, chain = "handoffs", Complete, ~obstructed
  PROVE  on(contents({"anchor_accounting"}), {"blocks", "rpc_blocks"})
           = on(disk["execution_repricing"].from, {"blocks", "rpc_blocks"})
<1>1. HandoffDisk
  BY DEF HandoffBase
<1>2. PICK b \in Nat : disk["blocks"].from = {<<"blocks", b>>}
  BY <1>1, SourceRows, CacheNames
<1>3. ASSUME NEW f \in {"anchor_accounting", "execution_repricing"}
      PROVE  on(disk[f].from, {"blocks", "rpc_blocks"}) = {<<"blocks", b>>} \cup disk["rpc_blocks"].from
  <2>1. f \in HandoffTables
    BY TableNames
  <2>2. exists(f) /\ Rooted(f)
    BY <2>1, CompleteIs
  <2>3. on(disk[f].from, {"blocks"}) = {<<"blocks", b>>}
    <3>1. on(disk[f].from, {"blocks"}) # {}
      BY <2>2 DEF HandoffBase, Sampled
    <3>2. \A v \in on(disk[f].from, {"blocks"}) : v = <<"blocks", b>>
      BY <1>2, <2>2, CacheNames DEF on, Rooted
    <3> QED BY <3>1, <3>2
  <2>4. on(disk[f].from, {"rpc_blocks"}) = disk["rpc_blocks"].from
    <3>1. ~moved(disk[f].from)
      <4> SUFFICES ASSUME NEW v \in disk[f].from, v[1] = "rpc_blocks", v[2] = cut_row \/ drifted(v) PROVE FALSE
        BY DEF moved
      <4>1. v \in disk["rpc_blocks"].from
        BY <2>2, CacheNames DEF Rooted
      <4>2. "rpc_blocks" \in kept /\ cache_of("rpc_blocks") # "contiguous_bal"
        BY KeptCaches, CacheNames
      <4> QED BY <4>1, <4>2, RowStops
    <3> QED BY <2>2, <3>1 DEF HandoffBase, Sampled
  <2>5. on(disk[f].from, {"blocks", "rpc_blocks"}) = on(disk[f].from, {"blocks"}) \cup on(disk[f].from, {"rpc_blocks"})
    BY DEF on
  <2> QED BY <2>3, <2>4, <2>5
<1>4. contents({"anchor_accounting"}) = disk["anchor_accounting"].from
  <2>1. {"anchor_accounting"} \subseteq HandoffFiles
    BY TableNames, Names
  <2>2. \A v : v \in contents({"anchor_accounting"}) <=> v \in disk["anchor_accounting"].from
    BY <2>1, ContentsHas
  <2> QED BY <2>2
<1> QED BY <1>3, <1>4

\* A table agrees with its inputs, in a fresh pass and over a complete run.
LEMMA AsInHolds ==
  ASSUME NEW p, NEW m, NEW i, PassAt(p, m, i), steady, m = "fresh" \/ (Complete /\ ~obstructed),
         p[i].do \in {"open", "add", "derive"}, NEW c \in p[i].checks, c.is = "as_in"
  PROVE  on(contents(c.reads), c.of) = on(disk[c.file].from, c.of)
<1>1. CheckFacts(p, i, m, c)
  BY CheckIn
<1>2. HandoffBase /\ chain = "handoffs" /\ Fed(Written(p, i), inputs(m)) /\ Traced(Written(p, i), m)
  BY InHandoffs DEF PassAt
<1>3. CASE /\ c = as_in("execution_repricing", {"anchor_accounting"}, {"blocks", "rpc_blocks"})
           /\ m = "fresh" => {"execution_repricing", "anchor_accounting"} \subseteq Written(p, i)
  <2>1. c.reads = {"anchor_accounting"} /\ c.of = {"blocks", "rpc_blocks"} /\ c.file = "execution_repricing"
    BY <1>3 DEF as_in
  <2>2. on(contents({"anchor_accounting"}), {"blocks", "rpc_blocks"})
           = on(disk["execution_repricing"].from, {"blocks", "rpc_blocks"})
    BY <1>2, <1>3, RepricedIs, SampledIs
  <2> QED BY <2>1, <2>2
<1>4. CASE c = as_in("metering_anchor", {"daily_metering"}, {"blocks"}) /\ "metering_anchor" \in Written(p, i)
  <2>1. c.reads = {"daily_metering"} /\ c.of = {"blocks"} /\ c.file = "metering_anchor"
    BY <1>4 DEF as_in
  <2>2. on(contents({"daily_metering"}), {"blocks"}) = on(disk["metering_anchor"].from, {"blocks"})
    BY <1>4, MeteringAsIn
  <2> QED BY <2>1, <2>2
<1>5. CASE /\ c = as_in("demand_card", {"metering_anchor"}, {"runtime_blocks"})
           /\ {"demand_card", "metering_anchor"} \subseteq Written(p, i)
           /\ m = "fresh" => "equilibrium_anchor" \in Written(p, i)
  <2>1. c.reads = {"metering_anchor"} /\ c.of = {"runtime_blocks"} /\ c.file = "demand_card"
    BY <1>5 DEF as_in
  <2>2. Rooted("equilibrium_anchor")
    BY <1>2, <1>5, TracedIs, CompleteIs, TableNames
  <2>3. on(contents({"metering_anchor"}), {"runtime_blocks"}) = on(disk["demand_card"].from, {"runtime_blocks"})
    BY <1>5, <2>2, DemandAsIn
  <2> QED BY <2>1, <2>3
<1>6. ASSUME NEW f \in {"slot_fixed", "slot_scenarios"}, f \in Written(p, i),
             c = as_in(f, {"demand_card", "metering_anchor"} \cup build_full_multiscale_workload,
                       {"blocks", "runtime_blocks", "static_panel", "contiguous_bal"})
      PROVE  on(contents(c.reads), c.of) = on(disk[c.file].from, c.of)
  <2>1. c.reads = surface_inputs /\ c.file = f
    BY <1>6 DEF as_in, surface_inputs
  <2>2. f \in DOMAIN inputs(m) /\ inputs(m)[f] = surface_inputs
    BY DEF inputs, fed, simulated
  <2>3. disk[f] = file(contents(surface_inputs))
    BY <1>2, <1>6, <2>2 DEF Fed
  <2>4. disk[f].from = contents(surface_inputs)
    BY <2>3 DEF file
  <2> QED BY <2>1, <2>4
<1> QED BY <1>1, <1>3, <1>4, <1>5, <1>6 DEF CheckFacts, AsInFacts

\* No check of a fresh pass fails without a reason.
LEMMA FreshCheckStops ==
  ASSUME NEW p, NEW m, NEW i, PassAt(p, m, i), m = "fresh", steady,
         p[i].do \in {"open", "add", "derive"}, NEW S, Looked(p, i, S), may_fail(p[i].checks, S)
  PROVE  obstructed
<1>1. PICK c \in p[i].checks : ~holds(c, S) \/ unsure(c, S)
  BY DEF may_fail
<1>2. c.is \in {"counted", "covers", "same_rows", "as_in", "published", "perhaps"}
  BY CheckIn
<1>3. /\ c.is \in {"counted", "perhaps"} => ~whole(c.file)
      /\ c.is = "covers" => <<c.cache, cut_row>> \in S
      /\ c.is = "same_rows" => ~AllSame(S, c.one, c.other)
      /\ c.is = "as_in" => on(contents(c.reads), c.of) # on(disk[c.file].from, c.of)
      /\ c.is = "published" => \E v \in S : drifted(v) \/ (v[2] = cut_row /\ v[1] # "contiguous_bal")
  BY <1>1, <1>2, CheckIs DEF AllSame
<1>4. CASE c.is \in {"counted", "perhaps"}
  BY <1>3, <1>4, FreshWhole
<1>5. CASE c.is = "covers"
  BY <1>3, <1>5, FreshCovers
<1>6. CASE c.is = "same_rows"
  BY <1>3, <1>6, FreshSameRows
<1>7. CASE c.is = "as_in"
  BY <1>3, <1>7, AsInHolds
<1>8. CASE c.is = "published"
  BY <1>3, <1>8, FreshPublished
<1> QED BY <1>2, <1>4, <1>5, <1>6, <1>7, <1>8

\* Over a complete run, a pass reads what is there and current.
LEMMA ReuseRead ==
  ASSUME NEW p, NEW m, NEW i, PassAt(p, m, i), m # "fresh", Complete,
         p[i].do \in {"open", "add", "derive"}
  PROVE  /\ readable(p[i].reads) /\ p[i].reads \subseteq HandoffTables
         /\ \A v \in contents(p[i].reads) : v \in current
<1>1. chain = "handoffs" /\ p[i].reads \subseteq HandoffTables /\ p[i].reads \subseteq HandoffFiles
  BY InHandoffs, Names DEF StepFacts, OpenFacts, PassAt
<1>2. readable(p[i].reads)
  BY <1>1, CompleteIs DEF readable
<1>3. \A v \in contents(p[i].reads) : v \in current
  BY <1>1, CompleteIs, ContentsHas
<1> QED BY <1>1, <1>2, <1>3

\* Over a complete run, a pass that keeps the caches has current rows.
LEMMA ReuseMade ==
  ASSUME NEW p, NEW m, NEW i, PassAt(p, m, i), Complete, Known(p, i), Taken(p, i) \subseteq HandoffTables
  PROVE  \A v \in made : v \in current
<1>1. chain = "handoffs" /\ Taken(p, i) \cap pulled = {} /\ Taken(p, i) \cap HandoffSources = {}
      /\ Taken(p, i) \subseteq HandoffFiles
  BY Names DEF PassAt
<1>2. MadeOf(Taken(p, i))
  BY <1>1, MadeNow
<1>3. made = contents(Taken(p, i))
  BY <1>1, <1>2 DEF MadeOf
<1> QED BY <1>1, <1>3, CompleteIs, ContentsHas

\* The attribution of a complete run is of the traces as they are.
LEMMA WeighedIs ==
  ASSUME HandoffBase, chain = "handoffs", Complete, ~obstructed
  PROVE  \E w \in Nat : /\ disk["traces"].from = {<<"traces", w>>} /\ w # cut_row
                        /\ disk["attribution_blocks"].from = {<<"attribution_blocks", w>>}
                        /\ \A v \in disk["runtime_blocks"].from : v[2] = w
                        /\ <<"runtime_blocks", w>> \in disk["runtime_blocks"].from
<1>1. HandoffDisk /\ OwnRows /\ SavedRows /\ Weighed
  BY DEF HandoffBase
<1>2. PICK w \in Nat : /\ w # cut_row /\ disk["traces"].from = {<<"traces", w>>}
                       /\ versions(disk["traces"].from, "traces") = {w}
  BY <1>1, TracesIs
<1>3. {"attribution_blocks", "runtime_blocks"} \subseteq HandoffTables /\ "demand_card" \in HandoffTables
      /\ "runtime_blocks" \in kept /\ "runtime_partial" \in kept /\ cache_of("runtime_blocks") # "contiguous_bal"
      /\ cache_of("runtime_partial") # "contiguous_bal"
      /\ {"attribution_blocks", "runtime_blocks"} \subseteq HandoffCaches
  BY CacheNames, TableNames, Names, KeptCaches
<1>4. whole("attribution_blocks") /\ whole("runtime_blocks") /\ exists("demand_card") /\ Rooted("demand_card")
  BY <1>3, CompleteIs
<1>5. \A v \in disk["runtime_blocks"].from : v[2] = w
  <2> SUFFICES ASSUME NEW v \in disk["runtime_blocks"].from, v[2] # w PROVE FALSE
    OBVIOUS
  <2>1. v[2] = cut_row \/ v[2] \notin versions(disk["traces"].from, "traces") \cup {cut_row}
    BY <1>2
  <2>2. CASE exists("runtime_partial")
    <3>1. v \in disk["runtime_partial"].from
      BY <1>1, <1>4, <2>2 DEF SavedRows
    <3> QED BY <1>3, <2>1, <3>1, RowStops
  <2>3. CASE ~exists("runtime_partial")
    BY <1>3, <2>1, <2>3, RowStops
  <2> QED BY <2>2, <2>3
<1>6. PICK u : disk["attribution_blocks"].from = {<<"attribution_blocks", u>>}
  BY <1>1, <1>4 DEF SavedRows
<1>7. PICK y : pair(y) \subseteq disk["demand_card"].from
  BY <1>1, <1>4 DEF Weighed
<1>8. <<"runtime_blocks", y>> \in disk["runtime_blocks"].from /\ <<"attribution_blocks", y>> \in disk["attribution_blocks"].from
  <2>1. <<"runtime_blocks", y>> \in disk["demand_card"].from /\ <<"attribution_blocks", y>> \in disk["demand_card"].from
    BY <1>7 DEF pair
  <2>2. \A d \in {"attribution_blocks", "runtime_blocks"} : \A v \in disk["demand_card"].from : v[1] = d => v \in disk[d].from
    BY <1>3, <1>4 DEF Rooted
  <2>3. \A v \in disk["demand_card"].from : v[1] = "runtime_blocks" => v \in disk["runtime_blocks"].from
    BY <2>2
  <2>4. \A v \in disk["demand_card"].from : v[1] = "attribution_blocks" => v \in disk["attribution_blocks"].from
    BY <2>2
  <2>5. <<"runtime_blocks", y>>[1] = "runtime_blocks" /\ <<"attribution_blocks", y>>[1] = "attribution_blocks"
    OBVIOUS
  <2> QED BY <2>1, <2>3, <2>4, <2>5
<1>9. y = w /\ y = u
  <2>1. <<"runtime_blocks", y>>[2] = w
    BY <1>5, <1>8
  <2>2. <<"attribution_blocks", y>> = <<"attribution_blocks", u>>
    BY <1>6, <1>8
  <2>3. y = u
    BY <2>2
  <2> QED BY <2>1, <2>3
<1> QED BY <1>2, <1>5, <1>6, <1>8, <1>9

\* No row of a complete run moved or was cut, unless it stops.
LEMMA CurrentHolds ==
  ASSUME HandoffBase, chain = "handoffs", Complete, ~obstructed, NEW v \in current
  PROVE  ~drifted(v) /\ (v[2] = cut_row => v[1] = "contiguous_bal")
<1>1. HandoffDisk
  BY DEF HandoffBase
<1>2. /\ v[1] \in HandoffSources \cup HandoffCaches \cup {"other_rate"}
      /\ v[1] \in HandoffSources \cup HandoffCaches => v \in disk[v[1]].from
      /\ v[1] = "other_rate" => \E c \in HandoffCaches : v \in disk[c].from
      /\ v[2] = cut_row => v[1] \in uncovered \cup HandoffSources
  BY CurrentRow
<1>3. CASE v[1] \in HandoffSources
  <2>1. PICK w \in Nat : w # cut_row /\ disk[v[1]].from = {<<v[1], w>>}
    BY <1>1, <1>3, SourceRows
  <2>2. v[2] # cut_row
    BY <1>2, <1>3, <2>1
  <2> QED BY <1>2, <1>3, <2>2, MovedSourceStops
<1>4. CASE v[1] \notin HandoffSources
  <2>1. PICK c \in HandoffCaches : v \in disk[c].from /\ (v[1] = c \/ v[1] = "other_rate")
    BY <1>2, <1>4
  <2>2. CASE c # "attribution_blocks"
    <3>1. c \in kept /\ cache_of(c) = c
      BY <2>1, <2>2, KeptCaches, CacheNames
    <3>2. ~drifted(v) /\ (v[2] = cut_row => c = "contiguous_bal")
      BY <2>1, <3>1, RowStops
    <3>3. v[2] = cut_row => v[1] # "other_rate"
      BY <1>2, <1>4 DEF uncovered
    <3> QED BY <2>1, <3>2, <3>3
  <2>3. CASE c = "attribution_blocks"
    <3>1. PICK w \in Nat : /\ disk["traces"].from = {<<"traces", w>>} /\ w # cut_row
                           /\ disk["attribution_blocks"].from = {<<"attribution_blocks", w>>}
      BY WeighedIs
    <3> DEFINE r == <<"traces", w>>
    <3>2. r[2] = v[2] /\ r \in disk["traces"].from /\ v[2] # cut_row
      BY <2>1, <2>3, <3>1
    <3>3. drifted(v) <=> drifted(r)
      BY <3>2 DEF drifted
    <3> HIDE DEF r
    <3> QED BY <3>2, <3>3, MovedSourceStops, CacheNames
  <2> QED BY <2>2, <2>3
<1> QED BY <1>3, <1>4

\* Over a complete run without a reason to fail, the two panels are over the
\* same blocks.
LEMMA ReuseSameRows ==
  ASSUME NEW p, NEW m, NEW i, PassAt(p, m, i), m # "fresh", Complete, ~obstructed,
         p[i].do = "open", p[i].reads = decomposition_inputs, NEW S, S = contents(p[i].reads)
  PROVE  AllSame(S, "attribution_blocks", "runtime_blocks")
<1>1. HandoffBase /\ chain = "handoffs"
  BY InHandoffs DEF PassAt
<1>2. PICK w \in Nat : /\ disk["attribution_blocks"].from = {<<"attribution_blocks", w>>}
                       /\ \A v \in disk["runtime_blocks"].from : v[2] = w
                       /\ <<"runtime_blocks", w>> \in disk["runtime_blocks"].from
  BY <1>1, WeighedIs
<1>3. p[i].reads \subseteq HandoffFiles /\ \A v \in S : v \in current
  BY ReuseRead, Names
<1>4. {"attribution_blocks", "runtime_blocks"} \subseteq HandoffCaches
  BY CacheNames
<1>5. ASSUME NEW d \in {"attribution_blocks", "runtime_blocks"} PROVE OnlyVersion(S, d, w)
  <2> SUFFICES ASSUME NEW v \in S, v[1] = d PROVE v[2] = w
    BY DEF OnlyVersion
  <2>1. v \in disk[v[1]].from
    BY <1>1, <1>3, <1>4, CurrentRow
  <2> QED BY <1>2, <2>1
<1>6. "attribution_blocks" \in p[i].reads /\ "runtime_blocks" \in p[i].reads
  BY DEF decomposition_inputs
<1>7. HasRow(S, "attribution_blocks")
  <2>1. <<"attribution_blocks", w>> \in S
    BY <1>2, <1>3, <1>6, ContentsHas
  <2> QED BY <2>1 DEF HasRow
<1>8. HasRow(S, "runtime_blocks")
  <2>1. <<"runtime_blocks", w>> \in S
    BY <1>2, <1>3, <1>6, ContentsHas
  <2> QED BY <2>1 DEF HasRow
<1> QED BY <1>5, <1>7, <1>8, SameVersion

\* Over a complete run without a reason to fail, no check of a pass that keeps
\* the caches fails.
LEMMA ReuseCheckHolds ==
  ASSUME NEW p, NEW m, NEW i, PassAt(p, m, i), m # "fresh", steady, Complete, ~obstructed,
         p[i].do \in {"open", "add", "derive"}, NEW S, Looked(p, i, S)
  PROVE  ~may_fail(p[i].checks, S)
<1> SUFFICES ASSUME NEW c \in p[i].checks, ~holds(c, S) \/ unsure(c, S) PROVE FALSE
  BY DEF may_fail
<1>1. CheckFacts(p, i, m, c) /\ c.is \in {"counted", "covers", "same_rows", "as_in", "published", "perhaps"}
  BY CheckIn
<1>2. /\ c.is \in {"counted", "perhaps"} => ~whole(c.file)
      /\ c.is = "covers" => <<c.cache, cut_row>> \in S
      /\ c.is = "same_rows" => ~AllSame(S, c.one, c.other)
      /\ c.is = "as_in" => on(contents(c.reads), c.of) # on(disk[c.file].from, c.of)
      /\ c.is = "published" => \E v \in S : drifted(v) \/ (v[2] = cut_row /\ v[1] # "contiguous_bal")
  BY <1>1, CheckIs DEF AllSame
<1>3. HandoffBase /\ chain = "handoffs"
  BY InHandoffs DEF PassAt
<1>4. CASE c.is \in {"counted", "perhaps"}
  BY <1>1, <1>2, <1>3, <1>4, CompleteIs DEF CheckFacts
<1>5. CASE c.is = "covers"
  BY <1>1, <1>5 DEF CheckFacts, CoversFacts
<1>6. CASE c.is = "same_rows"
  <2>1. c = same_rows("attribution_blocks", "runtime_blocks") /\ p[i].do = "open" /\ p[i].reads = decomposition_inputs
    BY <1>1, <1>6 DEF CheckFacts, SameRowsFacts
  <2>2. c.one = "attribution_blocks" /\ c.other = "runtime_blocks" /\ S = contents(p[i].reads)
    BY <2>1 DEF same_rows, Looked
  <2>3. AllSame(S, "attribution_blocks", "runtime_blocks")
    BY <2>1, <2>2, ReuseSameRows
  <2> QED BY <1>2, <1>6, <2>2, <2>3
<1>7. CASE c.is = "as_in"
  BY <1>2, <1>7, AsInHolds
<1>8. CASE c.is = "published"
  <2>1. \A v \in contents(p[i].reads) : v \in current
    BY ReuseRead
  <2>2. p[i].do = "add" => \A v \in made : v \in current
    BY <1>1, <1>8, ReuseMade DEF CheckFacts, PublishedFacts
  <2>3. \A v \in S : v \in current
    BY <2>1, <2>2 DEF Looked
  <2> QED BY <1>2, <1>3, <1>8, <2>3, CurrentHolds
<1> QED BY <1>1, <1>4, <1>5, <1>6, <1>7, <1>8

\* A pass that fails does not go on.
LEMMA FailNotProceed ==
  ASSUME NEW p, NEW m, NEW i, PassAt(p, m, i), Fail
  PROVE  ~Proceed
<1>1. at = i /\ i \in Nat \ {0}
  BY ScriptStep
<1>2. at' = 0 /\ outcome' = "failed"
  BY DEF Fail, Stop
<1> SUFFICES ASSUME Proceed PROVE FALSE
  OBVIOUS
<1>3. (at' = 0 /\ outcome' = "verified") \/ at' = at + 1
  BY DEF Proceed
<1>4. i + 1 # 0
  BY <1>1
<1> QED BY <1>1, <1>2, <1>3, <1>4

\* A step that reads, and fails.
LEMMA LookFails ==
  ASSUME NEW p, NEW m, NEW i, PassAt(p, m, i), steady, p[i].do \in {"open", "add", "derive"},
         NEW S, Looked(p, i, S), ~readable(p[i].reads) \/ may_fail(p[i].checks, S)
  PROVE  IF m = "fresh" THEN obstructed ELSE ~Complete \/ obstructed
<1>1. CASE m = "fresh"
  BY <1>1, FreshRead, FreshCheckStops
<1>2. CASE m # "fresh"
  <2>1. SUFFICES ASSUME Complete, ~obstructed PROVE FALSE
    BY <1>2
  <2>2. readable(p[i].reads)
    BY <1>2, <2>1, ReuseRead
  <2>3. ~may_fail(p[i].checks, S)
    BY <1>2, <2>1, ReuseCheckHolds
  <2> QED BY <2>2, <2>3
<1> QED BY <1>1, <1>2

\* A pass over an unchanged disk fails for a reason only, or over an
\* incomplete run.
LEMMA StepFails ==
  ASSUME NEW p, NEW m, NEW i, PassAt(p, m, i), steady, Step, Fail
  PROVE  IF m = "fresh" THEN obstructed ELSE ~Complete \/ obstructed
<1>1. ~Proceed
  BY FailNotProceed
<1>2. step = p[i] /\ chain = "handoffs"
  BY ScriptStep
<1>3. Add \/ Open \/ Derive \/ Inspect
  <2>1. ~Write /\ ~Save /\ ~Unlink /\ ~Resume
    BY <1>1 DEF Write, Save, Unlink, Resume
  <2> QED BY <2>1, StepKinds
<1>4. CASE Open
  <2> DEFINE S == contents(p[i].reads)
  <2>1. p[i].do = "open" /\ (~readable(p[i].reads) \/ may_fail(p[i].checks, S))
    BY <1>1, <1>2, <1>4 DEF Open, Running
  <2>2. Looked(p, i, S)
    BY <2>1 DEF Looked
  <2> HIDE DEF S
  <2> QED BY <2>1, <2>2, LookFails
<1>5. CASE Derive
  <2> DEFINE S == contents(p[i].reads)
  <2>1. p[i].do = "derive" /\ (~readable(p[i].reads) \/ may_fail(p[i].checks, S))
    BY <1>1, <1>2, <1>5 DEF Derive, Running
  <2>2. Looked(p, i, S)
    BY <2>1 DEF Looked
  <2> HIDE DEF S
  <2> QED BY <2>1, <2>2, LookFails
<1>6. CASE Add
  <2> DEFINE S == made \cup contents(p[i].reads)
  <2>1. p[i].do = "add" /\ (~readable(p[i].reads) \/ may_fail(p[i].checks, S))
    BY <1>1, <1>2, <1>6 DEF Add, Running
  <2>2. Looked(p, i, S)
    BY <2>1 DEF Looked
  <2> HIDE DEF S
  <2> QED BY <2>1, <2>2, LookFails
<1>7. CASE Inspect
  <2>1. p[i].do = "inspect" /\ ~(/\ \A f \in p[i].files : exists(f)
                                 /\ \A f \in p[i].counted : whole(f))
    BY <1>1, <1>2, <1>7 DEF Inspect, Running, Check
  <2>2. InspectFacts(p, i, m)
    BY <2>1, InHandoffs DEF StepFacts
  <2>3. PICK f \in p[i].files \cup p[i].counted : ~whole(f)
    BY <2>1 DEF exists, whole
  <2>4. m # "fresh"
    <3>1. SUFFICES ASSUME m = "fresh" PROVE FALSE
      OBVIOUS
    <3>2. f \in Written(p, i) \cap HandoffTables
      BY <2>2, <2>3, <3>1 DEF InspectFacts
    <3> QED BY <2>3, <3>2, InHandoffs DEF WholeAll
  <2>5. f \in HandoffTables
    BY <2>2, <2>3 DEF InspectFacts
  <2> QED BY <1>2, <2>3, <2>4, <2>5, CompleteIs
<1> QED BY <1>3, <1>4, <1>5, <1>6, <1>7

\* The reasons to fail are of the disk alone.
LEMMA SameReasons ==
  ASSUME disk' = disk, chain' = chain
  PROVE  (obstructed' <=> obstructed) /\ (Complete' <=> Complete)
<1>1. /\ current' = current /\ kept' = kept
  BY DEF current, kept
<1>2. \A f : unusable(f)' <=> unusable(f)
  BY DEF unusable, exists
<1>3. surface_obstructed' <=> surface_obstructed
  BY <1>1 DEF surface_obstructed, cached, exists
<1>4. obstructed' <=> obstructed
  BY <1>1, <1>2, <1>3 DEF obstructed
<1>5. Complete' <=> Complete
  BY <1>1 DEF Complete, whole
<1> QED BY <1>4, <1>5

-----------------------------------------------------------------------------
(* The claims, kept by everything that happens.                            *)

\* A pass that fails leaves the base and all four claims.
LEMMA FailClaims ==
  ASSUME NEW p, NEW m, NEW i, PassAt(p, m, i), Step, Fail
  PROVE  HandoffBase' /\ at' = 0 /\ changes' = changes /\ Claims'
<1>1. /\ disk' = disk /\ chain' = chain /\ mode' = mode /\ steady' = steady /\ at' = 0
      /\ changes' = changes /\ outcome' = "failed"
  BY DEF Fail, Stop
<1>2. HandoffBase'
  BY <1>1, SameDisk, InHandoffs
<1>3. mode = m
  BY ScriptStep
<1>4. steady' => IF m = "fresh" THEN obstructed' ELSE ~Complete' \/ obstructed'
  BY <1>1, StepFails, SameReasons
<1>5. FreshFailsForAReason' /\ ReuseOfACompleteRun'
  BY <1>1, <1>3, <1>4 DEF FreshFailsForAReason, ReuseOfACompleteRun, Ended
<1>6. FreshPassIsCurrent' /\ VerifiedTablesAgree'
  BY <1>1 DEF FreshPassIsCurrent, VerifiedTablesAgree, Ended
<1> QED BY <1>1, <1>2, <1>5, <1>6 DEF Claims

\* A kill leaves the base as it was, wherever it comes.
LEMMA KillKeeps ==
  ASSUME NEW p, NEW m, NEW i, PassAt(p, m, i), Kill
  PROVE  HandoffBase' /\ at' = 0 /\ changes' = changes /\ Claims'
<1>1. /\ chain' = chain /\ mode' = mode /\ steady' = steady /\ at' = 0
      /\ changes' = changes /\ outcome' = "killed"
  BY DEF Kill, Stop
<1>2. Claims'
  BY <1>1 DEF Claims, FreshPassIsCurrent, FreshFailsForAReason, ReuseOfACompleteRun, VerifiedTablesAgree, Ended
<1>3. step = p[i] /\ HandoffBase
  BY ScriptStep, InHandoffs
<1>4. CASE disk' = disk
  BY <1>1, <1>2, <1>3, <1>4, SameDisk
<1>5. CASE disk' # disk
  <2>1. PICK x \in left_behind : Becomes(p[i].file, x)
    BY <1>3, <1>5 DEF Kill, Becomes
  <2>2. p[i].do \in {"open", "add", "write", "save", "unlink", "derive", "resume", "inspect"}
    BY InHandoffs DEF StepFacts
  <2>3. CASE p[i].do = "write"
    <3>1. x = torn(p[i].file, made)
      BY <1>3, <2>1, <2>3 DEF left_behind
    <3>2. /\ p[i].file \in HandoffTables \cup Partials.handoffs
          /\ p[i].file \notin HandoffCaches \cup pulled
          /\ TableFile(p[i].file, x)
      BY <2>3, <3>1, WrittenTable
    <3> QED BY <1>1, <1>2, <1>3, <2>1, <3>2, BaseOfTable
  <2>4. CASE p[i].do = "save"
    <3>1. x = torn(p[i].file, on(made, {p[i].file}))
      BY <1>3, <2>1, <2>4 DEF left_behind
    <3> QED BY <1>1, <1>2, <2>1, <2>4, <3>1, BaseOfSaved
  <2>5. CASE p[i].do = "derive"
    <3>1. x = torn(p[i].file, contents(p[i].reads))
      BY <1>3, <2>1, <2>5 DEF left_behind
    <3>2. /\ p[i].file \in HandoffTables \cup Partials.handoffs
          /\ p[i].file \notin HandoffCaches \cup pulled
          /\ TableFile(p[i].file, x)
      BY <2>5, <3>1, DerivedTable
    <3> QED BY <1>1, <1>2, <1>3, <2>1, <3>2, BaseOfTable
  <2>6. CASE p[i].do = "resume"
    <3>1. ResumeFacts(p, i, m)
      BY <2>6, InHandoffs DEF StepFacts
    <3>2. p[i].cache = cache_of(p[i].file)
          /\ (p[i].file = "static_panel" => p[i].cache = "static_panel")
      BY <3>1, CacheNames DEF ResumeFacts
    <3>3. /\ found.is # "whole"
          /\ x \in {rows(found.from \cup asked)}
                   \cup IF p[i].cache = "static_panel" THEN {}
                        ELSE {torn(p[i].cache, found.from \cup asked)}
      BY <1>3, <2>1, <2>6 DEF left_behind
    <3>4. CASE x = rows(found.from \cup asked)
      <4>1. x.is = "torn" /\ x = [is |-> x.is, from |-> x.from] /\ x.from = found.from \cup asked
        BY <3>4 DEF rows
      <4> QED BY <1>1, <1>2, <2>1, <2>6, <3>3, <4>1, BaseOfResumed
    <3>5. CASE p[i].cache # "static_panel" /\ x = torn(p[i].cache, found.from \cup asked)
      <4>1. /\ x.is = "torn" /\ x = [is |-> x.is, from |-> x.from]
            /\ x.from = found.from \cup asked \cup {<<cache_of(p[i].file), cut_row>>}
        BY <3>2, <3>5 DEF rows, torn
      <4>2. p[i].file # "static_panel"
        BY <3>2, <3>5
      <4> QED BY <1>1, <1>2, <2>1, <2>6, <3>3, <4>1, <4>2, BaseOfResumed
    <3> QED BY <3>3, <3>4, <3>5
  <2>7. CASE p[i].do \in {"open", "add", "unlink", "inspect"}
    BY <1>3, <2>1, <2>7 DEF left_behind
  <2> QED BY <2>2, <2>3, <2>4, <2>5, <2>6, <2>7
<1> QED BY <1>4, <1>5

\* A pass begins and has read nothing.
LEMMA BeginBegins ==
  ASSUME HandoffBase, NEW m \in Modes.handoffs, BeginPass(m)
  PROVE  HandoffBase' /\ HandoffAt(handoffs(m), m, 1)' /\ at' = 1 /\ mode' = m
<1>1. disk' = disk /\ made' = {} /\ at' = 1 /\ mode' = m /\ steady' = TRUE
  BY DEF BeginPass
<1> DEFINE p == handoffs(m)
<1>2. Taken(p, 1) = {} /\ Written(p, 1) = {} /\ Dropped(p, 1) = {}
         /\ Known(p, 1) /\ ~Paired(p, 1) /\ ~Covered(p, 1)
  BY AtTheFirst
<1> HIDE DEF p
<1>3. HandoffBase'
  <2>1. HandoffDisk' <=> HandoffDisk
    BY <1>1 DEF HandoffDisk
  <2>2. OwnRows' <=> OwnRows
    BY <1>1 DEF OwnRows, exists
  <2>3. SavedRows' <=> SavedRows
    BY <1>1 DEF SavedRows, exists, whole
  <2>4. Sampled' <=> Sampled
    BY <1>1 DEF Sampled, exists, whole
  <2>5. Weighed' <=> Weighed
    BY <1>1 DEF Weighed, exists
  <2> QED BY <2>1, <2>2, <2>3, <2>4, <2>5 DEF HandoffBase
<1>4. IsRows(made')
  BY <1>1 DEF IsRows
<1>5. HMade(p, 1)'
  <2>1. Standing({})' = {} /\ contents({}) = {} /\ contents({})' = {}
    BY DEF Standing, contents
  <2>2. MadeOf({})'
    <3>1. {} \ HandoffSources = {} /\ {} \cap HandoffSources = {}
      OBVIOUS
    <3> QED BY <1>1, <2>1, <3>1 DEF MadeOf
  <2> QED BY <1>2, <2>1, <2>2 DEF HMade
<1>6. HPulled(p, 1)' /\ HChecked(p, 1)' /\ HPaired(p, 1)' /\ HCovered(p, 1)'
  BY <1>2 DEF HPulled, HChecked, HPaired, HCovered
<1>7. Fed({}, inputs(m))' /\ Traced({}, m)' /\ WholeAll({})' /\ Gone({})' /\ Matched({})'
  BY DEF Fed, Traced, WholeAll, Gone, Matched
<1>8. HandoffAt(p, m, 1)'
  BY <1>2, <1>4, <1>5, <1>6, <1>7 DEF HandoffAt
<1> QED BY <1>1, <1>3, <1>8 DEF p

\* The two parts of the tables of inputs are over tables.
LEMMA FedNames ==
  /\ \A g \in DOMAIN simulated : g \in HandoffTables /\ simulated[g] \subseteq HandoffTables
  /\ \A g \in DOMAIN fed : g \in HandoffTables /\ fed[g] \subseteq HandoffTables
<1>2. \A g \in DOMAIN simulated : g \in HandoffTables /\ simulated[g] \subseteq HandoffTables
  BY DEF simulated, HandoffTables, Tables, DemandTables, EquilibriumTables, SimulationTables, SimulatedTables, build_full_multiscale_workload, specification_table, surface_inputs, sensitivity_inputs
<1>3. \A g \in DOMAIN fed : g \in HandoffTables /\ fed[g] \subseteq HandoffTables
  BY DEF fed, HandoffTables, Tables, DemandTables, EquilibriumTables, SimulationTables, SimulatedTables, build_full_multiscale_workload,
     daily_panel_inputs, anchor_panel_inputs, metering_inputs, decomposition_inputs, bundle_inputs
<1> QED BY <1>2, <1>3

\* A source is regenerated: nothing else is touched.
SourceMoves(s) ==
  \E v \in Nat : disk' = [disk EXCEPT ![s] = file({<<s, v>>})]

\* What the regeneration of a source changes.
LEMMA RegenerateIs ==
  ASSUME chain = "handoffs", NEW s, Regenerate(s), changes \in Nat
  PROVE  /\ s \in HandoffSources /\ SourceMoves(s) /\ steady' = FALSE /\ changes' \in Nat
         /\ chain' = chain /\ mode' = mode /\ at' = at /\ made' = made /\ outcome' = outcome
<1>1. s \in HandoffSources /\ s # "results"
  BY CacheNames DEF Regenerate, Sources
<1>2. PICK v \in {kept_within(changes + 1), drifted_by(changes + 1)} :
             disk' = [disk EXCEPT ![s] = file(regenerated(s, v))]
  BY DEF Regenerate
<1>3. v \in Nat
  BY <1>2 DEF kept_within, drifted_by
<1>4. regenerated(s, v) = {<<s, v>>}
  BY <1>1 DEF regenerated
<1>5. SourceMoves(s)
  BY <1>2, <1>3, <1>4 DEF SourceMoves
<1> QED BY <1>1, <1>5 DEF Regenerate, pass

\* A regenerated source is again there in one version.
LEMMA SourcesOnly ==
  ASSUME HandoffDisk, NEW s \in HandoffSources, SourceMoves(s)
  PROVE  HandoffDisk' /\ \A f \in HandoffTables \cup Partials.handoffs : disk'[f] = disk[f]
<1>1. PICK v \in Nat : disk' = [disk EXCEPT ![s] = file({<<s, v>>})]
  BY DEF SourceMoves
<1>2. /\ DOMAIN disk = HandoffFiles /\ DOMAIN disk' = HandoffFiles
      /\ disk'[s] = file({<<s, v>>})
      /\ \A g \in HandoffFiles : g # s => disk'[g] = disk[g]
  BY <1>1, Names DEF HandoffDisk
<1>3. IsRows({<<s, v>>})
  BY <1>1 DEF IsRows, cut_row
<1>4. \A g \in HandoffFiles :
       /\ disk'[g] = [is |-> disk'[g].is, from |-> disk'[g].from]
       /\ disk'[g].is \in {"none", "torn", "whole"}
       /\ disk'[g].is = "none" => disk'[g].from = {}
       /\ IsRows(disk'[g].from)
  <2> TAKE g \in HandoffFiles
  <2>1. CASE g = s
    BY <1>2, <1>3, <2>1 DEF file
  <2>2. CASE g # s
    BY <1>2, <2>2 DEF HandoffDisk
  <2> QED BY <2>1, <2>2
<1>5. \A t \in HandoffSources : \E w \in Nat : disk'[t] = file({<<t, w>>})
  <2> TAKE t \in HandoffSources
  <2>1. CASE t = s
    BY <1>1, <1>2, <2>1
  <2>2. CASE t # s
    <3>1. t \in HandoffFiles
      BY Names
    <3> QED BY <1>2, <2>2, <3>1 DEF HandoffDisk
  <2> QED BY <2>1, <2>2
<1>6. HandoffDisk'
  BY <1>2, <1>4, <1>5 DEF HandoffDisk
<1>7. \A f \in HandoffTables \cup Partials.handoffs : disk'[f] = disk[f]
  BY <1>2, Names
<1> QED BY <1>6, <1>7

\* What holds of the disk outlives a regenerated source.
LEMMA BaseOfSources ==
  ASSUME HandoffBase, HandoffDisk', \A f \in HandoffTables \cup Partials.handoffs : disk'[f] = disk[f]
  PROVE  HandoffBase'
<1>1. \A c \in HandoffCaches \cup pulled : disk'[c] = disk[c]
  BY Names
<1>2. OwnRows'
  BY <1>1 DEF HandoffBase, OwnRows, exists
<1>3. /\ disk'["runtime_blocks"] = disk["runtime_blocks"] /\ disk'["attribution_blocks"] = disk["attribution_blocks"]
      /\ disk'["static_panel"] = disk["static_panel"] /\ disk'["runtime_partial"] = disk["runtime_partial"]
      /\ disk'["rpc_blocks"] = disk["rpc_blocks"]
  BY <1>1, CacheNames
<1>4. SavedRows'
  BY <1>3 DEF HandoffBase, SavedRows, exists, whole
<1>5. \A f \in {"anchor_accounting", "execution_repricing", "demand_card"} : disk'[f] = disk[f]
  BY TableNames
<1>6. Sampled'
  <2> SUFFICES ASSUME NEW g \in {"anchor_accounting", "execution_repricing"}, disk'[g].is # "none"
               PROVE  /\ on(disk'[g].from, {"blocks"}) # {}
                      /\ \/ disk'["rpc_blocks"].is = "whole" /\ on(disk'[g].from, {"rpc_blocks"}) = disk'["rpc_blocks"].from
                         \/ moved(disk'[g].from)
    BY DEF Sampled, exists, whole
  <2>1. disk'[g] = disk[g]
    BY <1>5
  <2> QED BY <1>3, <2>1 DEF HandoffBase, Sampled, exists, whole
<1>7. Weighed'
  BY <1>5 DEF HandoffBase, Weighed, exists
<1> QED BY <1>2, <1>4, <1>6, <1>7 DEF HandoffBase

\* Tables do not change when a source does.
LEMMA SourceFree ==
  ASSUME \A f \in HandoffTables \cup Partials.handoffs : disk'[f] = disk[f],
         NEW N, N \subseteq HandoffFiles, N \cap HandoffSources = {}
  PROVE  contents(N)' = contents(N)
<1>1. \A f \in N : disk'[f] = disk[f]
  BY Names
<1> QED BY <1>1, ContentsKept

\* A pass under way, when a source is regenerated.
LEMMA PassOverSources ==
  ASSUME NEW p, NEW m, NEW i, PassAt(p, m, i), HandoffDisk',
         \A f \in HandoffTables \cup Partials.handoffs : disk'[f] = disk[f],
         steady' = FALSE, made' = made
  PROVE  HandoffAt(p, m, i)'
<1> DEFINE T == Taken(p, i)
           W == Written(p, i)
           D == Dropped(p, i)
<1>1. T \subseteq HandoffFiles /\ D \subseteq Partials.handoffs /\ W \subseteq HandoffTables \cup Partials.handoffs
  BY TakenFiles, InHandoffs DEF StepFacts
<1>2. \A g \in HandoffCaches \cup pulled : disk'[g] = disk[g]
  BY Names
<1>3. HMade(p, i)'
  <2> SUFFICES ASSUME Known(p, i), T \cap D = {}
               PROVE  \E N : N = Standing(T)' /\ MadeOf(N)'
    BY DEF HMade
  <2>1. HMade(p, i)
    BY InHandoffs
  <2>2. PICK N : N = Standing(T) /\ MadeOf(N)
    BY <2>1 DEF HMade
  <2>3. N \subseteq HandoffFiles
    BY <1>1, <2>2, StandingFiles
  <2>4. Standing(T)' = N
    <3>1. \A n \in pulled : exists(n)' <=> exists(n)
      BY <1>2 DEF exists
    <3>2. \A n \in T : (n \in pulled /\ ~exists(n))' <=> (n \in pulled /\ ~exists(n))
      BY <3>1
    <3> QED BY <2>2, <3>2 DEF Standing
  <2>5. contents(N \ HandoffSources)' = contents(N \ HandoffSources)
    BY <2>3, SourceFree
  <2>6. N \cap HandoffSources = {} => contents(N)' = contents(N)
    BY <2>3, SourceFree
  <2>7. MadeOf(N)'
    BY <2>2, <2>5, <2>6 DEF MadeOf
  <2> QED BY <2>4, <2>7
<1>4. HPulled(p, i)'
  <2>1. HPulled(p, i)
    BY InHandoffs
  <2>2. \A g \in pulled : disk'[g] = disk[g] /\ disk'[cache_of(g)] = disk[cache_of(g)]
    BY <1>2, CacheNames
  <2> QED BY <2>1, <2>2 DEF HPulled, exists, whole
<1>5. IsRows(made') /\ HChecked(p, i)' /\ HPaired(p, i)'
  <2>1. HChecked(p, i)
    BY DEF PassAt, HandoffAt
  <2>2. HPaired(p, i)
    BY InHandoffs
  <2> QED BY <2>1, <2>2, InHandoffs DEF HChecked, HPaired, RowsHold
<1>6. HCovered(p, i)'
  <2>1. HCovered(p, i) /\ disk'["refunds"] = disk["refunds"]
    BY <1>2, InHandoffs, CacheNames
  <2> QED BY <2>1 DEF HCovered
<1>7. Fed(W, inputs(m))'
  <2> SUFFICES ASSUME NEW f \in W \cap DOMAIN inputs(m), inputs(m)[f] \cap HandoffSources = {}
               PROVE  disk'[f] = file(contents(inputs(m)[f])')
    BY DEF Fed
  <2>1. f \in HandoffTables /\ inputs(m)[f] \subseteq HandoffFiles
    BY InputNames, Names
  <2>2. contents(inputs(m)[f])' = contents(inputs(m)[f])
    BY <2>1, SourceFree
  <2>3. Fed(W, inputs(m))
    BY InHandoffs
  <2> QED BY <2>1, <2>2, <2>3 DEF Fed
<1>8. Traced(W, m)'
  BY DEF Traced
<1>9. WholeAll(W)' /\ Gone(D)'
  <2>1. WholeAll(W) /\ Gone(D)
    BY InHandoffs
  <2> QED BY <1>1, <2>1 DEF WholeAll, Gone, whole, exists
<1>10. Matched(W)'
  <2>1. Matched(W) /\ disk'["attribution_blocks"] = disk["attribution_blocks"]
        /\ disk'["runtime_blocks"] = disk["runtime_blocks"]
    BY <1>2, InHandoffs, CacheNames
  <2> QED BY <2>1 DEF Matched
<1> QED BY <1>3, <1>4, <1>5, <1>6, <1>7, <1>8, <1>9, <1>10 DEF HandoffAt

\* What was verified of the handoffs is not undone by a source.
LEMMA ClaimsOverSources ==
  ASSUME chain = "handoffs", chain' = chain, Claims,
         \A f \in HandoffTables \cup Partials.handoffs : disk'[f] = disk[f],
         steady' = FALSE, at' = at, outcome' = outcome, mode' = mode
  PROVE  Claims'
<1>1. FreshPassIsCurrent' /\ FreshFailsForAReason' /\ ReuseOfACompleteRun'
  BY DEF FreshPassIsCurrent, FreshFailsForAReason, ReuseOfACompleteRun
<1>2. fed_by(fed) => fed_by(fed)'
  <2> SUFFICES ASSUME fed_by(fed), NEW f \in DOMAIN fed PROVE disk'[f].from = contents(fed[f])'
    BY DEF fed_by
  <2>1. f \in HandoffTables /\ fed[f] \subseteq HandoffFiles /\ fed[f] \cap HandoffSources = {}
    BY FedNames, Names
  <2>2. contents(fed[f])' = contents(fed[f]) /\ disk'[f] = disk[f]
    BY <2>1, SourceFree
  <2> QED BY <2>2 DEF fed_by
<1>3. fed_by(simulated) => fed_by(simulated)'
  <2> SUFFICES ASSUME fed_by(simulated), NEW f \in DOMAIN simulated PROVE disk'[f].from = contents(simulated[f])'
    BY DEF fed_by
  <2>1. f \in HandoffTables /\ simulated[f] \subseteq HandoffFiles /\ simulated[f] \cap HandoffSources = {}
    BY FedNames, Names
  <2>2. contents(simulated[f])' = contents(simulated[f]) /\ disk'[f] = disk[f]
    BY <2>1, SourceFree
  <2> QED BY <2>2 DEF fed_by
<1>4. VerifiedTablesAgree'
  BY <1>2, <1>3 DEF VerifiedTablesAgree, Claims
<1> QED BY <1>1, <1>4 DEF Claims

\* Files a pass cannot use are removed.
LEMMA RemoveKeeps ==
  ASSUME chain = "handoffs", HandoffBase, RemoveObstruction
  PROVE  HandoffBase' /\ Claims' /\ at' = at /\ at = 0 /\ changes' = changes
<1> DEFINE R == {f \in kept : unusable(f)}
<1>1. /\ disk' = [f \in DOMAIN disk |-> IF f \in R THEN missing ELSE disk[f]]
      /\ outcome' = "none" /\ at = 0 /\ at' = at /\ changes' = changes
  BY DEF RemoveObstruction, pass
<1>2. R \subseteq HandoffCaches \cup pulled /\ R \subseteq kept
  BY KeptCaches, CacheNames
<1>3. HandoffDisk /\ OwnRows /\ SavedRows /\ Sampled /\ Weighed
  BY DEF HandoffBase
<1> HIDE DEF R
<1>4. /\ DOMAIN disk' = HandoffFiles
      /\ \A f \in HandoffFiles : disk'[f] = IF f \in R THEN missing ELSE disk[f]
  BY <1>1, <1>3 DEF HandoffDisk
<1>5. HandoffDisk'
  <2>1. \A g \in HandoffFiles :
       /\ disk'[g] = [is |-> disk'[g].is, from |-> disk'[g].from]
       /\ disk'[g].is \in {"none", "torn", "whole"}
       /\ disk'[g].is = "none" => disk'[g].from = {}
       /\ IsRows(disk'[g].from)
    <3> TAKE g \in HandoffFiles
    <3>1. CASE g \in R
      BY <1>4, <3>1 DEF missing, IsRows
    <3>2. CASE g \notin R
      BY <1>3, <1>4, <3>2 DEF HandoffDisk
    <3> QED BY <3>1, <3>2
  <2>2. \A s \in HandoffSources : disk'[s] = disk[s]
    BY <1>2, <1>4, Names
  <2> QED BY <1>3, <1>4, <2>1, <2>2 DEF HandoffDisk
<1>6. HandoffCaches \cup pulled \subseteq HandoffFiles
  BY Names
<1>7. \A f \in HandoffFiles : (disk'[f].is # "none" => disk'[f] = disk[f]) /\ (f \notin R => disk'[f] = disk[f])
  BY <1>4 DEF missing
<1>8. \A f \in HandoffFiles : disk'[f] = disk[f] \/ disk'[f].from = {}
  BY <1>4 DEF missing
<1>9. OwnRows'
  <2> SUFFICES ASSUME NEW h \in HandoffCaches \cup pulled
               PROVE  /\ \A v \in disk'[h].from : v[1] = cache_of(h) \/ (h = "refunds" /\ v[1] = "other_rate")
                      /\ disk'[h].is # "none" => \E v \in disk'[h].from : v[1] = cache_of(h) /\ v[2] # cut_row
    BY DEF OwnRows, exists
  <2>1. CASE disk'[h] = disk[h]
    BY <1>3, <2>1 DEF OwnRows, exists
  <2>2. CASE disk'[h] # disk[h]
    BY <1>6, <1>7, <1>8, <2>2
  <2> QED BY <2>1, <2>2
<1>10. SavedRows'
  <2>0. {"runtime_blocks", "attribution_blocks", "static_panel", "runtime_partial"} \subseteq HandoffFiles
    BY <1>6, CacheNames
  <2>1. disk'["runtime_blocks"].is = "whole" => <<"runtime_blocks", cut_row>> \notin disk'["runtime_blocks"].from
    BY <1>3, <1>7, <2>0 DEF SavedRows, whole
  <2>2. disk'["attribution_blocks"].is = "whole" =>
          \E v : v # cut_row /\ disk'["attribution_blocks"].from = {<<"attribution_blocks", v>>}
    BY <1>3, <1>7, <2>0 DEF SavedRows, whole
  <2>3. <<"static_panel", cut_row>> \notin disk'["static_panel"].from
    BY <1>3, <1>8, <2>0 DEF SavedRows
  <2>4. (disk'["runtime_blocks"].is = "whole" /\ disk'["runtime_partial"].is # "none")
           => disk'["runtime_partial"] = disk'["runtime_blocks"]
    BY <1>3, <1>7, <2>0 DEF SavedRows, whole, exists
  <2> QED BY <2>1, <2>2, <2>3, <2>4 DEF SavedRows, whole, exists
<1>11. \A f \in {"anchor_accounting", "execution_repricing", "demand_card"} : disk'[f] = disk[f]
  <2>1. \A f \in {"anchor_accounting", "execution_repricing", "demand_card"} : f \in HandoffFiles /\ f \notin R
    BY <1>2, TableNames, Names
  <2> QED BY <1>7, <2>1
<1>12. Weighed'
  BY <1>3, <1>11 DEF Weighed, exists
<1>13. Sampled'
  <2> SUFFICES ASSUME NEW g \in {"anchor_accounting", "execution_repricing"}, disk'[g].is # "none"
               PROVE  /\ on(disk'[g].from, {"blocks"}) # {}
                      /\ \/ disk'["rpc_blocks"].is = "whole" /\ on(disk'[g].from, {"rpc_blocks"}) = disk'["rpc_blocks"].from
                         \/ moved(disk'[g].from)
    BY DEF Sampled, exists, whole
  <2>1. disk'[g] = disk[g] /\ "rpc_blocks" \in HandoffFiles
    BY <1>6, <1>11, CacheNames
  <2>2. /\ on(disk[g].from, {"blocks"}) # {}
        /\ \/ disk["rpc_blocks"].is = "whole" /\ on(disk[g].from, {"rpc_blocks"}) = disk["rpc_blocks"].from
           \/ moved(disk[g].from)
    BY <1>3, <2>1 DEF Sampled, exists, whole
  <2>3. CASE "rpc_blocks" \notin R
    BY <1>7, <2>1, <2>2, <2>3
  <2>4. CASE "rpc_blocks" \in R /\ on(disk[g].from, {"rpc_blocks"}) = disk["rpc_blocks"].from
    <3>1. "rpc_blocks" \in HandoffCaches /\ unusable("rpc_blocks") /\ cache_of("rpc_blocks") = "rpc_blocks"
      BY <2>4, CacheNames DEF R
    <3>2. PICK v \in disk["rpc_blocks"].from : drifted(v) \/ v[2] = cut_row
      BY <3>1, UnusableIs
    <3>3. v[1] = "rpc_blocks" /\ v \in disk[g].from
      BY <2>4, <3>2 DEF on
    <3>4. moved(disk[g].from)
      BY <3>2, <3>3 DEF moved
    <3> QED BY <2>1, <2>2, <3>4
  <2>5. CASE moved(disk[g].from)
    BY <2>1, <2>2, <2>5
  <2> QED BY <2>2, <2>3, <2>4, <2>5
<1>14. Claims'
  BY <1>1 DEF Claims, FreshPassIsCurrent, FreshFailsForAReason, ReuseOfACompleteRun, VerifiedTablesAgree, Ended
<1> QED BY <1>1, <1>5, <1>9, <1>10, <1>12, <1>13, <1>14 DEF HandoffBase

\* What is on disk at first is as the base asks.
LEMMA InitBase ==
  ASSUME Init, chain = "handoffs"
  PROVE  HandoffBase /\ at = 0 /\ changes \in Nat /\ Claims
<1>1. /\ DOMAIN disk = HandoffFiles
      /\ \A f \in HandoffFiles : disk[f] = IF f \in HandoffSources THEN file({<<f, 0>>}) ELSE missing
      /\ at = 0 /\ outcome = "none" /\ changes = 0
  <2>1. Tables[chain] \cup Partials[chain] \cup Sources[chain] = HandoffFiles
        /\ Sources[chain] = HandoffSources /\ "results" \notin HandoffSources
    BY CacheNames DEF HandoffFiles, HandoffTables, Sources
  <2>2. \A f \in HandoffSources : {<<f, 0>>} \cup (IF f = "results" THEN {<<"workload", 0>>} ELSE {}) = {<<f, 0>>}
    BY <2>1
  <2> QED BY <2>1, <2>2 DEF Init
<1>2. \A f \in HandoffTables \cup Partials.handoffs : disk[f] = missing
  BY <1>1, Names
<1>3. HandoffDisk
  <2>1. \A g \in HandoffFiles :
       /\ disk[g] = [is |-> disk[g].is, from |-> disk[g].from]
       /\ disk[g].is \in {"none", "torn", "whole"}
       /\ disk[g].is = "none" => disk[g].from = {}
       /\ IsRows(disk[g].from)
    <3> TAKE g \in HandoffFiles
    <3>1. CASE g \in HandoffSources
      BY <1>1, <3>1 DEF file, IsRows, cut_row
    <3>2. CASE g \notin HandoffSources
      <4>1. disk[g] = [is |-> "none", from |-> {}]
        BY <1>1, <3>2 DEF missing
      <4>2. IsRows({})
        BY DEF IsRows
      <4> QED BY <4>1, <4>2
    <3> QED BY <3>1, <3>2
  <2>2. \A s \in HandoffSources : \E v \in Nat : disk[s] = file({<<s, v>>})
    BY <1>1, Names
  <2> QED BY <1>1, <2>1, <2>2 DEF HandoffDisk
<1>4. OwnRows
  <2>1. \A f \in HandoffCaches \cup pulled : disk[f] = missing
    BY <1>2, Names
  <2> QED BY <2>1 DEF OwnRows, exists, missing
<1>5. SavedRows
  <2>1. /\ disk["runtime_blocks"] = missing /\ disk["attribution_blocks"] = missing
        /\ disk["static_panel"] = missing
    BY <1>2, Names, CacheNames
  <2> QED BY <2>1 DEF SavedRows, whole, missing
<1>6. Sampled /\ Weighed
  <2>1. \A f \in {"anchor_accounting", "execution_repricing", "demand_card"} : disk[f] = missing
    BY <1>2, TableNames
  <2> QED BY <2>1 DEF Sampled, Weighed, exists, missing
<1>7. Claims
  BY <1>1 DEF Claims, FreshPassIsCurrent, FreshFailsForAReason, ReuseOfACompleteRun, VerifiedTablesAgree, Ended
<1> QED BY <1>1, <1>3, <1>4, <1>5, <1>6, <1>7 DEF HandoffBase

\* What a pass that is through has written.
LEMMA EndOfPass ==
  ASSUME chain' = "handoffs", NEW m \in Modes.handoffs, mode' = m, NEW W,
         HandoffBase', Fed(W, inputs(m))', Traced(W, m)', WholeAll(W)',
         DOMAIN fed \subseteq W, m # "reuse" => DOMAIN simulated \subseteq W,
         m = "fresh" => HandoffTables \subseteq W /\ <<"refunds", cut_row>> \notin disk'["refunds"].from
  PROVE  /\ m = "fresh" /\ steady' => Complete'
         /\ fed_by(fed)' /\ (m # "reuse" => fed_by(simulated)')
<1>1. \A f \in DOMAIN fed : f \in DOMAIN inputs(m) /\ inputs(m)[f] = fed[f]
  BY DEF inputs
<1>2. \A f \in DOMAIN simulated : f \in DOMAIN inputs(m) /\ (f \notin DOMAIN fed => inputs(m)[f] = simulated[f])
  BY DEF inputs
<1>3. DOMAIN simulated \cap DOMAIN fed = {}
  BY DEF simulated, fed
<1>4. ASSUME NEW f \in W, f \in DOMAIN inputs(m), inputs(m)[f] \subseteq HandoffTables
      PROVE  disk'[f].from = contents(inputs(m)[f])'
  <2>1. inputs(m)[f] \cap HandoffSources = {}
    BY <1>4, Names
  <2>2. disk'[f] = file(contents(inputs(m)[f])')
    BY <1>4, <2>1 DEF Fed
  <2> QED BY <2>2 DEF file
<1>5. fed_by(fed)'
  <2> SUFFICES ASSUME NEW f \in DOMAIN fed PROVE disk'[f].from = contents(fed[f])'
    BY DEF fed_by
  <2>1. f \in W /\ f \in DOMAIN inputs(m) /\ inputs(m)[f] = fed[f] /\ fed[f] \subseteq HandoffTables
    BY <1>1, FedNames
  <2>2. disk'[f].from = contents(inputs(m)[f])'
    BY <1>4, <2>1
  <2> QED BY <2>1, <2>2
<1>6. ASSUME m # "reuse" PROVE fed_by(simulated)'
  <2> SUFFICES ASSUME NEW f \in DOMAIN simulated PROVE disk'[f].from = contents(simulated[f])'
    BY DEF fed_by
  <2>1. f \in W /\ f \in DOMAIN inputs(m) /\ inputs(m)[f] = simulated[f] /\ simulated[f] \subseteq HandoffTables
    BY <1>2, <1>3, <1>6, FedNames
  <2>2. disk'[f].from = contents(inputs(m)[f])'
    BY <1>4, <2>1
  <2> QED BY <2>1, <2>2
<1>7. ASSUME m = "fresh", steady' PROVE Complete'
  <2>1. HandoffTables \subseteq W /\ <<"refunds", cut_row>> \notin disk'["refunds"].from
    BY <1>7
  <2>2. HandoffDisk' /\ OwnRows' /\ SavedRows'
    BY DEF HandoffBase
  <2> DEFINE now == (UNION {on(disk'[s].from, {s}) : s \in HandoffSources})
                    \cup {v \in UNION {on(disk'[c].from, {c, "other_rate"}) : c \in HandoffCaches} :
                            v[2] # cut_row \/ v[1] \in uncovered}
  <2>3. current' = now
    BY DEF current, Sources, HandoffCaches
  <2>4. ASSUME NEW f \in HandoffTables, NEW v \in disk'[f].from PROVE v \in now
    <3>1. Based(v, W)'
      BY <1>7, <2>1, <2>4 DEF Traced
    <3>2. CASE v[1] \in HandoffSources /\ v \in disk'[v[1]].from
      <4>1. v \in on(disk'[v[1]].from, {v[1]})
        BY <3>2 DEF on
      <4> QED BY <3>2, <4>1
    <3>3. CASE \E c \in HandoffCaches \cap W : v \in disk'[c].from
      <4>1. PICK c \in HandoffCaches \cap W : v \in disk'[c].from
        BY <3>3
      <4>2. cache_of(c) = c /\ c \in HandoffFiles
        BY CacheNames, Names
      <4>3. v[1] = c \/ (c = "refunds" /\ v[1] = "other_rate")
        BY <2>2, <4>1, <4>2 DEF OwnRows
      <4>4. IsRows(disk'[c].from) /\ v = <<v[1], v[2]>>
        BY <2>2, <4>1, <4>2 DEF HandoffDisk, IsRows
      <4>5. v[2] = cut_row => v[1] \in uncovered
        <5>1. CASE v[1] = "other_rate"
          BY <4>1, <4>4, <5>1 DEF IsRows
        <5>2. CASE v[1] = c /\ c \in uncovered
          BY <5>2
        <5>3. CASE v[1] = c /\ c = "refunds"
          BY <2>1, <4>1, <4>4, <5>3
        <5>4. CASE v[1] = c /\ c = "static_panel"
          BY <2>2, <4>1, <4>4, <5>4 DEF SavedRows
        <5>5. CASE v[1] = c /\ c \in {"runtime_blocks", "attribution_blocks"}
          <6>1. disk'[c].is = "whole"
            BY <4>1, Names DEF WholeAll, whole
          <6>2. CASE c = "runtime_blocks"
            BY <2>2, <4>1, <4>4, <5>5, <6>1, <6>2 DEF SavedRows, whole
          <6>3. CASE c = "attribution_blocks"
            <7>1. PICK w : w # cut_row /\ disk'["attribution_blocks"].from = {<<"attribution_blocks", w>>}
              BY <2>2, <6>1, <6>3 DEF SavedRows, whole
            <7>2. v = <<"attribution_blocks", w>>
              BY <4>1, <6>3, <7>1
            <7> QED BY <7>1, <7>2
          <6> QED BY <5>5, <6>2, <6>3
        <5> QED BY <4>3, <5>1, <5>2, <5>3, <5>4, <5>5, CacheNames DEF uncovered
      <4>6. v \in on(disk'[c].from, {c, "other_rate"})
        BY <4>1, <4>3 DEF on
      <4> QED BY <4>5, <4>6
    <3> QED BY <3>1, <3>2, <3>3 DEF Based
  <2> HIDE DEF now
  <2>5. \A f \in HandoffTables : disk'[f].is = "whole"
    BY <2>1 DEF WholeAll, whole
  <2> QED BY <2>3, <2>4, <2>5 DEF Complete, whole, HandoffTables
<1> QED BY <1>5, <1>6, <1>7

\* A pass is through the script of its mode.
LEMMA ScriptIs ==
  ASSUME NEW p, NEW m, NEW i, PassAt(p, m, i)
  PROVE  p = handoffs(m) /\ m \in Modes.handoffs
BY ScriptStep DEF program, PassAt

\* A step that goes on is followed by the next one, or by the end of the pass.
LEMMA GoesOn ==
  ASSUME NEW p, NEW m, NEW i, PassAt(p, m, i), Goes(p, m, i), changes \in Nat
  PROVE  /\ HandoffBase' /\ Claims' /\ changes' \in Nat
         /\ at' = 0 \/ \E q, n, j : PassAt(q, n, j)'
<1>1. /\ HandoffBase' /\ HandoffAt(p, m, i + 1)' /\ Proceed
  BY DEF Goes
<1>2. /\ chain' = "handoffs" /\ mode' = m /\ steady' = steady /\ script' = p
      /\ at' = IF i = Len(p) THEN 0 ELSE i + 1
  BY <1>1, ProceedKeeps, ScriptStep
<1>3. changes' \in Nat
  BY <1>1 DEF Proceed
<1>4. i \in 1..Len(p) /\ Len(p) \in Nat \ {0} /\ m \in Modes.handoffs /\ at = i
  BY DEF PassAt
<1>5. program[chain][mode] = p
  BY ScriptStep
<1>6. p = handoffs(m)
  BY ScriptIs
<1>7. (\A j \in 1..Len(p) : StepFacts(p, j, m)) /\ EndFacts(p, m)
  BY <1>4, <1>6, HandoffScripts DEF HandoffFacts
<1>8. CASE i # Len(p)
  <2>1. i + 1 \in 1..Len(p) /\ at' = i + 1 /\ at' # 0
    BY <1>2, <1>4, <1>8
  <2>2. PassAt(p, m, i + 1)'
    BY <1>1, <1>2, <1>4, <1>7, <2>1 DEF PassAt
  <2>3. Claims'
    BY <2>1 DEF Claims, FreshPassIsCurrent, FreshFailsForAReason, ReuseOfACompleteRun, VerifiedTablesAgree, Ended
  <2> QED BY <1>1, <1>3, <2>2, <2>3
<1>9. CASE i = Len(p)
  <2>1. at' = 0 /\ outcome' = "verified"
    BY <1>1, <1>4, <1>5, <1>9 DEF Proceed
  <2>2. HandoffAt(p, m, Len(p) + 1)'
    BY <1>1, <1>9
  <2>3. PICK W : W = Written(p, Len(p) + 1)
    OBVIOUS
  <2>4. /\ Fed(W, inputs(m))' /\ Traced(W, m)' /\ WholeAll(W)' /\ HCovered(p, Len(p) + 1)'
    BY <2>2, <2>3 DEF HandoffAt
  <2>5. /\ DOMAIN fed \subseteq W /\ (m # "reuse" => DOMAIN simulated \subseteq W)
        /\ m = "fresh" => HandoffTables \subseteq W /\ <<"refunds", cut_row>> \notin disk'["refunds"].from
    BY <1>7, <2>3, <2>4 DEF EndFacts, HCovered
  <2>6. /\ m = "fresh" /\ steady' => Complete'
        /\ fed_by(fed)' /\ (m # "reuse" => fed_by(simulated)')
    BY <1>1, <1>2, <1>4, <2>4, <2>5, EndOfPass
  <2>7. Claims'
    BY <1>2, <2>1, <2>6 DEF Claims, FreshPassIsCurrent, FreshFailsForAReason, ReuseOfACompleteRun, VerifiedTablesAgree, Ended
  <2> QED BY <1>1, <1>3, <2>1, <2>7
<1> QED BY <1>8, <1>9

\* The invariant holds before the first pass.
LEMMA HandoffInit == Init => HandoffInv
BY InitBase DEF HandoffInv

\* The chain at hand does not change.
LEMMA ChainStays == ASSUME [Next]_vars PROVE chain' = chain
<1>1. ASSUME Step PROVE chain' = chain
  BY <1>1 DEF Step, Write, Add, Open, Derive, Inspect, Resume, Save, Unlink, SourceSnapshot, VerifySources,
     Replace, Record, Matches, Reproduce, Unchanged, SurfaceCache, BaselineCell, DerivedCell, CentralCell,
     ManifestsCell, Check, Proceed, Fail, Stop
<1>2. ASSUME NEW m, BeginPass(m) PROVE chain' = chain
  BY <1>2 DEF BeginPass
<1>3. ASSUME Kill PROVE chain' = chain
  BY <1>3 DEF Kill, Stop
<1>4. ASSUME RemoveObstruction PROVE chain' = chain
  BY <1>4 DEF RemoveObstruction
<1>5. ASSUME NEW s, Regenerate(s) PROVE chain' = chain
  BY <1>5 DEF Regenerate
<1>6. ASSUME UNCHANGED vars PROVE chain' = chain
  BY <1>6 DEF vars
<1> QED BY <1>1, <1>2, <1>3, <1>4, <1>5, <1>6 DEF Next

\* A step is one of a pass that runs.
LEMMA StepAt == ASSUME Step PROVE at > 0
BY DEF Step, Write, Add, Open, Derive, Inspect, Resume, Save, Unlink, SourceSnapshot, VerifySources,
     Replace, Record, Matches, Reproduce, Unchanged, SurfaceCache, BaselineCell, DerivedCell, CentralCell,
     ManifestsCell, Running

\* Every step of a pass, and all that happens around it, keeps the invariant.
LEMMA HandoffNext == HandoffInv /\ [Next]_vars => HandoffInv'
<1> SUFFICES ASSUME HandoffInv, [Next]_vars, chain = "handoffs"
             PROVE  /\ HandoffBase' /\ Claims' /\ changes' \in Nat
                    /\ at' = 0 \/ \E p, m, i : PassAt(p, m, i)'
  BY ChainStays DEF HandoffInv
<1>1. /\ HandoffBase /\ Claims /\ changes \in Nat
      /\ at = 0 \/ \E p, m, i : PassAt(p, m, i)
  BY DEF HandoffInv
<1>2. CASE Step
  <2>1. PICK p, m, i : PassAt(p, m, i)
    BY <1>1, <1>2, StepAt
  <2>2. Goes(p, m, i) \/ Fail
    BY <1>2, <2>1, StepKinds, OpenGoes, AddGoes, InspectGoes, DeriveGoes, WriteGoes, SaveGoes, UnlinkGoes, ResumeGoes
  <2>3. CASE Goes(p, m, i)
    BY <1>1, <2>1, <2>3, GoesOn
  <2>4. CASE Fail
    BY <1>1, <1>2, <2>1, <2>4, FailClaims
  <2> QED BY <2>2, <2>3, <2>4
<1>3. CASE Kill
  <2>1. PICK p, m, i : PassAt(p, m, i)
    BY <1>1, <1>3 DEF Kill
  <2> QED BY <1>1, <1>3, <2>1, KillKeeps
<1>4. CASE RemoveObstruction
  BY <1>1, <1>4, RemoveKeeps
<1>5. ASSUME NEW m \in Modes[chain], BeginPass(m)
      PROVE  /\ HandoffBase' /\ Claims' /\ changes' \in Nat
             /\ at' = 0 \/ \E p, n, i : PassAt(p, n, i)'
  <2>1. m \in Modes.handoffs
    BY <1>5
  <2>2. PICK p : p = handoffs(m)
    OBVIOUS
  <2>3. HandoffBase' /\ HandoffAt(p, m, 1)' /\ at' = 1 /\ mode' = m /\ chain' = "handoffs" /\ changes' \in Nat
    BY <1>1, <1>5, <2>1, <2>2, BeginBegins DEF BeginPass
  <2>4. script' = p
    BY <2>1, <2>2, <2>3 DEF script, program
  <2>5. Len(p) \in Nat \ {0} /\ \A j \in 1..Len(p) : StepFacts(p, j, m)
    BY <2>1, <2>2, HandoffScripts DEF HandoffFacts
  <2>6. 1 \in 1..Len(p)
    BY <2>5
  <2>7. PassAt(p, m, 1)'
    BY <2>1, <2>3, <2>4, <2>5, <2>6 DEF PassAt
  <2>8. Claims'
    BY <2>3 DEF Claims, FreshPassIsCurrent, FreshFailsForAReason, ReuseOfACompleteRun, VerifiedTablesAgree, Ended
  <2> QED BY <2>3, <2>7, <2>8
<1>6. ASSUME NEW s \in Changing, Regenerate(s)
      PROVE  /\ HandoffBase' /\ Claims' /\ changes' \in Nat
             /\ at' = 0 \/ \E p, m, i : PassAt(p, m, i)'
  <2>1. /\ s \in HandoffSources /\ SourceMoves(s) /\ steady' = FALSE /\ changes' \in Nat
        /\ chain' = chain /\ mode' = mode /\ at' = at /\ made' = made /\ outcome' = outcome
    BY <1>1, <1>6, RegenerateIs
  <2>2. HandoffDisk' /\ \A f \in HandoffTables \cup Partials.handoffs : disk'[f] = disk[f]
    BY <1>1, <2>1, SourcesOnly DEF HandoffBase
  <2>3. HandoffBase'
    BY <1>1, <2>2, BaseOfSources
  <2>4. Claims'
    BY <1>1, <2>1, <2>2, ClaimsOverSources
  <2>5. ASSUME NEW p, NEW m, NEW i, PassAt(p, m, i) PROVE PassAt(p, m, i)'
    <3>1. HandoffAt(p, m, i)'
      BY <2>1, <2>2, <2>5, PassOverSources
    <3>2. script' = script
      BY <2>1 DEF script
    <3> QED BY <2>1, <2>3, <2>5, <3>1, <3>2 DEF PassAt
  <2> QED BY <1>1, <2>1, <2>3, <2>4, <2>5
<1>7. CASE UNCHANGED vars
  <2>1. /\ disk' = disk /\ steady' = steady /\ chain' = chain /\ mode' = mode /\ at' = at /\ made' = made
        /\ outcome' = outcome /\ changes' = changes
    BY <1>7 DEF vars, pass
  <2>2. HandoffBase'
    BY <1>1, <2>1, SameDisk
  <2>3. (\A f : exists(f)' <=> exists(f)) /\ (\A f : whole(f)' <=> whole(f))
    BY <2>1 DEF exists, whole
  <2>4. Claims'
    <3>1. fed_by(fed)' <=> fed_by(fed)
      BY <1>7 DEF fed_by, contents, content, baseline_anchor, vars, pass
    <3>2. fed_by(simulated)' <=> fed_by(simulated)
      BY <1>7 DEF fed_by, contents, content, baseline_anchor, vars, pass
    <3>3. (Complete' <=> Complete) /\ (obstructed' <=> obstructed)
      BY <2>1, SameReasons
    <3>4. FreshPassIsCurrent'
      BY <1>1, <2>1, <3>3 DEF Claims, FreshPassIsCurrent, Ended
    <3>5. FreshFailsForAReason'
      BY <1>1, <2>1, <3>3 DEF Claims, FreshFailsForAReason, lagging, Ended
    <3>6. ReuseOfACompleteRun'
      BY <1>1, <2>1, <3>3 DEF Claims, ReuseOfACompleteRun
    <3>7. VerifiedTablesAgree'
      BY <1>1, <2>1, <3>1, <3>2 DEF Claims, VerifiedTablesAgree
    <3> QED BY <3>4, <3>5, <3>6, <3>7 DEF Claims
  <2>5. ASSUME NEW p, NEW m, NEW i, PassAt(p, m, i) PROVE PassAt(p, m, i)'
    <3>1. script' = script
      BY <2>1 DEF script
    <3>2. HandoffAt(p, m, i)'
      <4>1. PICK W : W = Written(p, i)
        OBVIOUS
      <4>2. /\ Fed(W, inputs(m))' /\ Traced(W, m)' /\ WholeAll(W)' /\ Gone(Dropped(p, i))' /\ Matched(W)'
        BY <2>1, <2>5, <4>1, SameDisk, InHandoffs
      <4>3. HMade(p, i)'
        <5> SUFFICES ASSUME Known(p, i), Taken(p, i) \cap Dropped(p, i) = {}
                     PROVE  \E N : N = Standing(Taken(p, i))' /\ MadeOf(N)'
          BY DEF HMade
        <5>1. HMade(p, i) /\ Taken(p, i) \subseteq HandoffFiles
          BY <2>5, InHandoffs, TakenFiles
        <5>2. PICK N : N = Standing(Taken(p, i)) /\ MadeOf(N)
          BY <5>1 DEF HMade
        <5>3. Standing(Taken(p, i))' = N /\ N \subseteq HandoffFiles
          BY <2>1, <5>1, <5>2, SameDisk, StandingFiles
        <5>4. MadeOf(N)'
          BY <2>1, <5>2, <5>3, MadeKept
        <5> QED BY <5>3, <5>4
      <4>4. HPulled(p, i)' /\ HCovered(p, i)'
        <5>1. HPulled(p, i) /\ HCovered(p, i)
          BY <2>5, InHandoffs
        <5> QED BY <2>1, <2>3, <5>1 DEF HPulled, HCovered
      <4>5. IsRows(made)' /\ HChecked(p, i)' /\ HPaired(p, i)'
        <5>1. IsRows(made) /\ HChecked(p, i) /\ HPaired(p, i)
          BY <2>5 DEF PassAt, HandoffAt
        <5> QED BY <2>1, <5>1 DEF HChecked, HPaired, RowsHold, IsRows
      <4> QED BY <4>1, <4>2, <4>3, <4>4, <4>5 DEF HandoffAt
    <3> QED BY <2>1, <2>2, <2>5, <3>1, <3>2 DEF PassAt
  <2> QED BY <1>1, <2>1, <2>2, <2>4, <2>5
<1> QED BY <1>2, <1>3, <1>4, <1>5, <1>6, <1>7 DEF Next

-----------------------------------------------------------------------------
(* The files of the report.                                                *)

\* Tables and sources of the report do not overlap.
LEMMA ReportNames ==
  /\ ReportFiles = ReportTables \cup ReportSources /\ ReportTables \cap ReportSources = {}
  /\ ReportSources = {"panels", "glamsterdam", "results", "workload"}
  /\ Manifests \subseteq ReportTables /\ Vouched \subseteq ReportTables \ Manifests
  /\ Bare \subseteq ReportTables \ (Manifests \cup Vouched) /\ Surfaces \subseteq Vouched
  /\ "quantities" \notin ReportFiles /\ "baseline_anchor" \notin ReportFiles
  /\ {"summary", "comparison", "normalized", "tail"} \subseteq Vouched
  /\ {"scenarios", "paths", "calibration"} \subseteq ReportTables
  /\ "factorial_manifest" \in Manifests /\ "summary" \notin Manifests
  /\ "anchor" \in Bare /\ "by_rate" \in Bare
BY DEF ReportFiles, ReportTables, ReportSources, Manifests, Vouched, Bare, Surfaces

\* A manifest vouches for tables that are compared, but for the summary.
LEMMA VouchedNames ==
  ASSUME NEW g \in DOMAIN vouched_by
  PROVE  /\ g \in Manifests \ {"factorial_manifest"}
         /\ vouched_by[g] \subseteq Vouched \ {"summary"}
         /\ \A f \in vouched_by[g] \cap Surfaces : vouched_by[g] \cap Surfaces = Surfaces
BY DEF vouched_by, Manifests, Vouched, Surfaces

\* Of a source, a file has its rows.
LEMMA SourceHas == ASSUME NEW s \in ReportSources PROVE has_of(s) = {s}
<1>1. s # "quantities" /\ s \notin Bare \cup {"baseline_anchor"} /\ s # "comparison" /\ s \notin Manifests
  BY DEF ReportSources, Bare, Manifests
<1> QED BY <1>1 DEF has_of

\* What a file of the report has is what is on disk.
LEMMA ReportContent ==
  ASSUME NEW f \in ReportFiles
  PROVE  content(f) = disk[f].from
BY ReportNames DEF content

\* What is taken from the calibrations.
LEMMA RateContent ==
  /\ content("quantities") = on(disk["by_rate"].from, {"glamsterdam"})
  /\ content("baseline_anchor") = IF anchor_rate = 64 THEN disk["anchor"].from ELSE disk["by_rate"].from
BY DEF content, baseline_anchor

\* A row of several files is a row of one of them.
LEMMA RowOf == ASSUME NEW N, NEW v PROVE v \in contents(N) <=> \E f \in N : v \in content(f)
BY DEF contents

\* The rows of a workload are its rows.
LEMMA WorkloadRows == ASSUME NEW S, NEW v PROVE v \in of_workload(S) <=> v \in S /\ v[1] = "workload"
BY DEF of_workload, on

\* Every source is there.
LEMMA SourcesThere ==
  ASSUME ReportDisk, NEW s \in ReportSources
  PROVE  exists(s) /\ whole(s) /\ on(disk[s].from, {s}) # {}
<1>1. CASE s # "results"
  <2>1. PICK v \in Nat : disk[s] = file({<<s, v>>})
    BY <1>1 DEF ReportDisk
  <2>2. <<s, v>> \in on(disk[s].from, {s})
    BY <2>1 DEF on, file
  <2> QED BY <2>1, <2>2 DEF exists, whole, file
<1>2. CASE s = "results"
  <2>1. PICK v, w \in Nat : disk["results"] = file({<<"results", v>>, <<"workload", w>>})
    BY DEF ReportDisk
  <2>2. <<s, v>> \in on(disk[s].from, {s})
    BY <1>2, <2>1 DEF on, file
  <2> QED BY <1>2, <2>1, <2>2 DEF exists, whole, file
<1> QED BY <1>1, <1>2

\* The workload there is.
LEMMA TheWorkload ==
  ASSUME ReportDisk
  PROVE  \E w \in Nat : disk["workload"] = file(only(w)) /\ disk["workload"].from = only(w)
<1>1. PICK v \in Nat : disk["workload"] = file({<<"workload", v>>})
  BY ReportNames DEF ReportDisk
<1>2. file(only(v)).from = only(v)
  BY DEF file
<1> QED BY <1>1, <1>2 DEF only

\* One workload is only itself.
LEMMA OnlyOne == ASSUME NEW v, NEW w, file(only(v)) = file(only(w)) \/ only(v) = only(w) PROVE v = w
<1>1. file(only(v)).from = only(v) /\ file(only(w)).from = only(w)
  BY DEF file
<1>2. <<"workload", v>> \in only(w)
  BY <1>1 DEF only
<1> QED BY <1>2 DEF only

-----------------------------------------------------------------------------
(* Notes.                                                                  *)

\* The aspects of a note.
LEMMA AspectNames ==
  Aspects = {"sure", "there", "sound", "solid", "copies", "opened", "anchored", "caught", "joined",
             "summed", "has", "clean", "firm", "touched", "summing", "legible", "echo", "guarded"}
BY DEF Aspects, start

\* What a note claims less than another.
LEMMA WeakerIs ==
  ASSUME NEW k, NEW n, Weaker(k, n)
  PROVE  /\ k.sure \subseteq n.sure /\ k.there \subseteq n.there /\ k.sound \subseteq n.sound
         /\ k.solid \subseteq n.solid /\ k.copies \subseteq n.copies /\ k.has \subseteq n.has
         /\ k.opened = n.opened /\ n.guarded \subseteq k.guarded
         /\ (k.anchored => n.anchored) /\ (k.caught => n.caught) /\ (k.joined => n.joined)
         /\ (k.summed => n.summed) /\ (k.clean => n.clean) /\ (k.firm => n.firm)
         /\ (k.touched => n.touched) /\ (k.summing => n.summing) /\ (k.legible => n.legible)
         /\ (k.echo => n.echo)
<1>1. /\ k.sure \subseteq n.sure /\ k.there \subseteq n.there /\ k.sound \subseteq n.sound
      /\ k.solid \subseteq n.solid /\ k.copies \subseteq n.copies /\ k.has \subseteq n.has
      /\ k.opened = n.opened /\ n.guarded \subseteq k.guarded
  BY DEF Weaker, FileAspects
<1>2. \A a \in {"anchored", "caught", "joined", "summed", "clean", "firm", "touched", "summing",
                "legible", "echo"} : a \in Aspects \ (FileAspects \cup {"opened", "guarded"})
  BY AspectNames DEF FileAspects
<1>3. \A a \in {"anchored", "caught", "joined", "summed", "clean", "firm", "touched", "summing",
                "legible", "echo"} : k[a] => n[a]
  BY <1>2 DEF Weaker
<1>4. /\ (k.anchored => n.anchored) /\ (k.caught => n.caught) /\ (k.joined => n.joined)
      /\ (k.summed => n.summed) /\ (k.clean => n.clean)
  BY <1>3
<1>5. /\ (k.firm => n.firm) /\ (k.touched => n.touched) /\ (k.summing => n.summing)
      /\ (k.legible => n.legible) /\ (k.echo => n.echo)
  BY <1>3
<1> QED BY <1>1, <1>4, <1>5

\* Less is known, too.
LEMMA WeakerHolds ==
  ASSUME NEW n, NEW k, Weaker(k, n)
  PROVE  /\ ReportAt(n) => ReportAt(k)
         /\ ReportAt(n)' => ReportAt(k)'
<1>1. MadeAt(n) => MadeAt(k)
  BY WeakerIs DEF MadeAt
<1>2. FilesAt(n) => FilesAt(k)
  BY WeakerIs DEF FilesAt
<1>3. SteadyAt(n) => SteadyAt(k)
  BY WeakerIs DEF SteadyAt
<1>4. \A w : OpenedOn(n, w) => OpenedOn(k, w)
  BY WeakerIs DEF OpenedOn
<1>5. WorkloadAt(n) => WorkloadAt(k)
  <2>1. CASE n.opened
    BY <1>4, <2>1, WeakerIs DEF WorkloadAt
  <2>2. CASE ~n.opened
    BY <2>2, WeakerIs DEF WorkloadAt
  <2> QED BY <2>1, <2>2
<1>6. ReportAt(n) => ReportAt(k)
  BY <1>1, <1>2, <1>3, <1>5, WeakerIs DEF ReportAt
<1>11. MadeAt(n)' => MadeAt(k)'
  BY WeakerIs DEF MadeAt
<1>12. FilesAt(n)' => FilesAt(k)'
  BY WeakerIs DEF FilesAt
<1>13. SteadyAt(n)' => SteadyAt(k)'
  BY WeakerIs DEF SteadyAt
<1>14. \A w : OpenedOn(n, w)' => OpenedOn(k, w)'
  BY WeakerIs DEF OpenedOn
<1>15. WorkloadAt(n)' => WorkloadAt(k)'
  <2>1. CASE n.opened
    BY <1>14, <2>1, WeakerIs DEF WorkloadAt
  <2>2. CASE ~n.opened
    BY <2>2, WeakerIs DEF WorkloadAt
  <2> QED BY <2>1, <2>2
<1>16. ReportAt(n)' => ReportAt(k)'
  BY <1>11, <1>12, <1>13, <1>15, WeakerIs DEF ReportAt
<1> QED BY <1>6, <1>16

-----------------------------------------------------------------------------
(* Steps that leave the disk as it is.                                     *)

\* The disk is as it was.
SameReport == disk' = disk /\ anchor_rate' = anchor_rate /\ changes' = changes

\* What holds of the disk still does.
LEMMA ReportSame == ASSUME ReportBase, SameReport PROVE ReportBase'
<1>1. ReportDisk' /\ Latest'
  BY DEF ReportBase, SameReport, ReportDisk, Latest, UpTo
<1>2. HasOwn' /\ Legible' /\ Recorded'
  BY DEF ReportBase, SameReport, HasOwn, Legible, Recorded, exists, whole
<1>3. BareRows' /\ Vouching' /\ Bounded'
  BY DEF ReportBase, SameReport, BareRows, Vouching, Bounded
<1> QED BY <1>1, <1>2, <1>3 DEF ReportBase

\* The pass has in memory what it had.
SameMemory == made' = made /\ held' = held /\ snapshot' = snapshot /\ steady' = steady

\* What a pass knew it knows.
LEMMA QuietAt ==
  ASSUME NEW n, ReportAt(n), SameReport, SameMemory
  PROVE  ReportAt(n)'
<1>1. MadeAt(n)'
  BY DEF ReportAt, MadeAt, UpTo, SameReport, SameMemory
<1>2. FilesAt(n)'
  BY DEF ReportAt, FilesAt, SameReport, SameMemory, whole, exists
<1>3. SteadyAt(n)'
  BY DEF ReportAt, SteadyAt, SameReport, SameMemory, replayed
<1>4. \A w : OpenedOn(n, w)' <=> OpenedOn(n, w)
  BY DEF OpenedOn, SameReport, SameMemory
<1>5. WorkloadAt(n)'
  BY <1>4 DEF ReportAt, WorkloadAt, SameReport, SameMemory
<1> QED BY <1>1, <1>2, <1>3, <1>5 DEF ReportAt, SameReport, SameMemory

\* k knows of the files what n does, and of none that it holds what is in memory.
SameOfFiles(k, n) ==
  /\ k.sure = n.sure /\ k.there = n.there /\ k.sound = n.sound /\ k.solid = n.solid
  /\ k.copies = {} /\ k.anchored = n.anchored /\ k.caught = n.caught
  /\ k.joined = n.joined /\ k.summed = n.summed

\* A step that changes what is in memory.
LEMMA MemoryChanges ==
  ASSUME NEW n, NEW k, ReportAt(n), SameReport, steady' = steady, SameOfFiles(k, n),
         MadeAt(k)', WorkloadAt(k)',
         steady /\ k.clean => made' \subseteq replayed,
         DOMAIN held' \subseteq k.guarded,
         steady => \A f \in DOMAIN held' : held'[f] = disk[f],
         DOMAIN snapshot' \subseteq {"results", "glamsterdam"},
         steady => \A s \in DOMAIN snapshot' : snapshot'[s] = disk[s]
  PROVE  ReportAt(k)'
<1>1. FilesAt(k)'
  BY DEF ReportAt, FilesAt, SameReport, SameOfFiles, whole, exists
<1>2. replayed' = replayed
  BY DEF SameReport, replayed
<1>3. SteadyAt(k)'
  BY <1>2 DEF ReportAt, SteadyAt, SameReport, SameOfFiles
<1> QED BY <1>1, <1>3 DEF ReportAt

\* The workload the factorial opened, when that is not now.
LEMMA StillOpened ==
  ASSUME NEW n, NEW k, ReportAt(n), SameReport, steady' = steady,
         k.opened <=> n.opened, k.solid = n.solid,
         n.opened => \A w \in Nat : OpenedOn(n, w) =>
            /\ k.firm => of_workload(made') \subseteq only(w)
            /\ k.touched => <<"workload", w>> \in made',
         ~n.opened => (k.firm => of_workload(made') = {})
  PROVE  WorkloadAt(k)'
<1>1. CASE n.opened
  <2>1. PICK w \in Nat : OpenedOn(n, w)
    BY <1>1 DEF ReportAt, WorkloadAt
  <2>2. OpenedOn(k, w)'
    BY <1>1, <2>1 DEF OpenedOn, SameReport
  <2> QED BY <1>1, <2>2 DEF WorkloadAt
<1>2. CASE ~n.opened
  BY <1>2 DEF ReportAt, WorkloadAt
<1> QED BY <1>1, <1>2

-----------------------------------------------------------------------------
(* What is read.                                                           *)

\* A read takes rows of the file behind it.
LEMMA BehindHas ==
  ASSUME ReportBase, NEW x \in ReadNames, x = "baseline_anchor" => anchor_rate = 64
  PROVE  /\ behind(x) \in ReportFiles
         /\ content(x) \subseteq disk[behind(x)].from
         /\ exists(behind(x)) => \A s \in has_of(x) : on(content(x), {s}) # {}
         /\ x \in ReportFiles => behind(x) = x /\ content(x) = disk[x].from
<1>0. PICK b, c, H : b = behind(x) /\ c = content(x) /\ H = has_of(x)
  OBVIOUS
<1> DEFINE Goal == /\ b \in ReportFiles /\ c \subseteq disk[b].from
                   /\ exists(b) => \A s \in H : on(c, {s}) # {}
                   /\ x \in ReportFiles => b = x /\ c = disk[x].from
<1>1. CASE x = "quantities"
  <2>1. b = "by_rate" /\ H = {"glamsterdam"} /\ x \notin ReportFiles
    BY <1>0, <1>1, ReportNames DEF behind, has_of
  <2>2. c = on(disk["by_rate"].from, {"glamsterdam"})
    BY <1>0, <1>1, RateContent
  <2>3. has_of("by_rate") = {"panels", "glamsterdam"}
    BY ReportNames DEF has_of
  <2>4. exists("by_rate") => on(disk["by_rate"].from, {"glamsterdam"}) # {}
    BY <2>3, ReportNames DEF ReportBase, HasOwn
  <2>5. on(c, {"glamsterdam"}) = c /\ c \subseteq disk["by_rate"].from
    BY <2>2 DEF on
  <2>6. Goal
    BY <2>1, <2>2, <2>4, <2>5, ReportNames
  <2> QED BY <1>0, <2>6
<1>2. CASE x = "baseline_anchor"
  <2>1. b = "anchor" /\ H = {"panels", "glamsterdam"} /\ x \notin ReportFiles
    BY <1>0, <1>2, ReportNames DEF behind, has_of
  <2>2. c = disk["anchor"].from
    BY <1>0, <1>2, RateContent
  <2>3. has_of("anchor") = {"panels", "glamsterdam"}
    BY ReportNames DEF has_of
  <2>4. exists("anchor") => \A s \in H : on(c, {s}) # {}
    BY <2>1, <2>2, <2>3, ReportNames DEF ReportBase, HasOwn
  <2>5. Goal
    BY <2>1, <2>2, <2>4, ReportNames
  <2> QED BY <1>0, <2>5
<1>3. CASE x \in ReportFiles
  <2>1. b = x /\ c = disk[x].from
    BY <1>0, <1>3, ReportContent, ReportNames DEF behind
  <2>2. exists(x) => \A s \in H : on(disk[x].from, {s}) # {}
    <3>1. CASE x \in ReportSources
      <4>1. H = {x}
        BY <1>0, <3>1, SourceHas
      <4> QED BY <3>1, <4>1, SourcesThere DEF ReportBase
    <3>2. CASE x \in ReportTables
      BY <1>0, <3>2 DEF ReportBase, HasOwn
    <3> QED BY <1>3, <3>1, <3>2, ReportNames
  <2>3. Goal
    BY <1>3, <2>1, <2>2
  <2> QED BY <1>0, <2>3
<1> QED BY <1>1, <1>2, <1>3 DEF ReadNames

\* A row of a source is named for it; of the results, perhaps for the workload.
LEMMA SourceRow ==
  ASSUME ReportDisk, NEW s \in ReportSources, NEW v \in disk[s].from
  PROVE  /\ v[1] \in ReportSources
         /\ v[1] = s \/ (s = "results" /\ v[1] = "workload")
<1>1. CASE s # "results"
  <2>1. PICK x \in Nat : disk[s] = file({<<s, x>>})
    BY <1>1 DEF ReportDisk
  <2>2. v = <<s, x>>
    BY <2>1 DEF file
  <2> QED BY <2>2
<1>2. CASE s = "results"
  <2>1. PICK x, w \in Nat : disk["results"] = file({<<"results", x>>, <<"workload", w>>})
    BY DEF ReportDisk
  <2>2. v = <<"results", x>> \/ v = <<"workload", w>>
    BY <1>2, <2>1 DEF file
  <2> QED BY <1>2, <2>2, ReportNames
<1> QED BY <1>1, <1>2

\* What is there, or what a fresh pass wrote, can be read.
ReadIn(N, n) ==
  /\ N \subseteq ReadNames /\ \A f \in Behind(N) : exists(f)
  /\ "baseline_anchor" \in N => n.anchored

\* What a pass knows of what it reads.
LEMMA ReadKnown ==
  ASSUME ReportBase, NEW n, ReportAt(n), NEW N, ReadIn(N, n)
  PROVE  /\ \A v \in contents(N) : v = <<v[1], v[2]>>
         /\ UpTo(contents(N))
         /\ \A s \in has_all(N) : on(contents(N), {s}) # {}
         /\ LegibleReads(N, n) => \A v \in contents(N) : v[1] \in ReportSources
         /\ steady /\ CleanReads(N, n) => contents(N) \subseteq replayed
<1>1. ASSUME NEW x \in N
      PROVE  /\ x \in ReadNames /\ behind(x) \in ReportFiles /\ behind(x) \in Behind(N)
             /\ content(x) \subseteq disk[behind(x)].from
             /\ \A s \in has_of(x) : on(content(x), {s}) # {}
  <2>1. x \in ReadNames /\ behind(x) \in Behind(N) /\ (x = "baseline_anchor" => anchor_rate = 64)
    BY DEF ReadIn, Behind, ReportAt, FilesAt
  <2>2. exists(behind(x))
    BY <2>1 DEF ReadIn
  <2> QED BY <2>1, <2>2, BehindHas
<1>2. ASSUME NEW v \in contents(N)
      PROVE  \E f \in Behind(N) : f \in ReportFiles /\ v \in disk[f].from
  BY <1>1, RowOf
<1>3. \A v \in contents(N) : v = <<v[1], v[2]>>
  BY <1>2 DEF ReportBase, ReportDisk
<1>4. UpTo(contents(N))
  BY <1>2, WorkloadRows DEF ReportBase, Latest, UpTo
<1>5. \A s \in has_all(N) : on(contents(N), {s}) # {}
  <2> TAKE s \in has_all(N)
  <2>1. PICK x \in N : s \in has_of(x)
    BY DEF has_all
  <2>2. PICK v : v \in on(content(x), {s})
    BY <1>1, <2>1
  <2>3. v \in on(contents(N), {s})
    BY <2>2, RowOf DEF on
  <2> QED BY <2>3
<1>6. ASSUME LegibleReads(N, n), NEW v \in contents(N) PROVE v[1] \in ReportSources
  <2>1. PICK f \in Behind(N) : f \in ReportFiles /\ v \in disk[f].from
    BY <1>2
  <2>2. CASE f \in ReportSources
    BY <2>1, <2>2, SourceRow DEF ReportBase
  <2>3. CASE f \in n.sure \ {"summary"} /\ f \notin ReportSources
    <3>1. whole(f) /\ f \in ReportTables \ {"summary"}
      BY <2>1, <2>3, ReportNames DEF ReportAt, FilesAt
    <3> QED BY <2>1, <3>1 DEF ReportBase, Legible
  <2> QED BY <1>6, <2>1, <2>2, <2>3 DEF LegibleReads
<1>7. ASSUME steady, CleanReads(N, n), NEW v \in contents(N) PROVE v \in replayed
  <2>1. PICK f \in Behind(N) : f \in ReportFiles /\ v \in disk[f].from
    BY <1>2
  <2>2. CASE f \in ReportSources
    BY <2>1, <2>2 DEF replayed
  <2>3. CASE f \in n.sound
    BY <1>7, <2>1, <2>3 DEF ReportAt, SteadyAt
  <2> QED BY <1>7, <2>1, <2>2, <2>3 DEF CleanReads
<1> QED BY <1>3, <1>4, <1>5, <1>6, <1>7

\* Before the factorial opens a workload, no firm read has one; after that, only
\* this one.
LEMMA ReadFirm ==
  ASSUME ReportBase, NEW n, NEW N, N \subseteq ReadNames, NoteNames(n)
  PROVE  /\ n.solid = {} /\ FirmReads(N, n) => of_workload(contents(N)) = {}
         /\ \A w : OpenedOn(n, w) =>
              /\ FirmReads(N, n) => of_workload(contents(N)) \subseteq only(w)
              /\ N \cap n.solid # {} => <<"workload", w>> \in contents(N)
<1>1. ASSUME NEW x \in Bare \cup {"quantities", "panels", "glamsterdam"} PROVE of_workload(content(x)) = {}
  <2>1. CASE x = "quantities"
    BY <2>1, RateContent DEF of_workload, on
  <2>2. CASE x \in Bare
    BY <2>2, ReportContent, ReportNames DEF ReportBase, BareRows
  <2>3. CASE x \in {"panels", "glamsterdam"}
    <3>1. x \in ReportSources /\ x # "results" /\ x # "workload" /\ content(x) = disk[x].from
      BY <2>3, ReportContent, ReportNames
    <3> QED BY <3>1, SourceRow DEF ReportBase, of_workload, on
  <2> QED BY <2>1, <2>2, <2>3
<1>2. ASSUME n.solid = {}, FirmReads(N, n) PROVE of_workload(contents(N)) = {}
  <2>1. \A x \in N : of_workload(content(x)) = {}
    BY <1>1, <1>2 DEF FirmReads
  <2> QED BY <2>1, RowOf, WorkloadRows
<1>3. ASSUME NEW w, OpenedOn(n, w), NEW x \in n.solid
      PROVE  of_workload(content(x)) = only(w)
  <2>1. x \in ReportFiles
    BY ReportNames DEF NoteNames
  <2> QED BY <1>3, <2>1, ReportContent DEF OpenedOn
<1>4. ASSUME NEW w, OpenedOn(n, w), FirmReads(N, n) PROVE of_workload(contents(N)) \subseteq only(w)
  <2>1. \A x \in N : of_workload(content(x)) \subseteq only(w)
    BY <1>1, <1>3, <1>4 DEF FirmReads
  <2> QED BY <2>1, RowOf, WorkloadRows
<1>5. ASSUME NEW w, OpenedOn(n, w), N \cap n.solid # {} PROVE <<"workload", w>> \in contents(N)
  <2>1. PICK x \in N : x \in n.solid
    BY <1>5
  <2>2. <<"workload", w>> \in of_workload(content(x))
    BY <1>3, <1>5, <2>1 DEF only
  <2> QED BY <2>1, <2>2, RowOf, WorkloadRows
<1> QED BY <1>2, <1>4, <1>5

-----------------------------------------------------------------------------
(* What a step makes of a note.                                            *)

\* A note after a process has started.
LEMMA AfterOpen ==
  ASSUME NEW s, NEW n, NoteNames(n), NEW k, k = after_open(s, n)
  PROVE  /\ SameOfFiles(k, n) /\ k.has = has_all(s.reads) /\ k.guarded = s.protects
         /\ (k.clean => CleanReads(s.reads, n)) /\ (k.firm => FirmReads(s.reads, n) \/ Opening(s, n))
         /\ (k.touched => s.reads \cap n.solid # {} \/ Opening(s, n))
         /\ (k.summing => s.reads = {"comparison", "normalized"})
         /\ (k.legible => LegibleReads(s.reads, n)) /\ ~k.echo
         /\ (k.opened <=> n.opened \/ Opening(s, n))
<1>1. DOMAIN n = Aspects
  BY DEF NoteNames
<1>2. SameOfFiles(k, n) /\ k.has = has_all(s.reads) /\ k.guarded = s.protects
  BY <1>1, AspectNames DEF after_open, SameOfFiles
<1>3. /\ (k.clean => CleanReads(s.reads, n)) /\ (k.firm => FirmReads(s.reads, n) \/ Opening(s, n))
      /\ (k.touched => s.reads \cap n.solid # {} \/ Opening(s, n))
  BY <1>1, AspectNames DEF after_open
<1>4. /\ (k.summing => s.reads = {"comparison", "normalized"})
      /\ (k.legible => LegibleReads(s.reads, n)) /\ ~k.echo
      /\ (k.opened <=> n.opened \/ Opening(s, n))
  BY <1>1, AspectNames DEF after_open
<1> QED BY <1>2, <1>3, <1>4

\* After it has read more.
LEMMA AfterAdd ==
  ASSUME NEW s, NEW n, NoteNames(n), NEW k, k = after_add(s, n)
  PROVE  /\ SameOfFiles(k, n) /\ k.has = n.has \cup has_all(s.reads) /\ k.guarded = n.guarded
         /\ (k.clean => n.clean /\ CleanReads(s.reads, n)) /\ (k.firm => n.firm /\ FirmReads(s.reads, n))
         /\ (k.touched => n.touched \/ s.reads \cap n.solid # {}) /\ ~k.summing
         /\ (k.legible => n.legible /\ LegibleReads(s.reads, n)) /\ ~k.echo /\ k.opened = n.opened
<1>1. DOMAIN n = Aspects
  BY DEF NoteNames
<1>2. SameOfFiles(k, n) /\ k.has = n.has \cup has_all(s.reads) /\ k.guarded = n.guarded
  BY <1>1, AspectNames DEF after_add, SameOfFiles
<1>3. /\ (k.clean => n.clean /\ CleanReads(s.reads, n)) /\ (k.firm => n.firm /\ FirmReads(s.reads, n))
      /\ (k.touched => n.touched \/ s.reads \cap n.solid # {})
  BY <1>1, AspectNames DEF after_add
<1>4. ~k.summing /\ (k.legible => n.legible /\ LegibleReads(s.reads, n)) /\ ~k.echo /\ k.opened = n.opened
  BY <1>1, AspectNames DEF after_add
<1> QED BY <1>2, <1>3, <1>4

\* After it has matched a manifest.
LEMMA AfterMatches ==
  ASSUME NEW s, NEW n, NoteNames(n), NEW k, k = after_matches(s, n)
  PROVE  /\ SameOfFiles(k, n) /\ k.has = n.has \cup {"workload"} /\ k.guarded = n.guarded
         /\ (k.clean => n.clean) /\ (k.firm => n.firm /\ s.file \in n.solid)
         /\ (k.touched => n.touched \/ s.file \in n.solid) /\ ~k.summing
         /\ (k.legible => n.legible) /\ ~k.echo /\ k.opened = n.opened
<1>1. DOMAIN n = Aspects
  BY DEF NoteNames
<1>2. SameOfFiles(k, n) /\ k.has = n.has \cup {"workload"} /\ k.guarded = n.guarded
  BY <1>1, AspectNames DEF after_matches, SameOfFiles
<1>3. /\ (k.clean => n.clean) /\ (k.firm => n.firm /\ s.file \in n.solid)
      /\ (k.touched => n.touched \/ s.file \in n.solid)
  BY <1>1, AspectNames DEF after_matches
<1>4. ~k.summing /\ (k.legible => n.legible) /\ ~k.echo /\ k.opened = n.opened
  BY <1>1, AspectNames DEF after_matches
<1> QED BY <1>2, <1>3, <1>4

\* After a surface is computed.
LEMMA AfterCache ==
  ASSUME NEW n, NoteNames(n), NEW k, k = after_cache(n)
  PROVE  /\ SameOfFiles(k, n) /\ k.has = has_of("surface") /\ k.guarded = n.guarded
         /\ ~k.summing /\ ~k.echo /\ k.opened = n.opened
<1>1. DOMAIN n = Aspects
  BY DEF NoteNames
<1> QED BY <1>1, AspectNames DEF after_cache, SameOfFiles

\* After one is taken from disk.
LEMMA AfterCached ==
  ASSUME NEW n, NoteNames(n), NEW k, k = after_cached(n)
  PROVE  /\ k.sure = n.sure /\ k.there = n.there \cup Surfaces /\ k.sound = n.sound /\ k.solid = n.solid
         /\ k.copies = {} /\ k.anchored = n.anchored /\ k.caught = n.caught
         /\ k.joined = n.joined /\ k.summed = n.summed
         /\ k.has = has_of("surface") /\ k.guarded = n.guarded
         /\ ~k.clean /\ ~k.firm /\ ~k.summing /\ ~k.legible /\ k.opened = n.opened
<1>1. DOMAIN n = Aspects
  BY DEF NoteNames
<1>2. /\ k.sure = n.sure /\ k.there = n.there \cup Surfaces /\ k.sound = n.sound /\ k.solid = n.solid
      /\ k.copies = {} /\ k.anchored = n.anchored /\ k.caught = n.caught
      /\ k.joined = n.joined /\ k.summed = n.summed
  BY <1>1, AspectNames DEF after_cached
<1>3. /\ k.has = has_of("surface") /\ k.guarded = n.guarded
      /\ ~k.clean /\ ~k.firm /\ ~k.summing /\ ~k.legible /\ k.opened = n.opened
  BY <1>1, AspectNames DEF after_cached
<1> QED BY <1>2, <1>3

\* After the snapshot a notebook starts with.
LEMMA AfterSnapshot ==
  ASSUME NEW n, NoteNames(n), NEW k, k = after_snapshot(n)
  PROVE  /\ SameOfFiles(k, n) /\ k.has = {} /\ k.guarded = {} /\ ~k.touched
         /\ ~k.summing /\ ~k.echo /\ k.opened = n.opened
<1>1. DOMAIN n = Aspects
  BY DEF NoteNames
<1> QED BY <1>1, AspectNames DEF after_snapshot, SameOfFiles

-----------------------------------------------------------------------------
(* Steps that change what is in memory.                                    *)

\* What is read is there.
LEMMA ReadNoteIn ==
  ASSUME ReportBase, NEW n, ReportAt(n), NEW s, NEW m, ReadNote(s, n, m), readable(s.reads)
  PROVE  ReadIn(s.reads, n)
<1>1. s.reads \subseteq ReadNames /\ ("baseline_anchor" \in s.reads => n.anchored)
  BY DEF ReadNote
<1>2. ASSUME NEW f \in Behind(s.reads) PROVE exists(f)
  <2>1. CASE m = "fresh"
    <3>1. f \in n.sure \/ f \in ReportSources
      BY <2>1 DEF ReadNote
    <3>2. f \in n.sure => exists(f)
      BY DEF ReportAt, FilesAt, exists, whole
    <3> QED BY <3>1, <3>2, SourcesThere DEF ReportBase
  <2>2. CASE m # "fresh"
    <3>1. PICK x \in s.reads : f = behind(x)
      BY DEF Behind
    <3>2. x \in ReportTables /\ x \in ReportFiles
      BY <2>2, ReportNames DEF ReadNote
    <3>3. f = x
      BY <3>1, <3>2, ReportNames DEF behind
    <3>4. DOMAIN disk = ReportFiles
      BY DEF ReportBase, ReportDisk
    <3> QED BY <3>1, <3>2, <3>3, <3>4 DEF readable
  <2> QED BY <2>1, <2>2
<1> QED BY <1>1, <1>2 DEF ReadIn

\* The factorial opens the workload there is.
LEMMA OpensWorkload ==
  ASSUME ReportBase, NEW n, ReportAt(n), NoteNames(n), NEW s, Opening(s, n), ReadIn(s.reads, n),
         SameReport, steady' = steady, made' = contents(s.reads), NEW k, SameOfFiles(k, n),
         k.opened <=> TRUE
  PROVE  WorkloadAt(k)'
<1>1. PICK w \in Nat : disk["workload"] = file(only(w)) /\ disk["workload"].from = only(w)
  BY TheWorkload DEF ReportBase
<1>2. n.solid = {} /\ s.reads = {"by_rate", "workload"} /\ k.solid = {}
  BY DEF ReportAt, WorkloadAt, Opening, SameOfFiles
<1>3. content("by_rate") = disk["by_rate"].from /\ content("workload") = only(w)
  BY <1>1, ReportContent, ReportNames
<1>4. of_workload(made') \subseteq only(w) /\ <<"workload", w>> \in made'
  <2>1. of_workload(disk["by_rate"].from) = {}
    BY ReportNames DEF ReportBase, BareRows
  <2>2. \A v \in made' : v \in disk["by_rate"].from \/ v \in only(w)
    BY <1>2, <1>3, RowOf
  <2>3. <<"workload", w>> \in only(w)
    BY DEF only
  <2>4. <<"workload", w>> \in contents(s.reads)
    BY <1>2, <1>3, <2>3, RowOf
  <2> QED BY <2>1, <2>2, <2>4, WorkloadRows
<1>5. \A u \in disk["workload"].from : u[2] = w
  BY <1>1 DEF only
<1>6. \A f \in ReportFiles : \A v \in of_workload(disk[f].from) : v[2] <= w
  <2> TAKE f \in ReportFiles
  <2> TAKE v \in of_workload(disk[f].from)
  <2>1. <<"workload", w>> \in disk["workload"].from
    BY <1>1 DEF only
  <2>2. v[2] <= <<"workload", w>>[2]
    BY <2>1 DEF ReportBase, Latest, UpTo
  <2> QED BY <2>2
<1>7. \A g \in Manifests : \A x \in Nat : disk[g] = file(only(x)) => x <= w
  <2> TAKE g \in Manifests
  <2> SUFFICES ASSUME NEW x \in Nat, disk[g] = file(only(x)) PROVE x <= w
    OBVIOUS
  <2>1. disk[g].from = only(x)
    BY DEF file
  <2>2. <<"workload", x>> \in of_workload(disk[g].from)
    BY <2>1 DEF only, of_workload, on
  <2>3. g \in ReportFiles
    BY ReportNames
  <2>4. <<"workload", x>>[2] <= w
    BY <1>6, <2>2, <2>3
  <2> QED BY <2>4
<1>8. OpenedOn(k, w)'
  <2>1. \A f \in Vouched : f \in ReportFiles
    BY ReportNames
  <2>2. \A u \in disk["workload"].from : w <= u[2]
    BY <1>5
  <2> QED BY <1>1, <1>2, <1>4, <1>6, <1>7, <2>1, <2>2 DEF OpenedOn, SameReport
<1> QED BY <1>8 DEF WorkloadAt

\* A process starts with what it reads.
LEMMA OpenKeeps ==
  ASSUME ReportBase, NEW n, ReportAt(n), NoteNames(n), NEW s, ReadIn(s.reads, n),
         SameReport, steady' = steady, made' = contents(s.reads),
         held' = [f \in s.protects |-> disk[f]], snapshot' = snapshot
  PROVE  ReportBase' /\ ReportAt(after_open(s, n))'
<1>0. PICK k : k = after_open(s, n)
  OBVIOUS
<1>1. /\ SameOfFiles(k, n) /\ k.has = has_all(s.reads) /\ k.guarded = s.protects
      /\ (k.clean => CleanReads(s.reads, n)) /\ (k.firm => FirmReads(s.reads, n) \/ Opening(s, n))
      /\ (k.touched => s.reads \cap n.solid # {} \/ Opening(s, n))
      /\ (k.summing => s.reads = {"comparison", "normalized"})
      /\ (k.legible => LegibleReads(s.reads, n)) /\ ~k.echo
      /\ (k.opened <=> n.opened \/ Opening(s, n))
  BY <1>0, AfterOpen
<1>2. PICK C : C = contents(s.reads) /\ C = made'
  OBVIOUS
<1>3. /\ \A v \in C : v = <<v[1], v[2]>>
      /\ UpTo(C)
      /\ \A x \in has_all(s.reads) : on(C, {x}) # {}
      /\ (LegibleReads(s.reads, n) => \A v \in C : v[1] \in ReportSources)
      /\ (steady /\ CleanReads(s.reads, n) => C \subseteq replayed)
  BY <1>2, ReadKnown
<1>4. s.reads = {"comparison", "normalized"} => C = disk["comparison"].from \cup disk["normalized"].from
  <2> SUFFICES ASSUME s.reads = {"comparison", "normalized"}
               PROVE  C = disk["comparison"].from \cup disk["normalized"].from
    OBVIOUS
  <2>1. content("comparison") = disk["comparison"].from /\ content("normalized") = disk["normalized"].from
    BY ReportContent, ReportNames
  <2> QED BY <1>2, <2>1, RowOf
<1>5. MadeAt(k)'
  <2>1. UpTo(made)'
    BY <1>2, <1>3 DEF UpTo, SameReport
  <2> QED BY <1>1, <1>2, <1>3, <1>4, <2>1 DEF MadeAt, SameReport
<1>6. WorkloadAt(k)'
  <2>1. CASE Opening(s, n)
    BY <1>1, <2>1, OpensWorkload
  <2>2. CASE ~Opening(s, n)
    <3>1. s.reads \subseteq ReadNames
      BY DEF ReadIn
    <3>2. n.opened => \A w \in Nat : OpenedOn(n, w) =>
            /\ k.firm => of_workload(made') \subseteq only(w)
            /\ k.touched => <<"workload", w>> \in made'
      BY <1>1, <2>2, <3>1, ReadFirm
    <3>3. ~n.opened => (k.firm => of_workload(made') = {})
      <4>1. ~n.opened => n.solid = {}
        BY DEF ReportAt, WorkloadAt
      <4> QED BY <1>1, <2>2, <3>1, <4>1, ReadFirm
    <3>4. (k.opened <=> n.opened) /\ k.solid = n.solid
      BY <1>1, <2>2 DEF SameOfFiles
    <3> QED BY <3>2, <3>3, <3>4, StillOpened
  <2> QED BY <2>1, <2>2
<1>7. ReportAt(k)'
  <2>1. /\ steady /\ k.clean => made' \subseteq replayed
        /\ DOMAIN held' \subseteq k.guarded
        /\ (steady => \A f \in DOMAIN held' : held'[f] = disk[f])
    BY <1>1, <1>2, <1>3
  <2>2. DOMAIN snapshot' \subseteq {"results", "glamsterdam"}
        /\ (steady => \A x \in DOMAIN snapshot' : snapshot'[x] = disk[x])
    BY DEF ReportAt, SteadyAt
  <2> QED BY <1>1, <1>5, <1>6, <2>1, <2>2, MemoryChanges
<1> QED BY <1>0, <1>7, ReportSame

\* A process reads more.
LEMMA AddKeeps ==
  ASSUME ReportBase, NEW n, ReportAt(n), NoteNames(n), NEW s, ReadIn(s.reads, n),
         SameReport, steady' = steady, made' = made \cup contents(s.reads),
         held' = held, snapshot' = snapshot
  PROVE  ReportBase' /\ ReportAt(after_add(s, n))'
<1>0. PICK k : k = after_add(s, n)
  OBVIOUS
<1>1. /\ SameOfFiles(k, n) /\ k.has = n.has \cup has_all(s.reads) /\ k.guarded = n.guarded
      /\ (k.clean => n.clean /\ CleanReads(s.reads, n)) /\ (k.firm => n.firm /\ FirmReads(s.reads, n))
      /\ (k.touched => n.touched \/ s.reads \cap n.solid # {}) /\ ~k.summing
      /\ (k.legible => n.legible /\ LegibleReads(s.reads, n)) /\ ~k.echo /\ k.opened = n.opened
  BY <1>0, AfterAdd
<1>2. PICK C : C = contents(s.reads) /\ made' = made \cup C
  OBVIOUS
<1>3. /\ \A v \in C : v = <<v[1], v[2]>>
      /\ UpTo(C)
      /\ \A x \in has_all(s.reads) : on(C, {x}) # {}
      /\ (LegibleReads(s.reads, n) => \A v \in C : v[1] \in ReportSources)
      /\ (steady /\ CleanReads(s.reads, n) => C \subseteq replayed)
  BY <1>2, ReadKnown
<1>4. MadeAt(n) /\ SteadyAt(n) /\ DOMAIN held \subseteq n.guarded
      /\ DOMAIN snapshot \subseteq {"results", "glamsterdam"}
  BY DEF ReportAt
<1>5. MadeAt(k)'
  <2>1. UpTo(made)'
    BY <1>2, <1>3, <1>4, WorkloadRows DEF UpTo, SameReport, MadeAt
  <2>2. \A x \in k.has : on(made', {x}) # {}
    BY <1>1, <1>2, <1>3, <1>4 DEF MadeAt, on
  <2>3. k.legible => \A v \in made' : v[1] \in ReportSources
    BY <1>1, <1>2, <1>3, <1>4 DEF MadeAt
  <2>4. \A v \in made' : v = <<v[1], v[2]>>
    BY <1>2, <1>3, <1>4 DEF MadeAt
  <2> QED BY <1>1, <2>1, <2>2, <2>3, <2>4 DEF MadeAt
<1>6. WorkloadAt(k)'
  <2>1. s.reads \subseteq ReadNames
    BY DEF ReadIn
  <2>2. ASSUME n.opened, NEW w \in Nat, OpenedOn(n, w)
        PROVE  /\ k.firm => of_workload(made') \subseteq only(w)
               /\ k.touched => <<"workload", w>> \in made'
    <3>1. /\ FirmReads(s.reads, n) => of_workload(C) \subseteq only(w)
          /\ s.reads \cap n.solid # {} => <<"workload", w>> \in C
      BY <1>2, <2>1, <2>2, ReadFirm
    <3>2. (n.firm => of_workload(made) \subseteq only(w)) /\ (n.touched => <<"workload", w>> \in made)
      BY <2>2 DEF OpenedOn
    <3> QED BY <1>1, <1>2, <3>1, <3>2, WorkloadRows
  <2>3. ASSUME ~n.opened, k.firm PROVE of_workload(made') = {}
    <3>1. n.solid = {} /\ of_workload(made) = {}
      BY <1>1, <2>3 DEF ReportAt, WorkloadAt
    <3>2. of_workload(C) = {}
      BY <1>1, <1>2, <2>1, <2>3, <3>1, ReadFirm
    <3> QED BY <1>2, <3>1, <3>2, WorkloadRows
  <2>4. k.opened = n.opened /\ k.solid = n.solid
    BY <1>1 DEF SameOfFiles
  <2> QED BY <2>2, <2>3, <2>4, StillOpened
<1>7. ReportAt(k)'
  <2>1. steady /\ k.clean => made' \subseteq replayed
    BY <1>1, <1>2, <1>3, <1>4 DEF SteadyAt
  <2>2. /\ DOMAIN held' \subseteq k.guarded
        /\ (steady => \A f \in DOMAIN held' : held'[f] = disk[f])
    BY <1>1, <1>4 DEF SteadyAt
  <2>3. DOMAIN snapshot' \subseteq {"results", "glamsterdam"}
        /\ (steady => \A x \in DOMAIN snapshot' : snapshot'[x] = disk[x])
    BY <1>4 DEF SteadyAt
  <2> QED BY <1>1, <1>5, <1>6, <2>1, <2>2, <2>3, MemoryChanges
<1> QED BY <1>0, <1>7, ReportSame

\* A process rebuilds the workload, which is that of a manifest.
LEMMA MatchesKeeps ==
  ASSUME ReportBase, NEW n, ReportAt(n), NoteNames(n), NEW s, NEW m, ReportNeeds(s, n, m),
         s.do = "matches", disk[s.file] = disk["workload"],
         SameReport, steady' = steady, made' = made \cup disk["workload"].from,
         held' = held, snapshot' = snapshot
  PROVE  ReportBase' /\ ReportAt(after_matches(s, n))'
<1>0. PICK k : k = after_matches(s, n)
  OBVIOUS
<1>1. /\ SameOfFiles(k, n) /\ k.has = n.has \cup {"workload"} /\ k.guarded = n.guarded
      /\ (k.clean => n.clean) /\ (k.firm => n.firm /\ s.file \in n.solid)
      /\ (k.touched => n.touched \/ s.file \in n.solid) /\ ~k.summing
      /\ (k.legible => n.legible) /\ ~k.echo /\ k.opened = n.opened
  BY <1>0, AfterMatches
<1>2. PICK C : C = disk["workload"].from /\ made' = made \cup C
  OBVIOUS
<1>3. "workload" \in ReportSources /\ "workload" \in ReportFiles
  BY ReportNames
<1>4. PICK x \in Nat : disk["workload"] = file(only(x)) /\ C = only(x)
  BY <1>2, TheWorkload DEF ReportBase
<1>5. /\ \A v \in C : v = <<v[1], v[2]>> /\ v[1] = "workload"
      /\ UpTo(C)
      /\ on(C, {"workload"}) # {} /\ C \subseteq replayed /\ of_workload(C) = C
  <2>1. UpTo(C)
    BY <1>2, <1>3 DEF ReportBase, Latest
  <2>2. on(C, {"workload"}) = C /\ C # {}
    BY <1>4 DEF only, on
  <2>3. C \subseteq replayed
    BY <1>2, <1>3 DEF replayed
  <2>4. \A v \in C : v = <<v[1], v[2]>> /\ v[1] = "workload"
    BY <1>4 DEF only
  <2> QED BY <2>1, <2>2, <2>3, <2>4 DEF of_workload
<1>6. MadeAt(n) /\ SteadyAt(n) /\ DOMAIN held \subseteq n.guarded
      /\ DOMAIN snapshot \subseteq {"results", "glamsterdam"}
  BY DEF ReportAt
<1>7. MadeAt(k)'
  <2>1. UpTo(made)'
    BY <1>2, <1>5, <1>6, WorkloadRows DEF UpTo, SameReport, MadeAt
  <2>2. \A y \in k.has : on(made', {y}) # {}
    BY <1>1, <1>2, <1>5, <1>6 DEF MadeAt, on
  <2>3. k.legible => \A v \in made' : v[1] \in ReportSources
    BY <1>1, <1>2, <1>3, <1>5, <1>6 DEF MadeAt
  <2>4. \A v \in made' : v = <<v[1], v[2]>>
    BY <1>2, <1>5, <1>6 DEF MadeAt
  <2> QED BY <1>1, <2>1, <2>2, <2>3, <2>4 DEF MadeAt
<1>8. WorkloadAt(k)'
  <2>1. ASSUME NEW w \in Nat, OpenedOn(n, w)
        PROVE  /\ k.firm => of_workload(made') \subseteq only(w)
               /\ k.touched => <<"workload", w>> \in made'
    <3>1. s.file \in n.solid => C = only(w)
      BY <1>2, <1>5, <2>1 DEF OpenedOn
    <3>2. (n.firm => of_workload(made) \subseteq only(w)) /\ (n.touched => <<"workload", w>> \in made)
      BY <2>1 DEF OpenedOn
    <3>3. <<"workload", w>> \in only(w)
      BY DEF only
    <3> QED BY <1>1, <1>2, <3>1, <3>2, <3>3, WorkloadRows
  <2>2. k.opened = n.opened /\ k.solid = n.solid
    BY <1>1 DEF SameOfFiles
  <2>3. n.opened
    BY DEF ReportNeeds
  <2> QED BY <2>1, <2>2, <2>3, StillOpened
<1>9. ReportAt(k)'
  <2>1. steady /\ k.clean => made' \subseteq replayed
    BY <1>1, <1>2, <1>5, <1>6 DEF SteadyAt
  <2>2. /\ DOMAIN held' \subseteq k.guarded
        /\ (steady => \A f \in DOMAIN held' : held'[f] = disk[f])
    BY <1>1, <1>6 DEF SteadyAt
  <2>3. DOMAIN snapshot' \subseteq {"results", "glamsterdam"}
        /\ (steady => \A y \in DOMAIN snapshot' : snapshot'[y] = disk[y])
    BY <1>6 DEF SteadyAt
  <2> QED BY <1>1, <1>7, <1>8, <2>1, <2>2, <2>3, MemoryChanges
<1> QED BY <1>0, <1>9, ReportSame

\* A notebook begins and looks at the upstream tables.
LEMMA SnapshotKeeps ==
  ASSUME ReportBase, NEW n, ReportAt(n), NoteNames(n), SameReport, steady' = steady,
         made' = {}, held' = <<>>, snapshot' = [x \in {"results", "glamsterdam"} |-> disk[x]]
  PROVE  ReportBase' /\ ReportAt(after_snapshot(n))'
<1>0. PICK k : k = after_snapshot(n)
  OBVIOUS
<1>1. /\ SameOfFiles(k, n) /\ k.has = {} /\ k.guarded = {} /\ ~k.touched
      /\ ~k.summing /\ ~k.echo /\ k.opened = n.opened
  BY <1>0, AfterSnapshot
<1>2. MadeAt(k)'
  <2>1. UpTo(made)'
    BY DEF UpTo, of_workload, on
  <2> QED BY <1>1, <2>1 DEF MadeAt
<1>3. of_workload(made') = {}
  BY DEF of_workload, on
<1>4. WorkloadAt(k)'
  <2>1. k.opened = n.opened /\ k.solid = n.solid
    BY <1>1 DEF SameOfFiles
  <2> QED BY <1>1, <1>3, <2>1, StillOpened
<1>5. ReportAt(k)'
  <2>1. DOMAIN held' = {}
    OBVIOUS
  <2> QED BY <1>1, <1>2, <1>4, <2>1, MemoryChanges
<1> QED BY <1>0, <1>5, ReportSame

\* A surface is computed from the tables of the factorial on its workload.
LEMMA CacheKeeps ==
  ASSUME ReportBase, NEW n, ReportAt(n), NoteNames(n), NEW m, CacheNote(n, m),
         disk["workload"].from = disk["factorial_manifest"].from,
         SameReport, steady' = steady, made' = contents({"scenarios", "paths", "quantities", "workload"}),
         held' = held, snapshot' = snapshot
  PROVE  ReportBase' /\ ReportAt(after_cache(n))'
<1>0. PICK k : k = after_cache(n)
  OBVIOUS
<1>1. /\ SameOfFiles(k, n) /\ k.has = has_of("surface") /\ k.guarded = n.guarded
      /\ ~k.summing /\ ~k.echo /\ k.opened = n.opened
  BY <1>0, AfterCache
<1>2. PICK N : N = {"scenarios", "paths", "quantities", "workload"}
  OBVIOUS
<1>3. PICK C : C = contents(N) /\ made' = C
  BY <1>2
<1>4. /\ n.opened /\ {"scenarios", "paths", "factorial_manifest"} \subseteq n.solid \cap n.sure \cap n.sound
      /\ "by_rate" \in n.sure \cap n.sound
  BY DEF CacheNote, relied
<1>5. Behind(N) \subseteq {"scenarios", "paths", "by_rate", "workload"} /\ N \subseteq ReadNames
  <2>1. /\ behind("scenarios") = "scenarios" /\ behind("paths") = "paths"
        /\ behind("quantities") = "by_rate" /\ behind("workload") = "workload"
    BY DEF behind
  <2>2. N \subseteq ReadNames
    BY <1>2, ReportNames DEF ReadNames
  <2> QED BY <1>2, <2>1, <2>2 DEF Behind
<1>6. ReadIn(N, n) /\ CleanReads(N, n) /\ LegibleReads(N, n)
  <2>1. \A f \in n.sure : exists(f)
    BY DEF ReportAt, FilesAt, whole, exists
  <2>2. exists("workload") /\ "workload" \in ReportSources
    BY ReportNames, SourcesThere DEF ReportBase
  <2>3. "baseline_anchor" \notin N
    BY <1>2
  <2> QED BY <1>4, <1>5, <2>1, <2>2, <2>3 DEF ReadIn, CleanReads, LegibleReads
<1>7. /\ \A v \in C : v = <<v[1], v[2]>>
      /\ UpTo(C)
      /\ \A x \in has_all(N) : on(C, {x}) # {}
      /\ (\A v \in C : v[1] \in ReportSources)
      /\ (steady => C \subseteq replayed)
  BY <1>3, <1>6, ReadKnown
<1>8. has_of("surface") \subseteq has_all(N)
  <2>1. has_of("surface") = has_of("scenarios")
    BY DEF has_of, ReportSources, Bare, Manifests
  <2> QED BY <1>2, <2>1 DEF has_all
<1>9. MadeAt(k)'
  <2>1. UpTo(made)'
    BY <1>3, <1>7 DEF UpTo, SameReport
  <2> QED BY <1>1, <1>3, <1>7, <1>8, <2>1 DEF MadeAt
<1>10. ASSUME NEW w \in Nat, OpenedOn(n, w)
       PROVE  of_workload(made') \subseteq only(w) /\ <<"workload", w>> \in made'
  <2>1. /\ of_workload(disk["scenarios"].from) = only(w) /\ of_workload(disk["paths"].from) = only(w)
        /\ of_workload(disk["workload"].from) = only(w)
    BY <1>4, <1>10 DEF OpenedOn
  <2>2. /\ content("scenarios") = disk["scenarios"].from /\ content("paths") = disk["paths"].from
        /\ content("workload") = disk["workload"].from
        /\ content("quantities") = on(disk["by_rate"].from, {"glamsterdam"})
    BY RateContent, ReportContent, ReportNames
  <2>3. of_workload(content("quantities")) = {}
    BY <2>2 DEF of_workload, on
  <2>4. \A x \in N : of_workload(content(x)) \subseteq only(w)
    BY <1>2, <2>1, <2>2, <2>3
  <2>5. <<"workload", w>> \in content("scenarios")
    BY <2>1, <2>2, WorkloadRows DEF only
  <2> QED BY <1>2, <1>3, <2>4, <2>5, RowOf, WorkloadRows
<1>11. WorkloadAt(k)'
  <2>1. k.opened = n.opened /\ k.solid = n.solid
    BY <1>1 DEF SameOfFiles
  <2> QED BY <1>4, <1>10, <2>1, StillOpened
<1>12. ReportAt(k)'
  <2>1. /\ SteadyAt(n) /\ DOMAIN held \subseteq n.guarded
        /\ DOMAIN snapshot \subseteq {"results", "glamsterdam"}
    BY DEF ReportAt
  <2>2. /\ DOMAIN held' \subseteq k.guarded
        /\ (steady => \A f \in DOMAIN held' : held'[f] = disk[f])
    BY <1>1, <2>1 DEF SteadyAt
  <2>3. DOMAIN snapshot' \subseteq {"results", "glamsterdam"}
        /\ (steady => \A y \in DOMAIN snapshot' : snapshot'[y] = disk[y])
    BY <2>1 DEF SteadyAt
  <2> QED BY <1>1, <1>3, <1>7, <1>9, <1>11, <2>2, <2>3, MemoryChanges
<1> QED BY <1>0, <1>12, ReportSame

\* A surface is taken that is on disk with its paths and names the workload of
\* the factorial.
LEMMA CachedKeeps ==
  ASSUME ReportBase, NEW n, ReportAt(n), NoteNames(n), NEW m, CacheNote(n, m), cached,
         on(disk["surface"].from, {"workload"}) = disk["factorial_manifest"].from,
         SameReport, steady' = steady, made' = contents({"surface", "surface_paths"}),
         held' = held, snapshot' = snapshot
  PROVE  ReportBase' /\ ReportAt(after_cached(n))'
<1>0. PICK k : k = after_cached(n)
  OBVIOUS
<1>1. /\ k.sure = n.sure /\ k.there = n.there \cup Surfaces /\ k.sound = n.sound /\ k.solid = n.solid
      /\ k.copies = {} /\ k.anchored = n.anchored /\ k.caught = n.caught
      /\ k.joined = n.joined /\ k.summed = n.summed
      /\ k.has = has_of("surface") /\ k.guarded = n.guarded
      /\ ~k.clean /\ ~k.firm /\ ~k.summing /\ ~k.legible /\ k.opened = n.opened
  BY <1>0, AfterCached
<1>2. {"surface", "surface_paths"} \subseteq ReportFiles /\ {"surface", "surface_paths"} \subseteq ReportTables
  BY ReportNames DEF Surfaces
<1>3. PICK C : C = made' /\ \A v : v \in C <=> v \in disk["surface"].from \/ v \in disk["surface_paths"].from
  BY <1>2, ReportContent, RowOf
<1>4. MadeAt(k)'
  <2>1. UpTo(made)'
    BY <1>2, <1>3, WorkloadRows DEF ReportBase, Latest, UpTo, SameReport
  <2>2. \A x \in has_of("surface") : on(disk["surface"].from, {x}) # {}
    BY <1>2 DEF ReportBase, HasOwn, cached
  <2>3. \A x \in k.has : on(made', {x}) # {}
    BY <1>1, <1>3, <2>2 DEF on
  <2>4. \A v \in made' : v = <<v[1], v[2]>>
    BY <1>2, <1>3 DEF ReportBase, ReportDisk
  <2>5. made' \subseteq disk["surface"].from \cup disk["surface_paths"].from
    BY <1>3
  <2> QED BY <1>1, <2>1, <2>3, <2>4, <2>5 DEF MadeAt, SameReport
<1>5. FilesAt(k)'
  <2>1. \A f \in Surfaces : exists(f)
    BY DEF cached, Surfaces
  <2> QED BY <1>1, <2>1 DEF ReportAt, FilesAt, SameReport, whole, exists
<1>6. SteadyAt(k)'
  <2>1. replayed' = replayed
    BY DEF SameReport, replayed
  <2> QED BY <1>1, <2>1 DEF ReportAt, SteadyAt, SameReport
<1>7. WorkloadAt(k)'
  <2>1. n.opened /\ "factorial_manifest" \in n.solid
    BY DEF CacheNote
  <2>2. ASSUME NEW w \in Nat, OpenedOn(n, w) PROVE <<"workload", w>> \in made'
    <3>1. of_workload(disk["factorial_manifest"].from) = only(w)
      BY <2>1, <2>2 DEF OpenedOn
    <3>2. <<"workload", w>> \in disk["factorial_manifest"].from
      BY <3>1, WorkloadRows DEF only
    <3>3. <<"workload", w>> \in disk["surface"].from
      BY <3>2 DEF on
    <3> QED BY <1>3, <3>3
  <2> QED BY <1>1, <2>1, <2>2, StillOpened
<1> QED BY <1>0, <1>1, <1>4, <1>5, <1>6, <1>7, ReportSame DEF ReportAt

\* After files were inspected.
LEMMA AfterInspect ==
  ASSUME NEW s, NEW n, NoteNames(n), NEW k, k = after_inspect(s, n)
  PROVE  /\ k.sure = n.sure /\ k.there = n.there \cup s.files /\ k.sound = n.sound /\ k.solid = n.solid
         /\ k.copies = n.copies /\ k.anchored = n.anchored /\ k.caught = n.caught
         /\ k.joined = n.joined /\ k.summed = n.summed
         /\ k.has = n.has /\ k.guarded = n.guarded /\ k.clean = n.clean /\ k.firm = n.firm
         /\ k.touched = n.touched /\ k.summing = n.summing /\ k.echo = n.echo /\ k.opened = n.opened
         /\ (k.legible => n.legible \/ (n.echo /\ Surfaces \subseteq s.counted))
<1>1. DOMAIN n = Aspects
  BY DEF NoteNames
<1>2. /\ k.sure = n.sure /\ k.there = n.there \cup s.files /\ k.sound = n.sound /\ k.solid = n.solid
      /\ k.copies = n.copies /\ k.anchored = n.anchored /\ k.caught = n.caught
      /\ k.joined = n.joined /\ k.summed = n.summed
  BY <1>1, AspectNames DEF after_inspect
<1>3. /\ k.has = n.has /\ k.guarded = n.guarded /\ k.clean = n.clean /\ k.firm = n.firm
      /\ k.touched = n.touched /\ k.summing = n.summing /\ k.echo = n.echo /\ k.opened = n.opened
  BY <1>1, AspectNames DEF after_inspect
<1>4. k.legible => n.legible \/ (n.echo /\ Surfaces \subseteq s.counted)
  BY <1>1, AspectNames DEF after_inspect
<1> QED BY <1>2, <1>3, <1>4

\* After manifests were compared.
LEMMA AfterManifests ==
  ASSUME NEW s, NEW n, NoteNames(n), NEW k, k = after_manifests(s, n)
  PROVE  /\ k.sure = n.sure /\ k.there = n.there /\ k.sound = n.sound /\ k.solid = n.solid
         /\ k.copies = n.copies /\ k.anchored = n.anchored /\ k.caught = n.caught
         /\ k.summed = n.summed
         /\ k.has = n.has /\ k.guarded = n.guarded /\ k.clean = n.clean /\ k.firm = n.firm
         /\ k.touched = n.touched /\ k.summing = n.summing /\ k.echo = n.echo /\ k.opened = n.opened
         /\ k.legible = n.legible
         /\ (k.joined => n.joined \/ (s.files = Manifests /\ s.file = "factorial_manifest"))
<1>1. DOMAIN n = Aspects
  BY DEF NoteNames
<1>2. /\ k.sure = n.sure /\ k.there = n.there /\ k.sound = n.sound /\ k.solid = n.solid
      /\ k.copies = n.copies /\ k.anchored = n.anchored /\ k.caught = n.caught
      /\ k.summed = n.summed
  BY <1>1, AspectNames DEF after_manifests
<1>3. /\ k.has = n.has /\ k.guarded = n.guarded /\ k.clean = n.clean /\ k.firm = n.firm
      /\ k.touched = n.touched /\ k.summing = n.summing /\ k.echo = n.echo /\ k.opened = n.opened
      /\ k.legible = n.legible
  BY <1>1, AspectNames DEF after_manifests
<1>4. k.joined => n.joined \/ (s.files = Manifests /\ s.file = "factorial_manifest")
  BY <1>1, AspectNames DEF after_manifests
<1> QED BY <1>2, <1>3, <1>4

\* After what was computed was compared with an earlier table.
LEMMA AfterReproduce ==
  ASSUME NEW s, NEW n, NoteNames(n), NEW k, k = after_reproduce(s, n)
  PROVE  /\ k.sure = n.sure /\ k.there = n.there /\ k.copies = n.copies /\ k.anchored = n.anchored
         /\ k.joined = n.joined /\ k.summed = n.summed
         /\ k.has = n.has /\ k.guarded = n.guarded /\ k.touched = n.touched /\ k.summing = n.summing
         /\ k.echo = n.echo /\ k.opened = n.opened /\ k.legible = n.legible
         /\ (k.caught => n.caught \/ (s.file = "results" /\ n.touched /\ n.opened /\ "workload" \in s.of))
         /\ (k.firm => n.firm \/ Settles(s, n)) /\ (k.clean => n.clean \/ Anchors(s, n))
         /\ ((Settles(s, n) /\ n.touched) \/ k.solid = n.solid) /\ k.solid \subseteq n.solid \cup n.copies
         /\ (Anchors(s, n) \/ k.sound = n.sound) /\ k.sound \subseteq n.sound \cup n.copies
<1>1. DOMAIN n = Aspects
  BY DEF NoteNames
<1>2. /\ k.sure = n.sure /\ k.there = n.there /\ k.copies = n.copies /\ k.anchored = n.anchored
      /\ k.joined = n.joined /\ k.summed = n.summed
  BY <1>1, AspectNames DEF after_reproduce
<1>3. /\ k.has = n.has /\ k.guarded = n.guarded /\ k.touched = n.touched /\ k.summing = n.summing
      /\ k.echo = n.echo /\ k.opened = n.opened /\ k.legible = n.legible
  BY <1>1, AspectNames DEF after_reproduce
<1>4. /\ (k.caught => n.caught \/ (s.file = "results" /\ n.touched /\ n.opened /\ "workload" \in s.of))
      /\ (k.firm => n.firm \/ Settles(s, n)) /\ (k.clean => n.clean \/ Anchors(s, n))
  BY <1>1, AspectNames DEF after_reproduce
<1>5. k.solid = n.solid \cup IF Settles(s, n) /\ n.touched THEN n.copies ELSE {}
  BY <1>1, AspectNames DEF after_reproduce
<1>6. k.sound = n.sound \cup IF Anchors(s, n) THEN n.copies ELSE {}
  BY <1>1, AspectNames DEF after_reproduce
<1> QED BY <1>2, <1>3, <1>4, <1>5, <1>6

-----------------------------------------------------------------------------
(* Steps that look at what is on disk.                                     *)

\* Files that were looked at are there; a surface that is whole has no cut row.
LEMMA InspectKeeps ==
  ASSUME ReportBase, NEW n, ReportAt(n), NoteNames(n), SameReport, SameMemory, NEW s,
         \A f \in s.files : exists(f), \A f \in s.counted : whole(f)
  PROVE  ReportBase' /\ ReportAt(after_inspect(s, n))'
<1>0. PICK k : k = after_inspect(s, n)
  OBVIOUS
<1>1. /\ k.sure = n.sure /\ k.there = n.there \cup s.files /\ k.sound = n.sound /\ k.solid = n.solid
      /\ k.copies = n.copies /\ k.anchored = n.anchored /\ k.caught = n.caught
      /\ k.joined = n.joined /\ k.summed = n.summed
      /\ k.has = n.has /\ k.guarded = n.guarded /\ k.clean = n.clean /\ k.firm = n.firm
      /\ k.touched = n.touched /\ k.summing = n.summing /\ k.echo = n.echo /\ k.opened = n.opened
      /\ (k.legible => n.legible \/ (n.echo /\ Surfaces \subseteq s.counted))
  BY <1>0, AfterInspect
<1>2. MadeAt(k)
  <2>1. ASSUME n.echo, Surfaces \subseteq s.counted, NEW v \in made PROVE v[1] \in ReportSources
    <3>1. PICK f \in {"surface", "surface_paths"} : v \in disk[f].from
      BY <2>1 DEF ReportAt, MadeAt
    <3>2. whole(f) /\ f \in ReportTables \ {"summary"}
      BY <2>1, ReportNames DEF Surfaces
    <3> QED BY <3>1, <3>2 DEF ReportBase, Legible
  <2> QED BY <1>1, <2>1 DEF ReportAt, MadeAt
<1>3. FilesAt(k)
  BY <1>1 DEF ReportAt, FilesAt
<1>4. SteadyAt(k)
  BY <1>1 DEF ReportAt, SteadyAt
<1>5. \A w : OpenedOn(n, w) => OpenedOn(k, w)
  BY <1>1 DEF OpenedOn
<1>6. WorkloadAt(k)
  BY <1>1, <1>5 DEF ReportAt, WorkloadAt
<1>7. ReportAt(k)
  BY <1>1, <1>2, <1>3, <1>4, <1>6 DEF ReportAt
<1> QED BY <1>0, <1>7, QuietAt, ReportSame

\* Manifests that were compared name one workload.
LEMMA ManifestsKeeps ==
  ASSUME ReportBase, NEW n, ReportAt(n), NoteNames(n), SameReport, SameMemory, NEW s,
         \A f \in s.files : disk[f] = file(disk[s.file].from)
  PROVE  ReportBase' /\ ReportAt(after_manifests(s, n))'
<1>0. PICK k : k = after_manifests(s, n)
  OBVIOUS
<1>1. /\ k.sure = n.sure /\ k.there = n.there /\ k.sound = n.sound /\ k.solid = n.solid
      /\ k.copies = n.copies /\ k.anchored = n.anchored /\ k.caught = n.caught
      /\ k.summed = n.summed
      /\ k.has = n.has /\ k.guarded = n.guarded /\ k.clean = n.clean /\ k.firm = n.firm
      /\ k.touched = n.touched /\ k.summing = n.summing /\ k.echo = n.echo /\ k.opened = n.opened
      /\ k.legible = n.legible
      /\ (k.joined => n.joined \/ (s.files = Manifests /\ s.file = "factorial_manifest"))
  BY <1>0, AfterManifests
<1>2. MadeAt(k)
  BY <1>1 DEF ReportAt, MadeAt
<1>3. FilesAt(k)
  BY <1>1 DEF ReportAt, FilesAt
<1>4. SteadyAt(k)
  BY <1>1 DEF ReportAt, SteadyAt
<1>5. \A w : OpenedOn(n, w) => OpenedOn(k, w)
  BY <1>1 DEF OpenedOn
<1>6. WorkloadAt(k)
  BY <1>1, <1>5 DEF ReportAt, WorkloadAt
<1>7. ReportAt(k)
  BY <1>1, <1>2, <1>3, <1>4, <1>6 DEF ReportAt
<1> QED BY <1>0, <1>7, QuietAt, ReportSame

\* The workload of the results, and that of a table of the factorial's.
LEMMA SettlesOne ==
  ASSUME ReportBase, NEW n, NEW w, OpenedOn(n, w), NEW s, Settles(s, n),
         NEW C, made \subseteq C, agree(on(C, s.of), disk[s.file].from)
  PROVE  of_workload(made) \subseteq only(w)
<1>1. "workload" \in s.of /\ (s.file \in n.solid \/ (s.file = "results" /\ n.touched))
  BY DEF Settles
<1>2. \A v \in of_workload(made) : v \in on(C, s.of) /\ v[1] = "workload"
  BY <1>1 DEF of_workload, on
<1>3. <<"workload", w>> \in disk[s.file].from
  <2>1. CASE s.file \in n.solid
    <3>1. <<"workload", w>> \in of_workload(disk[s.file].from)
      BY <2>1 DEF OpenedOn, only
    <3> QED BY <3>1, WorkloadRows
  <2>2. CASE s.file = "results" /\ n.touched
    <3>1. PICK x, y \in Nat : disk["results"] = file({<<"results", x>>, <<"workload", y>>})
      BY DEF ReportBase, ReportDisk
    <3>2. <<"workload", y>> \in disk[s.file].from
      BY <2>2, <3>1 DEF file
    <3>3. <<"workload", w>> \in on(C, s.of)
      BY <1>1, <2>2 DEF OpenedOn, on
    <3>4. <<"workload", w>> = <<"workload", y>>
      BY <3>2, <3>3 DEF agree
    <3> QED BY <3>2, <3>4
  <2> QED BY <1>1, <2>1, <2>2
<1>4. ASSUME NEW v \in of_workload(made) PROVE v = <<"workload", w>>
  BY <1>2, <1>3 DEF agree
<1> QED BY <1>4 DEF only

\* Results that agree with the workload replay it.
LEMMA CaughtUp ==
  ASSUME ReportBase, NEW n, ReportAt(n), NEW s, s.file = "results", n.touched, n.opened,
         "workload" \in s.of, steady, NEW C, made \subseteq C, agree(on(C, s.of), disk[s.file].from)
  PROVE  \A v \in disk["results"].from : v[1] = "workload" => v \in disk["workload"].from
<1>1. PICK w \in Nat : OpenedOn(n, w)
  BY DEF ReportAt, WorkloadAt
<1>2. <<"workload", w>> \in made /\ disk["workload"] = file(only(w))
  BY <1>1 DEF OpenedOn
<1>3. <<"workload", w>> \in on(C, s.of)
  BY <1>2 DEF on
<1>4. <<"workload", w>> \in disk["workload"].from
  BY <1>2 DEF file, only
<1> QED BY <1>3, <1>4 DEF agree

\* What agrees with rows of every source has no others.
LEMMA AnchorsSound ==
  ASSUME ReportBase, NEW n, ReportAt(n), NoteNames(n), NEW s, NEW m, ReproduceNote(s, n, m),
         Anchors(s, n), steady, NEW C, made \subseteq C, agree(on(C, s.of), disk[s.file].from)
  PROVE  made \subseteq replayed
<1>1. /\ s.of = ReportSources /\ n.legible /\ s.file \in n.sound /\ has_of(s.file) = ReportSources
  BY DEF Anchors
<1>2. s.file \in ReportTables /\ disk[s.file].from \subseteq replayed
  BY <1>1 DEF NoteNames, ReportAt, SteadyAt
<1>3. exists(s.file)
  <2>1. s.file \in n.sure
    BY <1>2, ReportNames DEF ReproduceNote, relied
  <2> QED BY <2>1 DEF ReportAt, FilesAt, whole, exists
<1>4. ASSUME NEW v \in made PROVE v \in replayed
  <2>1. v[1] \in ReportSources
    BY <1>1 DEF ReportAt, MadeAt
  <2>2. PICK u : u \in on(disk[s.file].from, {v[1]})
    BY <1>1, <1>2, <1>3, <2>1 DEF ReportBase, HasOwn
  <2>3. u \in disk[s.file].from /\ u[1] = v[1] /\ v \in on(C, s.of)
    BY <1>1, <2>1, <2>2 DEF on
  <2>4. u = v
    BY <2>3 DEF agree
  <2> QED BY <1>2, <2>3, <2>4
<1> QED BY <1>4

\* What was computed here agrees with an earlier table.
LEMMA ReproduceKeeps ==
  ASSUME ReportBase, NEW n, ReportAt(n), NoteNames(n), SameReport, SameMemory,
         NEW s, NEW m, ReproduceNote(s, n, m),
         agree(on(made \cup contents(s.reads), s.of), disk[s.file].from)
  PROVE  ReportBase' /\ ReportAt(after_reproduce(s, n))'
<1>0. PICK k : k = after_reproduce(s, n)
  OBVIOUS
<1>1. /\ k.sure = n.sure /\ k.there = n.there /\ k.copies = n.copies /\ k.anchored = n.anchored
      /\ k.joined = n.joined /\ k.summed = n.summed
      /\ k.has = n.has /\ k.guarded = n.guarded /\ k.touched = n.touched /\ k.summing = n.summing
      /\ k.echo = n.echo /\ k.opened = n.opened /\ k.legible = n.legible
      /\ (k.caught => n.caught \/ (s.file = "results" /\ n.touched /\ n.opened /\ "workload" \in s.of))
      /\ (k.firm => n.firm \/ Settles(s, n)) /\ (k.clean => n.clean \/ Anchors(s, n))
      /\ ((Settles(s, n) /\ n.touched) \/ k.solid = n.solid) /\ k.solid \subseteq n.solid \cup n.copies
      /\ (Anchors(s, n) \/ k.sound = n.sound) /\ k.sound \subseteq n.sound \cup n.copies
  BY <1>0, AfterReproduce
<1>2. PICK C : C = made \cup contents(s.reads)
  OBVIOUS
<1>3. made \subseteq C /\ agree(on(C, s.of), disk[s.file].from)
  BY <1>2
<1>4. \A f \in n.copies : disk[f] = file(made) /\ disk[f].from = made
  BY DEF ReportAt, FilesAt, file
<1>5. MadeAt(k)
  BY <1>1 DEF ReportAt, MadeAt
<1>6. FilesAt(k)
  BY <1>1 DEF ReportAt, FilesAt
<1>7. SteadyAt(k)
  <2>1. SteadyAt(n)
    BY DEF ReportAt
  <2>2. steady /\ Anchors(s, n) => made \subseteq replayed
    BY <1>3, AnchorsSound
  <2>3. steady => (k.clean => made \subseteq replayed)
    BY <1>1, <2>1, <2>2 DEF SteadyAt
  <2>4. steady => \A f \in k.sound : disk[f].from \subseteq replayed
    BY <1>1, <1>4, <2>1, <2>2 DEF SteadyAt
  <2>5. steady => (k.caught => \A v \in disk["results"].from : v[1] = "workload" => v \in disk["workload"].from)
    <3>1. ASSUME steady, s.file = "results", n.touched, n.opened, "workload" \in s.of
          PROVE  \A v \in disk["results"].from : v[1] = "workload" => v \in disk["workload"].from
      BY <1>3, <3>1, CaughtUp
    <3> QED BY <1>1, <2>1, <3>1 DEF SteadyAt
  <2> QED BY <2>1, <2>3, <2>4, <2>5 DEF SteadyAt
<1>8. WorkloadAt(k)
  <2>1. CASE n.opened
    <3>1. PICK w \in Nat : OpenedOn(n, w)
      BY <2>1 DEF ReportAt, WorkloadAt
    <3>2. Settles(s, n) => of_workload(made) \subseteq only(w)
      BY <1>3, <3>1, SettlesOne
    <3>3. Settles(s, n) /\ n.touched => of_workload(made) = only(w)
      <4>1. n.touched => <<"workload", w>> \in of_workload(made)
        BY <3>1, WorkloadRows DEF OpenedOn
      <4> QED BY <3>2, <4>1 DEF only
    <3>4. \A f \in k.solid : of_workload(disk[f].from) = only(w)
      BY <1>1, <1>4, <3>1, <3>3 DEF OpenedOn
    <3>5. k.firm => of_workload(made) \subseteq only(w)
      BY <1>1, <3>1, <3>2 DEF OpenedOn
    <3>6. OpenedOn(k, w)
      BY <1>1, <3>1, <3>4, <3>5 DEF OpenedOn
    <3> QED BY <1>1, <2>1, <3>6 DEF WorkloadAt
  <2>2. CASE ~n.opened
    <3>1. ~Settles(s, n)
      BY <2>2 DEF Settles
    <3> QED BY <1>1, <2>2, <3>1 DEF ReportAt, WorkloadAt
  <2> QED BY <2>1, <2>2
<1>9. ReportAt(k)
  BY <1>1, <1>5, <1>6, <1>7, <1>8 DEF ReportAt
<1> QED BY <1>0, <1>9, QuietAt, ReportSame

-----------------------------------------------------------------------------
(* Steps that write.                                                       *)

\* The file x can be the table f: what is asked of it alone, and with the
\* manifests or the tables it is compared with.
AloneFits(f, x) ==
  /\ x = [is |-> x.is, from |-> x.from] /\ x.is \in {"torn", "whole"}
  /\ \A v \in x.from : v = <<v[1], v[2]>>
  /\ UpTo(x.from)
  /\ \A s \in has_of(f) : on(x.from, {s}) # {}
  /\ f # "summary" /\ x.is = "whole" => \A v \in x.from : v[1] \in ReportSources
  /\ f \in Manifests /\ x.is = "whole" => x.from # {} /\ \A v \in x.from : v[1] = "workload"
  /\ f = "factorial_manifest" /\ x.is = "whole" => \E w \in Nat : x.from = only(w)
  /\ f \in Bare => of_workload(x.from) = {}
VouchedFits(f, x) == \A v \in of_workload(x.from) :
  /\ \A g \in DOMAIN vouched_by : \A w \in Nat : disk[g] = file(only(w)) /\ f \in vouched_by[g] => w <= v[2]
  /\ \A w \in Nat : disk["factorial_manifest"] = file(only(w)) /\ f \in Vouched => v[2] <= w
ManifestFits(f, x) == \A w \in Nat : x = file(only(w)) =>
  /\ f \in DOMAIN vouched_by => \A h \in vouched_by[f] : \A v \in of_workload(disk[h].from) : w <= v[2]
  /\ f = "factorial_manifest" => \A h \in Vouched : \A v \in of_workload(disk[h].from) : v[2] <= w
Fits(f, x) == AloneFits(f, x) /\ VouchedFits(f, x) /\ ManifestFits(f, x)

\* One table changes.
LEMMA TableChanged ==
  ASSUME ReportBase, NEW f \in ReportTables, NEW x, Becomes(f, x)
  PROVE  /\ DOMAIN disk' = ReportFiles /\ disk'[f] = x
         /\ \A g \in ReportFiles \ {f} : disk'[g] = disk[g]
         /\ \A s \in ReportSources : disk'[s] = disk[s]
BY ReportNames DEF ReportBase, ReportDisk, Becomes

\* The base over a table that fits.
LEMMA BaseOfFitting ==
  ASSUME ReportBase, NEW f \in ReportTables, NEW x, Becomes(f, x), Fits(f, x),
         changes' = changes, anchor_rate' \in {64, 96}
  PROVE  ReportBase'
<1>1. /\ DOMAIN disk' = ReportFiles /\ disk'[f] = x
      /\ \A g \in ReportFiles \ {f} : disk'[g] = disk[g]
      /\ \A s \in ReportSources : disk'[s] = disk[s]
  BY TableChanged
<1>2. AloneFits(f, x) /\ f \in ReportFiles /\ f \notin ReportSources
  BY ReportNames DEF Fits
<1>3. ReportDisk'
  <2>1. \A g \in ReportFiles :
          /\ disk'[g] = [is |-> disk'[g].is, from |-> disk'[g].from]
          /\ disk'[g].is \in {"none", "torn", "whole"}
          /\ disk'[g].is = "none" => disk'[g].from = {}
          /\ \A v \in disk'[g].from : v = <<v[1], v[2]>>
    <3> TAKE g \in ReportFiles
    <3>1. CASE g = f
      BY <1>1, <1>2, <3>1 DEF AloneFits
    <3>2. CASE g # f
      BY <1>1, <3>2 DEF ReportBase, ReportDisk
    <3> QED BY <3>1, <3>2
  <2>2. \A s \in ReportSources \ {"results"} : \E v \in Nat : disk'[s] = file({<<s, v>>})
    BY <1>1 DEF ReportBase, ReportDisk
  <2>3. \E v, w \in Nat : disk'["results"] = file({<<"results", v>>, <<"workload", w>>})
    <3>1. disk'["results"] = disk["results"]
      BY <1>1, ReportNames
    <3>2. PICK v, w \in Nat : disk["results"] = file({<<"results", v>>, <<"workload", w>>})
      BY DEF ReportBase, ReportDisk
    <3> WITNESS v \in Nat, w \in Nat
    <3> QED BY <3>1, <3>2
  <2> QED BY <1>1, <2>1, <2>2, <2>3 DEF ReportDisk
<1>4. Latest'
  <2>1. disk'["workload"] = disk["workload"]
    BY <1>1, ReportNames
  <2>2. \A g \in ReportFiles : UpTo(disk[g].from) /\ UpTo(x.from)
    BY <1>2 DEF ReportBase, Latest, AloneFits
  <2>3. \A g \in ReportFiles : disk'[g] = disk[g] \/ disk'[g] = x
    BY <1>1
  <2>4. \A g \in ReportFiles : \A v \in of_workload(disk'[g].from) :
          v[2] \in Nat /\ \A u \in disk["workload"].from : v[2] <= u[2]
    BY <2>2, <2>3 DEF UpTo
  <2> QED BY <2>1, <2>4 DEF ReportBase, Latest, UpTo
<1>5. HasOwn'
  <2> SUFFICES ASSUME NEW g \in ReportTables, disk'[g].is # "none", NEW s \in has_of(g)
               PROVE  on(disk'[g].from, {s}) # {}
    BY DEF HasOwn, exists
  <2>1. CASE g = f
    BY <1>1, <1>2, <2>1 DEF AloneFits
  <2>2. CASE g # f
    BY <1>1, <2>2, ReportNames DEF ReportBase, HasOwn, exists
  <2> QED BY <2>1, <2>2
<1>6. Legible'
  <2> SUFFICES ASSUME NEW g \in ReportTables \ {"summary"}, disk'[g].is = "whole", NEW v \in disk'[g].from
               PROVE  v[1] \in ReportSources
    BY DEF Legible, whole
  <2>1. CASE g = f
    BY <1>1, <1>2, <2>1 DEF AloneFits
  <2>2. CASE g # f
    BY <1>1, <2>2, ReportNames DEF ReportBase, Legible, whole
  <2> QED BY <2>1, <2>2
<1>7. Recorded'
  <2>1. ASSUME NEW g \in Manifests, disk'[g].is = "whole"
        PROVE  disk'[g].from # {} /\ \A v \in disk'[g].from : v[1] = "workload"
    <3>1. CASE g = f
      BY <1>1, <1>2, <2>1, <3>1 DEF AloneFits
    <3>2. CASE g # f
      BY <1>1, <2>1, <3>2, ReportNames DEF ReportBase, Recorded, whole
    <3> QED BY <3>1, <3>2
  <2>2. ASSUME disk'["factorial_manifest"].is = "whole"
        PROVE  \E w \in Nat : disk'["factorial_manifest"].from = only(w)
    <3>1. CASE "factorial_manifest" = f
      BY <1>1, <1>2, <2>2, <3>1 DEF AloneFits
    <3>2. CASE "factorial_manifest" # f
      <4>1. disk'["factorial_manifest"] = disk["factorial_manifest"]
        BY <1>1, <3>2, ReportNames
      <4> QED BY <2>2, <4>1 DEF ReportBase, Recorded, whole
    <3> QED BY <3>1, <3>2
  <2> QED BY <2>1, <2>2 DEF Recorded, whole
<1>8. BareRows'
  <2> SUFFICES ASSUME NEW g \in Bare PROVE of_workload(disk'[g].from) = {}
    BY DEF BareRows
  <2>1. CASE g = f
    BY <1>1, <1>2, <2>1 DEF AloneFits
  <2>2. CASE g # f
    BY <1>1, <2>2, ReportNames DEF ReportBase, BareRows
  <2> QED BY <2>1, <2>2
<1>9. Vouching'
  <2> SUFFICES ASSUME NEW g \in DOMAIN vouched_by, NEW w \in Nat, disk'[g] = file(only(w)),
                      NEW h \in vouched_by[g], NEW v \in of_workload(disk'[h].from)
               PROVE  w <= v[2]
    BY DEF Vouching
  <2>1. g \in ReportFiles /\ h \in ReportFiles /\ g \in Manifests /\ h \notin Manifests
    BY ReportNames, VouchedNames
  <2>2. CASE g = f
    <3>1. disk'[h] = disk[h] /\ x = file(only(w))
      BY <1>1, <2>1, <2>2
    <3> QED BY <2>2, <3>1 DEF Fits, ManifestFits
  <2>3. CASE h = f
    <3>1. disk[g] = file(only(w)) /\ v \in of_workload(x.from)
      BY <1>1, <2>1, <2>3
    <3> QED BY <2>3, <3>1 DEF Fits, VouchedFits
  <2>4. CASE g # f /\ h # f
    <3>1. disk'[g] = disk[g] /\ disk'[h] = disk[h]
      BY <1>1, <2>1, <2>4
    <3> QED BY <3>1 DEF ReportBase, Vouching
  <2> QED BY <2>2, <2>3, <2>4
<1>10. Bounded'
  <2> SUFFICES ASSUME NEW w \in Nat, disk'["factorial_manifest"] = file(only(w)),
                      NEW h \in Vouched, NEW v \in of_workload(disk'[h].from)
               PROVE  v[2] <= w
    BY DEF Bounded
  <2>1. "factorial_manifest" \in ReportFiles /\ h \in ReportFiles /\ h # "factorial_manifest"
    BY ReportNames
  <2>2. CASE "factorial_manifest" = f
    <3>1. disk'[h] = disk[h] /\ x = file(only(w))
      BY <1>1, <2>1, <2>2
    <3> QED BY <2>2, <3>1 DEF Fits, ManifestFits
  <2>3. CASE h = f
    <3>1. disk["factorial_manifest"] = file(only(w)) /\ v \in of_workload(x.from)
      BY <1>1, <2>1, <2>3
    <3> QED BY <2>3, <3>1 DEF Fits, VouchedFits
  <2>4. CASE "factorial_manifest" # f /\ h # f
    <3>1. disk'["factorial_manifest"] = disk["factorial_manifest"] /\ disk'[h] = disk[h]
      BY <1>1, <2>1, <2>4
    <3> QED BY <3>1 DEF ReportBase, Bounded
  <2> QED BY <2>2, <2>3, <2>4
<1> QED BY <1>3, <1>4, <1>5, <1>6, <1>7, <1>8, <1>9, <1>10 DEF ReportBase

-----------------------------------------------------------------------------
\* What is written for a table that is compared is of a workload between that
\* of its manifest and that of the factorial.
LEMMA VouchedRows ==
  ASSUME ReportBase, NEW n, ReportAt(n), NEW s, WriteNote(s, n), s.file \in Vouched,
         NEW v \in of_workload(made)
  PROVE  /\ \A g \in DOMAIN vouched_by : \A w \in Nat :
              disk[g] = file(only(w)) /\ s.file \in vouched_by[g] => w <= v[2]
         /\ \A w \in Nat : disk["factorial_manifest"] = file(only(w)) => v[2] <= w
         /\ \A w \in Nat : OpenedOn(n, w) => v[2] <= w
<1>1. VouchedNote(s.file, n) /\ v[1] = "workload" /\ v \in made
  BY WorkloadRows DEF WriteNote
<1>2. {"comparison", "normalized", "surface", "surface_paths"} \subseteq Vouched
  BY DEF Vouched
<1>3. CASE s.file = "summary" /\ n.summing
  <2>1. PICK h \in {"comparison", "normalized"} : v \in of_workload(disk[h].from)
    BY <1>1, <1>3, WorkloadRows DEF ReportAt, MadeAt
  <2>2. \A w \in Nat : disk["factorial_manifest"] = file(only(w)) => v[2] <= w
    BY <1>2, <2>1 DEF ReportBase, Bounded
  <2>3. \A w \in Nat : OpenedOn(n, w) => v[2] <= w
    BY <1>2, <2>1 DEF OpenedOn
  <2> QED BY <1>3, <2>2, <2>3, VouchedNames
<1>4. CASE s.file # "summary"
  <2>1. /\ n.opened /\ "factorial_manifest" \in n.solid
        /\ (n.firm /\ n.touched) \/ (n.echo /\ s.file \in Surfaces)
    BY <1>1, <1>4 DEF VouchedNote
  <2>2. ASSUME NEW w \in Nat, OpenedOn(n, w)
        PROVE  /\ v[2] <= w
               /\ \A g \in DOMAIN vouched_by : \A x \in Nat :
                    disk[g] = file(only(x)) /\ s.file \in vouched_by[g] => x <= v[2]
    <3>1. CASE n.firm /\ n.touched
      <4>1. v = <<"workload", w>>
        BY <2>2, <3>1 DEF OpenedOn, only
      <4>2. \A g \in DOMAIN vouched_by : \A x \in Nat : disk[g] = file(only(x)) => x <= w
        BY <2>2, VouchedNames DEF OpenedOn
      <4>3. v[2] = w
        BY <4>1
      <4> QED BY <4>2, <4>3
    <3>2. CASE n.echo /\ s.file \in Surfaces
      <4>1. PICK h \in {"surface", "surface_paths"} : v \in of_workload(disk[h].from)
        BY <1>1, <3>2, WorkloadRows DEF ReportAt, MadeAt
      <4>2. v[2] <= w
        BY <1>2, <2>2, <4>1 DEF OpenedOn
      <4>3. ASSUME NEW g \in DOMAIN vouched_by, NEW x \in Nat, disk[g] = file(only(x)), s.file \in vouched_by[g]
            PROVE  x <= v[2]
        <5>1. h \in vouched_by[g]
          BY <3>2, <4>3, VouchedNames DEF Surfaces
        <5> QED BY <4>1, <4>3, <5>1 DEF ReportBase, Vouching
      <4> QED BY <4>2, <4>3
    <3> QED BY <2>1, <3>1, <3>2
  <2>3. PICK w \in Nat : OpenedOn(n, w)
    BY <2>1 DEF ReportAt, WorkloadAt
  <2>4. ASSUME NEW x \in Nat, disk["factorial_manifest"] = file(only(x)) PROVE v[2] <= x
    <3>1. of_workload(disk["factorial_manifest"].from) = only(w)
      BY <2>1, <2>3 DEF OpenedOn
    <3>2. disk["factorial_manifest"].from = only(x) /\ of_workload(only(x)) = only(x)
      BY <2>4 DEF file, of_workload, only, on
    <3>3. x = w
      BY <3>1, <3>2, OnlyOne
    <3> QED BY <2>2, <2>3, <3>3
  <2> QED BY <2>2, <2>3, <2>4
<1> QED BY <1>1, <1>3, <1>4 DEF VouchedNote

\* What a kill leaves of a table has the workloads of the table.
LEMMA TornRows ==
  ASSUME NEW f \in ReportTables, NEW c
  PROVE  /\ torn(f, c).from = c \cup {<<f, cut_row>>} /\ torn(f, c).is = "torn"
         /\ torn(f, c) = [is |-> "torn", from |-> torn(f, c).from]
         /\ of_workload(torn(f, c).from) = of_workload(c)
<1>1. /\ torn(f, c).from = c \cup {<<f, cut_row>>} /\ torn(f, c).is = "torn"
      /\ torn(f, c) = [is |-> "torn", from |-> torn(f, c).from]
  BY DEF torn, rows
<1>2. f # "workload"
  BY ReportNames
<1>3. \A v : v \in of_workload(torn(f, c).from) <=> v \in of_workload(c)
  BY <1>1, <1>2, WorkloadRows
<1> QED BY <1>1, <1>3

\* A table written from what is in memory fits, torn or not.
LEMMA WriteFits ==
  ASSUME ReportBase, NEW n, ReportAt(n), NEW s, WriteNote(s, n),
         NEW x, x = file(made) \/ x = torn(s.file, made)
  PROVE  Fits(s.file, x)
<1>0. PICK f : f = s.file
  OBVIOUS
<1>1. /\ f \in ReportTables /\ f \notin Manifests /\ has_of(f) \subseteq n.has
      /\ (f # "summary" => n.legible) /\ (f \in Bare => n.firm /\ ~n.opened)
  BY <1>0 DEF WriteNote
<1>2. /\ x = [is |-> x.is, from |-> x.from] /\ x.is \in {"torn", "whole"}
      /\ x.from = made \/ x.from = made \cup {<<f, cut_row>>}
      /\ (x.is = "whole" => x.from = made)
      /\ of_workload(x.from) = of_workload(made)
  <2>1. CASE x = file(made)
    <3>1. x = [is |-> "whole", from |-> made]
      BY <2>1 DEF file
    <3> QED BY <3>1
  <2>2. CASE x = torn(f, made)
    <3>1. /\ x.from = made \cup {<<f, cut_row>>} /\ x.is = "torn" /\ x = [is |-> "torn", from |-> x.from]
          /\ of_workload(x.from) = of_workload(made)
      BY <1>1, <2>2, TornRows
    <3> QED BY <3>1
  <2> QED BY <1>0, <2>1, <2>2
<1>3. MadeAt(n) /\ WorkloadAt(n)
  BY DEF ReportAt
<1>4. AloneFits(f, x)
  <2>1. \A v \in x.from : v = <<v[1], v[2]>>
    BY <1>2, <1>3 DEF MadeAt
  <2>2. UpTo(x.from)
    BY <1>2, <1>3 DEF MadeAt, UpTo
  <2>3. \A y \in has_of(f) : on(x.from, {y}) # {}
    BY <1>1, <1>2, <1>3 DEF MadeAt, on
  <2>4. f # "summary" /\ x.is = "whole" => \A v \in x.from : v[1] \in ReportSources
    BY <1>1, <1>2, <1>3 DEF MadeAt
  <2>5. f \in Bare => of_workload(x.from) = {}
    BY <1>1, <1>2, <1>3 DEF WorkloadAt
  <2> QED BY <1>1, <1>2, <2>1, <2>2, <2>3, <2>4, <2>5, ReportNames DEF AloneFits
<1>5. VouchedFits(f, x)
  <2> SUFFICES ASSUME NEW v \in of_workload(made)
               PROVE  /\ \A g \in DOMAIN vouched_by : \A w \in Nat : disk[g] = file(only(w)) /\ f \in vouched_by[g] => w <= v[2]
                      /\ \A w \in Nat : disk["factorial_manifest"] = file(only(w)) /\ f \in Vouched => v[2] <= w
    BY <1>2 DEF VouchedFits
  <2>1. CASE f \in Vouched
    BY <1>0, <2>1, VouchedRows
  <2>2. CASE f \notin Vouched
    BY <2>2, VouchedNames
  <2> QED BY <2>1, <2>2
<1>6. ManifestFits(f, x)
  BY <1>1, VouchedNames, ReportNames DEF ManifestFits
<1> QED BY <1>0, <1>4, <1>5, <1>6 DEF Fits

\* A manifest fits, torn or not.
LEMMA RecordFits ==
  ASSUME ReportBase, NEW n, ReportAt(n), NEW s, RecordNote(s, n),
         NEW x, x = file(on(made, {"workload"})) \/ x = torn(s.file, {})
  PROVE  Fits(s.file, x)
<1>0. PICK f, c : f = s.file /\ c = of_workload(made)
  OBVIOUS
<1>1. /\ f \in Manifests /\ f \in ReportTables /\ f \notin Bare /\ f \notin Vouched /\ n.opened /\ n.touched
      /\ (f = "factorial_manifest" => n.firm)
      /\ (f \in DOMAIN vouched_by => vouched_by[f] \subseteq n.solid)
  BY <1>0, ReportNames DEF RecordNote
<1>2. PICK w \in Nat : OpenedOn(n, w)
  BY <1>1 DEF ReportAt, WorkloadAt
<1>3. <<"workload", w>> \in c /\ (n.firm => c = only(w))
  <2>1. <<"workload", w>> \in c
    BY <1>0, <1>1, <1>2, WorkloadRows DEF OpenedOn
  <2>2. n.firm => c \subseteq only(w)
    BY <1>0, <1>2 DEF OpenedOn
  <2> QED BY <2>1, <2>2 DEF only
<1>4. \A v \in c : v \in made /\ v[1] = "workload"
  BY <1>0, WorkloadRows
<1>5. \/ x.is = "whole" /\ x.from = c /\ x = [is |-> "whole", from |-> c]
      \/ x.is = "torn" /\ x.from = {<<f, cut_row>>} /\ x = [is |-> "torn", from |-> x.from]
         /\ of_workload(x.from) = {}
  <2>1. CASE x = file(on(made, {"workload"}))
    BY <1>0, <2>1 DEF file, of_workload
  <2>2. CASE x = torn(f, {})
    <3>1. of_workload({}) = {} /\ {} \cup {<<f, cut_row>>} = {<<f, cut_row>>}
      BY DEF of_workload, on
    <3> QED BY <1>1, <2>2, <3>1, TornRows
  <2> QED BY <1>0, <2>1, <2>2
<1>6. has_of(f) = {}
  <2>1. f \notin ReportSources /\ f # "quantities" /\ f \notin Bare \cup {"baseline_anchor"} /\ f # "comparison"
    BY <1>1 DEF Manifests, ReportSources, Bare
  <2> QED BY <1>1, <2>1 DEF has_of
<1>7. AloneFits(f, x)
  <2>1. CASE x.is = "whole" /\ x.from = c /\ x = [is |-> "whole", from |-> c]
    <3>1. UpTo(c) /\ \A v \in c : v = <<v[1], v[2]>>
      BY <1>4, WorkloadRows DEF ReportAt, MadeAt, UpTo
    <3>2. "workload" \in ReportSources /\ c # {}
      BY <1>3, ReportNames
    <3>3. f = "factorial_manifest" => \E y \in Nat : x.from = only(y)
      BY <1>1, <1>3, <2>1
    <3> QED BY <1>1, <1>4, <1>6, <2>1, <3>1, <3>2, <3>3 DEF AloneFits
  <2>2. CASE x.is = "torn" /\ x.from = {<<f, cut_row>>} /\ x = [is |-> "torn", from |-> x.from]
             /\ of_workload(x.from) = {}
    <3>1. UpTo(x.from)
      BY <2>2 DEF UpTo
    <3>2. \A v \in x.from : v = <<v[1], v[2]>>
      BY <2>2
    <3> QED BY <1>1, <1>6, <2>2, <3>1, <3>2 DEF AloneFits
  <2> QED BY <1>5, <2>1, <2>2
<1>8. VouchedFits(f, x)
  BY <1>1, VouchedNames, ReportNames DEF VouchedFits
<1>9. ManifestFits(f, x)
  <2> SUFFICES ASSUME NEW y \in Nat, x = file(only(y))
               PROVE  /\ f \in DOMAIN vouched_by => \A h \in vouched_by[f] : \A v \in of_workload(disk[h].from) : y <= v[2]
                      /\ f = "factorial_manifest" => \A h \in Vouched : \A v \in of_workload(disk[h].from) : v[2] <= y
    BY DEF ManifestFits
  <2>1. x.is = "whole" /\ x.from = only(y)
    BY DEF file
  <2>2. c = only(y)
    BY <1>5, <2>1
  <2>3. y = w
    BY <1>3, <2>2 DEF only
  <2>4. ASSUME f \in DOMAIN vouched_by, NEW h \in vouched_by[f], NEW v \in of_workload(disk[h].from)
        PROVE  y <= v[2]
    <3>1. v = <<"workload", w>>
      BY <1>1, <1>2, <2>4 DEF OpenedOn, only
    <3>2. v[2] = w
      BY <3>1
    <3> QED BY <2>3, <3>2
  <2>5. \A h \in Vouched : \A v \in of_workload(disk[h].from) : v[2] <= y
    BY <1>2, <2>3 DEF OpenedOn
  <2> QED BY <2>4, <2>5
<1> QED BY <1>0, <1>7, <1>8, <1>9 DEF Fits

\* After a table or a manifest was written.
LEMMA AfterWrite ==
  ASSUME NEW s, NEW n, NoteNames(n), NEW k, k = after_write(s, n)
  PROVE  /\ k.sure = n.sure \cup {s.file} /\ k.there = n.there \cup {s.file}
         /\ \A g \in k.copies : (g \in n.copies /\ g # s.file) \/ (g = s.file /\ s.do # "record")
         /\ \A g \in k.sound : (g \in n.sound /\ g # s.file) \/ (g = s.file /\ n.clean)
         /\ \A g \in k.solid : (g \in n.solid /\ g # s.file) \/ (g = s.file /\ n.firm /\ n.touched)
         /\ (k.anchored => IF s.file = "anchor" THEN s.do = "replace" /\ s.rate = 64 ELSE n.anchored)
         /\ (k.joined => n.joined /\ s.file \notin Manifests)
         /\ (k.summing => n.summing /\ s.file \notin {"comparison", "normalized"})
         /\ (k.summed => \/ s.file = "summary" /\ n.summing
                         \/ n.summed /\ s.file \notin {"summary", "comparison", "normalized"})
         /\ (k.echo => n.echo \/ s.file = "surface")
         /\ k.caught = n.caught /\ k.has = n.has /\ k.guarded = n.guarded /\ k.clean = n.clean
         /\ k.firm = n.firm /\ k.touched = n.touched /\ k.opened = n.opened /\ k.legible = n.legible
<1>1. DOMAIN n = Aspects
  BY DEF NoteNames
<1>2. /\ k.sure = n.sure \cup {s.file} /\ k.there = n.there \cup {s.file}
      /\ k.copies = holding(s.file, n.copies, s.do # "record")
      /\ k.sound = holding(s.file, n.sound, n.clean)
      /\ k.solid = holding(s.file, n.solid, n.firm /\ n.touched)
  BY <1>1, AspectNames DEF after_write
<1>3. /\ (k.anchored => IF s.file = "anchor" THEN s.do = "replace" /\ s.rate = 64 ELSE n.anchored)
      /\ (k.joined => n.joined /\ s.file \notin Manifests)
      /\ (k.summing => n.summing /\ s.file \notin {"comparison", "normalized"})
      /\ (k.echo => n.echo \/ s.file = "surface")
  BY <1>1, AspectNames DEF after_write
<1>4. k.summed => \/ s.file = "summary" /\ n.summing
                  \/ n.summed /\ s.file \notin {"summary", "comparison", "normalized"}
  BY <1>1, AspectNames DEF after_write
<1>5. /\ k.caught = n.caught /\ k.has = n.has /\ k.guarded = n.guarded /\ k.clean = n.clean
      /\ k.firm = n.firm /\ k.touched = n.touched /\ k.opened = n.opened /\ k.legible = n.legible
  BY <1>1, AspectNames DEF after_write
<1>7. \A g \in k.copies : (g \in n.copies /\ g # s.file) \/ (g = s.file /\ s.do # "record")
  BY <1>2 DEF holding
<1>8. \A g \in k.sound : (g \in n.sound /\ g # s.file) \/ (g = s.file /\ n.clean)
  BY <1>2 DEF holding
<1>9. \A g \in k.solid : (g \in n.solid /\ g # s.file) \/ (g = s.file /\ n.firm /\ n.touched)
  BY <1>2 DEF holding
<1> QED BY <1>2, <1>3, <1>4, <1>5, <1>7, <1>8, <1>9

\* What a step that writes asks of the note.
WritesOn(s, n, x) ==
  \/ WriteNote(s, n) /\ s.do # "record" /\ x = file(made)
  \/ RecordNote(s, n) /\ s.do = "record" /\ x = file(on(made, {"workload"}))

\* What holds of the file that is written.
LEMMA WrittenReport ==
  ASSUME NEW s, NEW n, NEW x, WritesOn(s, n, x)
  PROVE  /\ s.file \in ReportTables /\ s.file \notin n.guarded /\ (n.touched => n.opened)
         /\ x.is = "whole" /\ x.from \subseteq made /\ of_workload(x.from) = of_workload(made)
         /\ (s.file \notin Manifests => s.do # "record" /\ WriteNote(s, n))
         /\ (s.do # "record" => x = file(made) /\ x.from = made /\ s.file \notin Manifests)
         /\ (s.file \in Manifests => s.do = "record" /\ n.opened /\ n.touched)
<1>1. CASE WriteNote(s, n) /\ s.do # "record" /\ x = file(made)
  BY <1>1 DEF WriteNote, file
<1>2. CASE RecordNote(s, n) /\ s.do = "record" /\ x = file(on(made, {"workload"}))
  <2>1. x.from = of_workload(made) /\ x.is = "whole"
    BY <1>2 DEF file, of_workload
  <2>2. x.from \subseteq made /\ of_workload(x.from) = of_workload(made)
    BY <2>1 DEF of_workload, on
  <2> QED BY <1>2, <2>1, <2>2, ReportNames DEF RecordNote
<1> QED BY <1>1, <1>2 DEF WritesOn

\* What is in memory is on disk.
LEMMA WriteKeeps ==
  ASSUME ReportBase, NEW n, ReportAt(n), NoteNames(n), NEW s, NEW x, WritesOn(s, n, x),
         Becomes(s.file, x), changes' = changes, SameMemory,
         anchor_rate' \in {64, 96}, s.file # "anchor" => anchor_rate' = anchor_rate,
         s.do = "replace" /\ s.file = "anchor" => anchor_rate' = s.rate
  PROVE  ReportBase' /\ ReportAt(after_write(s, n))'
<1>0. PICK k, f : k = after_write(s, n) /\ f = s.file
  OBVIOUS
<1>1. /\ k.sure = n.sure \cup {f} /\ k.there = n.there \cup {f}
      /\ \A g \in k.copies : (g \in n.copies /\ g # f) \/ (g = f /\ s.do # "record")
      /\ \A g \in k.sound : (g \in n.sound /\ g # f) \/ (g = f /\ n.clean)
      /\ \A g \in k.solid : (g \in n.solid /\ g # f) \/ (g = f /\ n.firm /\ n.touched)
      /\ (k.anchored => IF f = "anchor" THEN s.do = "replace" /\ s.rate = 64 ELSE n.anchored)
      /\ (k.joined => n.joined /\ f \notin Manifests)
      /\ (k.summing => n.summing /\ f \notin {"comparison", "normalized"})
      /\ (k.summed => \/ f = "summary" /\ n.summing
                      \/ n.summed /\ f \notin {"summary", "comparison", "normalized"})
      /\ (k.echo => n.echo \/ f = "surface")
      /\ k.caught = n.caught /\ k.has = n.has /\ k.guarded = n.guarded /\ k.clean = n.clean
      /\ k.firm = n.firm /\ k.touched = n.touched /\ k.opened = n.opened /\ k.legible = n.legible
  BY <1>0, AfterWrite
<1>2. /\ f \in ReportTables /\ f \notin n.guarded /\ (n.touched => n.opened)
      /\ x.is = "whole" /\ x.from \subseteq made /\ of_workload(x.from) = of_workload(made)
      /\ (f \notin Manifests => s.do # "record" /\ WriteNote(s, n))
      /\ (s.do # "record" => x = file(made) /\ x.from = made /\ f \notin Manifests)
      /\ (f \in Manifests => s.do = "record" /\ n.opened /\ n.touched)
  BY <1>0, WrittenReport
<1>3. /\ DOMAIN disk' = ReportFiles /\ disk'[f] = x
      /\ \A g \in ReportFiles \ {f} : disk'[g] = disk[g]
      /\ \A y \in ReportSources : disk'[y] = disk[y]
  BY <1>0, <1>2, TableChanged
<1>4. Fits(f, x)
  BY <1>0, WriteFits, RecordFits DEF WritesOn
<1>5. ReportBase'
  BY <1>0, <1>2, <1>4, BaseOfFitting
<1>6. /\ "workload" \in ReportSources /\ disk'["workload"] = disk["workload"]
      /\ disk'["results"] = disk["results"] /\ replayed' = replayed
  BY <1>3, ReportNames DEF replayed
<1>7. \A g \in ReportTables : g # f => disk'[g] = disk[g]
  BY <1>3, ReportNames
<1>8. n.sure \cup n.there \cup n.sound \cup n.solid \cup n.copies \subseteq ReportTables
      /\ n.guarded \subseteq ReportFiles
  BY DEF NoteNames
<1>9. {"comparison", "normalized", "summary", "surface", "surface_paths"} \subseteq ReportTables \ Manifests
  BY DEF ReportTables, Manifests
<1>10. MadeAt(k)'
  <2>1. MadeAt(n)
    BY DEF ReportAt
  <2>2. UpTo(made)'
    BY <1>6, <2>1 DEF UpTo, MadeAt, SameMemory
  <2>3. k.summing => made' = disk'["comparison"].from \cup disk'["normalized"].from
    BY <1>1, <1>7, <1>9, <2>1 DEF MadeAt, SameMemory
  <2>4. k.echo => made' \subseteq disk'["surface"].from \cup disk'["surface_paths"].from
    <3>1. CASE f \in {"surface", "surface_paths"}
      <4>1. disk'[f].from = made
        BY <1>2, <1>3, <1>9, <3>1
      <4> QED BY <3>1, <4>1 DEF SameMemory
    <3>2. CASE f \notin {"surface", "surface_paths"}
      BY <1>1, <1>7, <1>9, <2>1, <3>2 DEF MadeAt, SameMemory
    <3> QED BY <3>1, <3>2
  <2> QED BY <1>1, <2>1, <2>2, <2>3, <2>4 DEF MadeAt, SameMemory
<1>11. FilesAt(k)'
  <2>1. FilesAt(n)
    BY DEF ReportAt
  <2>2. (\A g \in k.sure : disk'[g].is = "whole") /\ (\A g \in k.there : disk'[g].is # "none")
    BY <1>1, <1>2, <1>3, <1>7, <1>8, <2>1 DEF FilesAt, whole, exists
  <2>3. \A g \in k.copies : disk'[g] = file(made')
    BY <1>1, <1>2, <1>3, <1>7, <1>8, <2>1 DEF FilesAt, SameMemory
  <2>4. k.anchored => anchor_rate' = 64
    BY <1>0, <1>1, <2>1 DEF FilesAt
  <2>5. k.joined => \A g \in Manifests : disk'[g] = file(disk'["factorial_manifest"].from)
    BY <1>1, <1>7, <2>1, ReportNames DEF FilesAt
  <2>6. k.summed => disk'["summary"].from = disk'["comparison"].from \cup disk'["normalized"].from
    <3>1. CASE f = "summary" /\ n.summing
      <4>1. disk'["summary"].from = made
        BY <1>2, <1>3, <1>9, <3>1
      <4>2. made = disk["comparison"].from \cup disk["normalized"].from
        BY <3>1 DEF ReportAt, MadeAt
      <4> QED BY <1>7, <1>9, <3>1, <4>1, <4>2
    <3>2. CASE n.summed /\ f \notin {"summary", "comparison", "normalized"}
      BY <1>7, <1>9, <2>1, <3>2 DEF FilesAt
    <3> QED BY <1>1, <3>1, <3>2
  <2> QED BY <2>2, <2>3, <2>4, <2>5, <2>6 DEF FilesAt, whole, exists
<1>12. SteadyAt(k)'
  <2> SUFFICES ASSUME steady PROVE /\ k.clean => made' \subseteq replayed'
                                   /\ \A g \in k.sound : disk'[g].from \subseteq replayed'
                                   /\ k.caught => \A v \in disk'["results"].from : v[1] = "workload" => v \in disk'["workload"].from
                                   /\ \A g \in DOMAIN held' : held'[g] = disk'[g]
                                   /\ \A y \in DOMAIN snapshot' : snapshot'[y] = disk'[y]
    BY DEF SteadyAt, SameMemory
  <2>1. SteadyAt(n) /\ DOMAIN held \subseteq n.guarded /\ DOMAIN snapshot \subseteq {"results", "glamsterdam"}
    BY DEF ReportAt
  <2>2. k.clean => made' \subseteq replayed'
    BY <1>1, <1>6, <2>1 DEF SteadyAt, SameMemory
  <2>3. \A g \in k.sound : disk'[g].from \subseteq replayed'
    <3> TAKE g \in k.sound
    <3>1. CASE g = f
      BY <1>1, <1>2, <1>3, <1>6, <2>1, <3>1 DEF SteadyAt
    <3>2. CASE g # f
      BY <1>1, <1>6, <1>7, <1>8, <2>1, <3>2 DEF SteadyAt
    <3> QED BY <3>1, <3>2
  <2>4. k.caught => \A v \in disk'["results"].from : v[1] = "workload" => v \in disk'["workload"].from
    BY <1>1, <1>6, <2>1 DEF SteadyAt
  <2>5. \A g \in DOMAIN held' : held'[g] = disk'[g]
    <3>1. \A g \in DOMAIN held : held[g] = disk[g] /\ g \in ReportFiles /\ g # f
      BY <1>2, <1>8, <2>1 DEF SteadyAt
    <3> QED BY <1>3, <3>1 DEF SameMemory
  <2>6. \A y \in DOMAIN snapshot' : snapshot'[y] = disk'[y]
    <3>1. \A y \in DOMAIN snapshot : snapshot[y] = disk[y] /\ y \in ReportSources
      BY <2>1, ReportNames DEF SteadyAt
    <3> QED BY <1>3, <3>1 DEF SameMemory
  <2> QED BY <2>2, <2>3, <2>4, <2>5, <2>6
<1>13. WorkloadAt(k)'
  <2>1. CASE n.opened
    <3>1. PICK w \in Nat : OpenedOn(n, w)
      BY <2>1 DEF ReportAt, WorkloadAt
    <3>2. /\ \A u \in disk["workload"].from : w <= u[2]
          /\ steady => disk["workload"] = file(only(w))
          /\ (n.firm => of_workload(made) \subseteq only(w))
          /\ (n.touched => <<"workload", w>> \in made)
      BY <3>1 DEF OpenedOn
    <3>3. \A g \in k.solid : of_workload(disk'[g].from) = only(w)
      <4> TAKE g \in k.solid
      <4>1. CASE g = f
        <5>1. n.firm /\ n.touched
          BY <1>1, <4>1
        <5>2. <<"workload", w>> \in of_workload(made)
          BY <3>2, <5>1, WorkloadRows
        <5>3. of_workload(made) = only(w)
          BY <3>2, <5>1, <5>2 DEF only
        <5> QED BY <1>2, <1>3, <4>1, <5>3
      <4>2. CASE g # f
        BY <1>1, <1>7, <1>8, <3>1, <4>2 DEF OpenedOn
      <4> QED BY <4>1, <4>2
    <3>4. \A g \in Vouched : \A v \in of_workload(disk'[g].from) : v[2] <= w
      <4> TAKE g \in Vouched
      <4>1. CASE g = f
        <5>1. WriteNote(s, n) /\ s.file \in Vouched
          BY <1>0, <1>2, <4>1, ReportNames
        <5>2. \A v \in of_workload(made) : v[2] <= w
          BY <3>1, <5>1, VouchedRows
        <5> QED BY <1>2, <1>3, <4>1, <5>2
      <4>2. CASE g # f
        BY <1>7, <3>1, <4>2, ReportNames DEF OpenedOn
      <4> QED BY <4>1, <4>2
    <3>5. \A g \in Manifests : \A y \in Nat : disk'[g] = file(only(y)) => y <= w
      <4> SUFFICES ASSUME NEW g \in Manifests, NEW y \in Nat, disk'[g] = file(only(y)) PROVE y <= w
        OBVIOUS
      <4>1. CASE g = f
        <5>1. x.from = only(y) /\ of_workload(only(y)) = only(y)
          BY <1>3, <4>1 DEF file, of_workload, only, on
        <5>2. <<"workload", w>> \in of_workload(made)
          BY <1>2, <3>2, <4>1, WorkloadRows
        <5>3. y = w
          BY <1>2, <5>1, <5>2 DEF only
        <5> QED BY <5>3
      <4>2. CASE g # f
        BY <1>7, <3>1, <4>2, ReportNames DEF OpenedOn
      <4> QED BY <4>1, <4>2
    <3>6. OpenedOn(k, w)'
      BY <1>1, <1>6, <3>2, <3>3, <3>4, <3>5 DEF OpenedOn, SameMemory
    <3> QED BY <1>1, <2>1, <3>6 DEF WorkloadAt
  <2>2. CASE ~n.opened
    <3>1. n.solid = {} /\ (n.firm => of_workload(made) = {}) /\ ~n.touched
      BY <1>2, <2>2 DEF ReportAt, WorkloadAt
    <3> QED BY <1>1, <2>2, <3>1 DEF WorkloadAt, SameMemory
  <2> QED BY <2>1, <2>2
<1>14. DOMAIN held' \subseteq k.guarded /\ DOMAIN snapshot' \subseteq {"results", "glamsterdam"}
  BY <1>1 DEF ReportAt, SameMemory
<1>15. ReportAt(k)'
  BY <1>10, <1>11, <1>12, <1>13, <1>14 DEF ReportAt
<1> QED BY <1>0, <1>5, <1>15

-----------------------------------------------------------------------------
(* Why a pass over the report stops.                                       *)

\* No source changes, a surface that is there can be taken, and the results
\* replay the workload there is, or, for a pass that reuses, nothing is missing.
Reasonless(m) ==
  /\ chain = "report" /\ steady /\ ~surface_obstructed
  /\ IF m = "fresh" THEN ~lagging ELSE Complete

\* What is current, of the report.
LEMMA ReportCurrent ==
  ASSUME chain = "report", NEW v
  PROVE  v \in current <=> \E s \in ReportSources : v \in on(disk[s].from, {s})
<1>1. Sources[chain] = ReportSources /\ Caches[chain] = {}
  BY DEF Sources, Caches
<1> DEFINE A == UNION {on(disk[s].from, {s}) : s \in ReportSources}
           B == {u \in UNION {on(disk[c].from, {c, "other_rate"}) : c \in {}} : u[2] # cut_row \/ u[1] \in uncovered}
<1>2. current = A \cup B
  BY <1>1 DEF current
<1>3. B = {} /\ (v \in A <=> \E s \in ReportSources : v \in on(disk[s].from, {s}))
  OBVIOUS
<1> QED BY <1>2, <1>3

\* Of a source there is one row of its name.
LEMMA OneRow ==
  ASSUME ReportDisk, NEW s \in ReportSources
  PROVE  \E x \in Nat : on(disk[s].from, {s}) = {<<s, x>>}
<1>1. CASE s # "results"
  <2>1. PICK x \in Nat : disk[s] = file({<<s, x>>})
    BY <1>1 DEF ReportDisk
  <2>2. on(disk[s].from, {s}) = {<<s, x>>}
    BY <2>1 DEF file, on
  <2> QED BY <2>2
<1>2. CASE s = "results"
  <2>1. PICK x, w \in Nat : disk["results"] = file({<<"results", x>>, <<"workload", w>>})
    BY DEF ReportDisk
  <2>2. on(disk[s].from, {s}) = {<<s, x>>}
    BY <1>2, <2>1 DEF file, on
  <2> QED BY <2>2
<1> QED BY <1>1, <1>2

\* What is current agrees.
LEMMA CurrentAgrees ==
  ASSUME ReportBase, chain = "report", NEW A, NEW B, A \subseteq current, B \subseteq current
  PROVE  agree(A, B)
<1> SUFFICES ASSUME NEW u \in A, NEW v \in B, u[1] = v[1] PROVE u = v
  BY DEF agree
<1>1. PICK s \in ReportSources : u \in on(disk[s].from, {s})
  BY ReportCurrent
<1>2. PICK t \in ReportSources : v \in on(disk[t].from, {t})
  BY ReportCurrent
<1>3. s = t
  BY <1>1, <1>2 DEF on
<1>4. PICK x \in Nat : on(disk[s].from, {s}) = {<<s, x>>}
  BY OneRow DEF ReportBase
<1> QED BY <1>1, <1>2, <1>3, <1>4

\* The workload there is, is current, and no other.
LEMMA CurrentWorkload ==
  ASSUME ReportBase, chain = "report", NEW A, A \subseteq current, of_workload(A) # {}
  PROVE  of_workload(A) = disk["workload"].from
<1>1. PICK w \in Nat : disk["workload"] = file(only(w)) /\ disk["workload"].from = only(w)
  BY TheWorkload DEF ReportBase
<1>2. ASSUME NEW v \in of_workload(A) PROVE v \in only(w)
  <2>1. PICK s \in ReportSources : v \in on(disk[s].from, {s})
    BY ReportCurrent, WorkloadRows
  <2>2. s = "workload"
    BY <2>1, WorkloadRows DEF on
  <2> QED BY <1>1, <2>1, <2>2 DEF on
<1> QED BY <1>1, <1>2 DEF only

\* Results that replay the workload make all that is replayed current.
LEMMA ReplayedCurrent ==
  ASSUME ReportBase, chain = "report", ~lagging
  PROVE  replayed \subseteq current /\ disk["results"].from \subseteq current
<1>1. disk["results"].from \subseteq current
  BY DEF lagging
<1>2. ASSUME NEW v \in replayed PROVE v \in current
  <2>1. PICK s \in ReportSources : v \in disk[s].from
    BY DEF replayed
  <2>2. CASE s = "results"
    BY <1>1, <2>1, <2>2
  <2>3. CASE s # "results"
    <3>1. v[1] = s
      BY <2>1, <2>3, SourceRow DEF ReportBase
    <3>2. v \in on(disk[s].from, {s})
      BY <2>1, <3>1 DEF on
    <3> QED BY <3>2, ReportCurrent
  <2> QED BY <2>2, <2>3
<1> QED BY <1>1, <1>2

\* The tables a step may rely on are whole and current.
LEMMA ReliedCurrent ==
  ASSUME ReportBase, NEW n, ReportAt(n), NoteNames(n), NEW m, Reasonless(m), NEW f \in relied(n, m)
  PROVE  f \in ReportTables /\ f \in ReportFiles /\ whole(f) /\ exists(f) /\ disk[f].from \subseteq current
<1>1. CASE m = "fresh"
  <2>1. f \in n.sound /\ f \in n.sure
    BY <1>1 DEF relied
  <2>2. f \in ReportTables /\ whole(f) /\ disk[f].from \subseteq replayed
    BY <2>1 DEF NoteNames, ReportAt, FilesAt, SteadyAt, Reasonless
  <2>3. replayed \subseteq current
    BY <1>1, ReplayedCurrent DEF Reasonless
  <2> QED BY <2>2, <2>3, ReportNames DEF whole, exists
<1>2. CASE m # "fresh"
  <2>1. f \in ReportTables /\ Complete /\ Tables[chain] = ReportTables
    BY <1>2 DEF relied, Reasonless, Tables
  <2> QED BY <2>1, ReportNames DEF Complete, whole, exists
<1> QED BY <1>1, <1>2

\* A manifest one may rely on names the workload there is.
LEMMA ReliedManifest ==
  ASSUME ReportBase, NEW n, ReportAt(n), NoteNames(n), NEW m, Reasonless(m),
         NEW g \in Manifests \cap relied(n, m)
  PROVE  disk[g] = disk["workload"]
<1>1. g \in ReportFiles /\ whole(g) /\ disk[g].from \subseteq current
  BY ReliedCurrent
<1>2. disk[g].from # {} /\ \A v \in disk[g].from : v[1] = "workload"
  BY <1>1 DEF ReportBase, Recorded
<1>3. of_workload(disk[g].from) = disk[g].from
  BY <1>2 DEF of_workload, on
<1>4. disk[g].from = disk["workload"].from
  BY <1>1, <1>2, <1>3, CurrentWorkload DEF Reasonless
<1>5. PICK w \in Nat : disk["workload"] = file(only(w)) /\ disk["workload"].from = only(w)
  BY TheWorkload DEF ReportBase
<1>6. disk[g] = [is |-> "whole", from |-> only(w)]
  BY <1>1, <1>4, <1>5 DEF ReportBase, ReportDisk, whole
<1> QED BY <1>5, <1>6 DEF file

\* Surfaces that are both there are whole and current.
LEMMA SurfacesCurrent ==
  ASSUME NEW m, Reasonless(m), cached, NEW f \in Surfaces, ReportBase
  PROVE  whole(f) /\ disk[f].from \subseteq current
<1>1. disk[f].is # "torn" /\ disk[f].from \subseteq current
  BY DEF Reasonless, surface_obstructed, Surfaces
<1>2. f \in ReportFiles /\ disk[f].is # "none"
  BY ReportNames DEF cached, exists, Surfaces
<1>3. disk[f].is \in {"none", "torn", "whole"}
  BY <1>2 DEF ReportBase, ReportDisk
<1> QED BY <1>1, <1>2, <1>3 DEF whole

\* A read finds its files.
LEMMA ReadsFound ==
  ASSUME ReportBase, NEW n, ReportAt(n), NoteNames(n), NEW m, Reasonless(m), NEW s, ReadNote(s, n, m)
  PROVE  readable(s.reads) /\ \A S : ~may_fail(s.checks, S)
<1>1. s.checks = {} /\ s.reads \subseteq ReadNames
  BY DEF ReadNote
<1>2. ASSUME NEW x \in s.reads \cap DOMAIN disk PROVE exists(x)
  <2>1. x \in ReportFiles /\ behind(x) = x
    <3>1. x \in ReportFiles
      BY <1>2 DEF ReportBase, ReportDisk
    <3> QED BY <3>1, ReportNames DEF behind
  <2>2. CASE m = "fresh"
    <3>1. x \in Behind(s.reads)
      BY <1>2, <2>1 DEF Behind
    <3>2. x \in n.sure \/ x \in ReportSources
      BY <2>2, <3>1 DEF ReadNote
    <3>3. x \in n.sure => exists(x)
      BY DEF ReportAt, FilesAt, whole, exists
    <3> QED BY <3>2, <3>3, SourcesThere DEF ReportBase
  <2>3. CASE m # "fresh"
    <3>1. x \in relied(n, m)
      BY <1>2, <2>3 DEF ReadNote, relied
    <3> QED BY <3>1, ReliedCurrent
  <2> QED BY <2>2, <2>3
<1>3. readable(s.reads)
  BY <1>2 DEF readable
<1>4. \A S : ~may_fail(s.checks, S)
  BY <1>1 DEF may_fail
<1> QED BY <1>3, <1>4

\* What a fresh pass computed agrees with what it computed before, or with the
\* results.
LEMMA Reproduces ==
  ASSUME ReportBase, NEW n, ReportAt(n), NoteNames(n), NEW m, Reasonless(m), NEW s, ReproduceNote(s, n, m)
  PROVE  agree(on(made \cup contents(s.reads), s.of), disk[s.file].from)
<1>1. /\ m = "fresh" /\ s.file \in relied(n, m) \cup {"results"} /\ s.reads \subseteq relied(n, m)
      /\ n.clean \/ Surfaces \subseteq n.copies
  BY DEF ReproduceNote
<1>2. replayed \subseteq current /\ disk["results"].from \subseteq current
  BY <1>1, ReplayedCurrent DEF Reasonless
<1>3. disk[s.file].from \subseteq current
  BY <1>1, <1>2, ReliedCurrent
<1>4. contents(s.reads) \subseteq current
  <2>1. \A x \in s.reads : content(x) \subseteq current
    BY <1>1, ReliedCurrent, ReportContent
  <2> QED BY <2>1, RowOf
<1>5. made \subseteq current
  <2>1. CASE n.clean
    BY <1>2, <2>1 DEF ReportAt, SteadyAt, Reasonless
  <2>2. CASE Surfaces \subseteq n.copies
    <3>1. disk["surface"] = file(made) /\ disk["surface_paths"] = file(made)
      BY <2>2 DEF Surfaces, ReportAt, FilesAt
    <3>2. cached /\ disk["surface"].from = made /\ "surface" \in Surfaces
      BY <3>1 DEF cached, exists, file, Surfaces
    <3> QED BY <3>2, SurfacesCurrent
  <2> QED BY <1>1, <2>1, <2>2
<1>6. on(made \cup contents(s.reads), s.of) \subseteq current
  BY <1>4, <1>5 DEF on
<1> QED BY <1>3, <1>6, CurrentAgrees DEF Reasonless

\* The surface cache goes on with what is there, or without.
LEMMA CacheGoesOn ==
  ASSUME ReportBase, NEW n, ReportAt(n), NoteNames(n), NEW m, Reasonless(m), CacheNote(n, m)
  PROVE  IF cached THEN on(disk["surface"].from, {"workload"}) = disk["factorial_manifest"].from
                   ELSE disk["workload"].from = disk["factorial_manifest"].from
<1>1. "factorial_manifest" \in Manifests \cap relied(n, m)
  BY ReportNames DEF CacheNote
<1>2. disk["factorial_manifest"] = disk["workload"]
  BY <1>1, ReliedManifest
<1>3. ASSUME cached PROVE of_workload(disk["surface"].from) = disk["workload"].from
  <2>1. "surface" \in Surfaces /\ "surface" \in ReportTables /\ exists("surface")
    BY <1>3 DEF cached, Surfaces, ReportTables
  <2>2. has_of("surface") = {"panels", "glamsterdam", "workload"}
    BY DEF has_of, ReportSources, Bare, Manifests
  <2>3. of_workload(disk["surface"].from) # {}
    BY <2>1, <2>2 DEF ReportBase, HasOwn, of_workload
  <2>4. disk["surface"].from \subseteq current
    BY <1>3, <2>1, SurfacesCurrent
  <2> QED BY <2>3, <2>4, CurrentWorkload DEF Reasonless
<1> QED BY <1>2, <1>3 DEF of_workload

\* What is inspected is there.
LEMMA Inspected ==
  ASSUME ReportBase, NEW n, ReportAt(n), NoteNames(n), NEW m, Reasonless(m), NEW s, InspectNote(s, n, m)
  PROVE  /\ \A f \in s.files : exists(f)
         /\ \A f \in s.counted : whole(f)
<1>1. CASE m = "fresh"
  <2>1. /\ s.files \subseteq n.there
        /\ \/ s.counted \subseteq n.sure
           \/ s.counted = Surfaces /\ Surfaces \subseteq n.there
    BY <1>1 DEF InspectNote
  <2>2. (\A f \in n.there : exists(f)) /\ (\A f \in n.sure : whole(f))
    BY DEF ReportAt, FilesAt
  <2>3. Surfaces \subseteq n.there => cached
    BY <2>2 DEF cached, Surfaces
  <2> QED BY <2>1, <2>2, <2>3, SurfacesCurrent
<1>2. CASE m # "fresh"
  <2>1. s.files \cup s.counted \subseteq relied(n, m)
    BY <1>2 DEF InspectNote, relied
  <2> QED BY <2>1, ReliedCurrent
<1> QED BY <1>1, <1>2

\* The cells agree.
LEMMA CellsAgree ==
  ASSUME ReportBase, NEW n, ReportAt(n), NoteNames(n), NEW m, Reasonless(m)
  PROVE  /\ m # "fresh" => /\ baseline_anchor.rate = 64
                           /\ agree(baseline_anchor.from, on(disk["scenarios"].from, {"panels", "glamsterdam"}))
         /\ {"by_rate", "tail", "calibration"} \subseteq relied(n, m) =>
              /\ whole("calibration")
              /\ agree(contents({"quantities", "tail"}), on(disk["calibration"].from, {"panels", "glamsterdam"}))
         /\ {"comparison", "normalized"} \subseteq relied(n, m) =>
              whole("normalized") /\ disk["comparison"].is # "torn"
<1>1. chain = "report"
  BY DEF Reasonless
<1>2. ASSUME m # "fresh"
      PROVE  /\ baseline_anchor.rate = 64
             /\ agree(baseline_anchor.from, on(disk["scenarios"].from, {"panels", "glamsterdam"}))
  <2>1. {"anchor", "by_rate", "scenarios"} \subseteq relied(n, m)
    BY <1>2, ReportNames DEF relied
  <2>2. disk["anchor"].from \subseteq current /\ disk["by_rate"].from \subseteq current
        /\ disk["scenarios"].from \subseteq current
    BY <2>1, ReliedCurrent
  <2>3. baseline_anchor.rate = 64 /\ baseline_anchor.from \subseteq current
    BY <2>2 DEF baseline_anchor
  <2>4. on(disk["scenarios"].from, {"panels", "glamsterdam"}) \subseteq current
    BY <2>2 DEF on
  <2> QED BY <1>1, <2>3, <2>4, CurrentAgrees
<1>3. ASSUME {"by_rate", "tail", "calibration"} \subseteq relied(n, m)
      PROVE  /\ whole("calibration")
             /\ agree(contents({"quantities", "tail"}), on(disk["calibration"].from, {"panels", "glamsterdam"}))
  <2>1. /\ disk["by_rate"].from \subseteq current /\ disk["tail"].from \subseteq current
        /\ disk["calibration"].from \subseteq current /\ whole("calibration") /\ "tail" \in ReportFiles
    BY <1>3, ReliedCurrent
  <2>2. content("quantities") \subseteq current /\ content("tail") \subseteq current
    BY <2>1, RateContent, ReportContent DEF on
  <2>3. contents({"quantities", "tail"}) \subseteq current
    BY <2>2, RowOf
  <2>4. on(disk["calibration"].from, {"panels", "glamsterdam"}) \subseteq current
    BY <2>1 DEF on
  <2> QED BY <1>1, <2>1, <2>3, <2>4, CurrentAgrees
<1>4. ASSUME {"comparison", "normalized"} \subseteq relied(n, m)
      PROVE  whole("normalized") /\ disk["comparison"].is # "torn"
  <2>1. whole("normalized") /\ whole("comparison")
    BY <1>4, ReliedCurrent
  <2> QED BY <2>1 DEF whole
<1> QED BY <1>2, <1>3, <1>4

-----------------------------------------------------------------------------
(* A step of a pass over the report goes on, or stops for a reason.        *)

\* n is the note before the step s, the i-th of p.
Here(p, m, i, n, s) ==
  /\ n = notes(p)[i] /\ s = p[i] /\ step = s /\ chain = "report" /\ mode = m /\ at = i
  /\ i \in 1..Len(p) /\ Len(p) \in Nat \ {0} /\ program[chain][mode] = p /\ m \in Modes.report
  /\ ReportBase /\ ReportAt(n) /\ NoteNames(n) /\ ReportNeeds(s, n, m)
  /\ Weaker(notes(p)[i+1], after(s, n))
  /\ s.do = "surface_cache" => i + 3 <= Len(p) /\ Weaker(notes(p)[i+3], after_cached(n))

\* A step goes to the next, or past the writes of a surface.
Jumps(p, i) ==
  /\ i + 3 <= Len(p) /\ at' = i + 3 /\ outcome' = outcome
  /\ UNCHANGED <<chain, mode, steady, kills, changes>>
  /\ ReportAt(notes(p)[i+3])'
ReportGoes(p, i) == ReportBase' /\ ((Proceed /\ ReportAt(notes(p)[i+1])') \/ Jumps(p, i))
ReportStops(m) == Fail /\ ~Reasonless(m)

\* What is known of the step a pass is at.
LEMMA StepHere ==
  ASSUME NEW p, NEW m, NEW i, ReportPass(p, m, i)
  PROVE  \E n, s : Here(p, m, i, n, s)
<1>1. /\ chain = "report" /\ m \in Modes.report /\ mode = m /\ script = p /\ p = report(m)
      /\ i \in 1..Len(p) /\ Len(p) \in Nat \ {0} /\ at = i
      /\ ReportBase /\ ReportAt(notes(p)[i])
  BY DEF ReportPass
<1>2. ReportStepFacts(p, m, i)
  BY <1>1, ReportNotes DEF ReportFacts
<1>3. PICK n, s : n = notes(p)[i] /\ s = p[i]
  OBVIOUS
<1>4. /\ NoteNames(n) /\ Weaker(notes(p)[i+1], after(s, n)) /\ ReportNeeds(s, n, m)
      /\ s.do = "surface_cache" => i + 3 <= Len(p) /\ Weaker(notes(p)[i+3], after_cached(n))
  BY <1>2, <1>3 DEF ReportStepFacts
<1>5. step = s /\ program[chain][mode] = p
  BY <1>1, <1>3 DEF step, script
<1> QED BY <1>1, <1>3, <1>4, <1>5 DEF Here

\* A step that goes on.
LEMMA GoesAfter ==
  ASSUME NEW p, NEW m, NEW i, NEW n, NEW s, Here(p, m, i, n, s), Proceed,
         ReportBase', ReportAt(after(s, n))'
  PROVE  ReportGoes(p, i)
<1>1. PICK a, k : a = after(s, n) /\ k = notes(p)[i+1]
  OBVIOUS
<1>2. Weaker(k, a)
  BY <1>1 DEF Here
<1>3. ReportAt(k)'
  BY <1>1, <1>2, WeakerHolds
<1> QED BY <1>1, <1>3 DEF ReportGoes

\* Proceeding leaves what no step of the report counts.
LEMMA ProceedSame == Proceed => steady' = steady /\ changes' = changes
BY DEF Proceed

\* What the kinds of steps make of the note.
LEMMA AfterKinds ==
  ASSUME NEW s, NEW n
  PROVE  /\ s.do = "source_snapshot" => after(s, n) = after_snapshot(n)
         /\ s.do = "open" => after(s, n) = after_open(s, n)
         /\ s.do = "add" => after(s, n) = after_add(s, n)
         /\ s.do = "matches" => after(s, n) = after_matches(s, n)
         /\ s.do = "surface_cache" => after(s, n) = after_cache(n)
         /\ s.do \in {"write", "replace", "record"} => after(s, n) = after_write(s, n)
         /\ s.do = "reproduce" => after(s, n) = after_reproduce(s, n)
         /\ s.do = "inspect" => after(s, n) = after_inspect(s, n)
         /\ s.do = "manifests_cell" => after(s, n) = after_manifests(s, n)
         /\ s.do \in {"verify_sources", "unchanged", "baseline_cell", "derived_cell", "central_cell"} => after(s, n) = n
<1>1. /\ s.do = "source_snapshot" => after(s, n) = after_snapshot(n)
      /\ s.do = "open" => after(s, n) = after_open(s, n)
      /\ s.do = "add" => after(s, n) = after_add(s, n)
      /\ s.do = "matches" => after(s, n) = after_matches(s, n)
      /\ s.do = "surface_cache" => after(s, n) = after_cache(n)
  BY DEF after
<1>2. /\ s.do \in {"write", "replace", "record"} => after(s, n) = after_write(s, n)
      /\ s.do = "reproduce" => after(s, n) = after_reproduce(s, n)
      /\ s.do = "inspect" => after(s, n) = after_inspect(s, n)
      /\ s.do = "manifests_cell" => after(s, n) = after_manifests(s, n)
  BY DEF after
<1>3. s.do \in {"verify_sources", "unchanged", "baseline_cell", "derived_cell", "central_cell"} => after(s, n) = n
  BY DEF after
<1> QED BY <1>1, <1>2, <1>3

\* A snapshot.
LEMMA SnapshotStep ==
  ASSUME NEW p, NEW m, NEW i, NEW n, NEW s, Here(p, m, i, n, s), SourceSnapshot
  PROVE  ReportGoes(p, i)
<1>1. /\ s.do = "source_snapshot" /\ Proceed /\ made' = {} /\ held' = <<>>
      /\ snapshot' = [x \in {"results", "glamsterdam"} |-> disk[x]]
      /\ disk' = disk /\ anchor_rate' = anchor_rate
  BY DEF SourceSnapshot, Running, Here
<1>2. SameReport /\ steady' = steady
  BY <1>1, ProceedSame DEF SameReport
<1>3. ReportBase' /\ ReportAt(after_snapshot(n))'
  BY <1>1, <1>2, SnapshotKeeps DEF Here
<1>4. ReportAt(after(s, n))'
  <2>1. after(s, n) = after_snapshot(n)
    BY <1>1, AfterKinds
  <2> QED BY <1>3, <2>1
<1> QED BY <1>1, <1>3, <1>4, GoesAfter

\* A process starts and reads.
LEMMA OpenStep ==
  ASSUME NEW p, NEW m, NEW i, NEW n, NEW s, Here(p, m, i, n, s), Open
  PROVE  ReportGoes(p, i) \/ ReportStops(m)
<1>1. s.do = "open" /\ step = s /\ ReadNote(s, n, m)
  BY DEF Open, Running, Here, ReportNeeds
<1>2. \/ /\ readable(s.reads) /\ made' = contents(s.reads) /\ held' = [f \in s.protects |-> disk[f]]
         /\ Proceed /\ UNCHANGED <<disk, anchor_rate, snapshot>>
      \/ /\ ~readable(s.reads) \/ may_fail(s.checks, contents(s.reads))
         /\ Fail
  BY <1>1 DEF Open
<1>3. ASSUME readable(s.reads), made' = contents(s.reads), held' = [f \in s.protects |-> disk[f]],
             Proceed, UNCHANGED <<disk, anchor_rate, snapshot>>
      PROVE  ReportGoes(p, i)
  <2>1. SameReport /\ steady' = steady
    BY <1>3, ProceedSame DEF SameReport
  <2>2. ReadIn(s.reads, n)
    BY <1>1, <1>3, ReadNoteIn DEF Here
  <2>3. ReportBase' /\ ReportAt(after_open(s, n))'
    BY <1>3, <2>1, <2>2, OpenKeeps DEF Here
  <2>4. after(s, n) = after_open(s, n)
    BY <1>1, AfterKinds
  <2> QED BY <1>3, <2>3, <2>4, GoesAfter
<1>4. ASSUME ~readable(s.reads) \/ may_fail(s.checks, contents(s.reads)), Reasonless(m) PROVE FALSE
  BY <1>1, <1>4, ReadsFound DEF Here
<1> QED BY <1>2, <1>3, <1>4 DEF ReportStops

\* A process reads more.
LEMMA AddStep ==
  ASSUME NEW p, NEW m, NEW i, NEW n, NEW s, Here(p, m, i, n, s), Add
  PROVE  ReportGoes(p, i) \/ ReportStops(m)
<1>1. s.do = "add" /\ step = s /\ ReadNote(s, n, m)
  BY DEF Add, Running, Here, ReportNeeds
<1>2. \/ /\ readable(s.reads) /\ made' = made \cup contents(s.reads)
         /\ Proceed /\ UNCHANGED <<disk, anchor_rate, held, snapshot>>
      \/ /\ ~readable(s.reads) \/ may_fail(s.checks, made \cup contents(s.reads))
         /\ Fail
  BY <1>1 DEF Add
<1>3. ASSUME readable(s.reads), made' = made \cup contents(s.reads),
             Proceed, UNCHANGED <<disk, anchor_rate, held, snapshot>>
      PROVE  ReportGoes(p, i)
  <2>1. SameReport /\ steady' = steady
    BY <1>3, ProceedSame DEF SameReport
  <2>2. ReadIn(s.reads, n)
    BY <1>1, <1>3, ReadNoteIn DEF Here
  <2>3. ReportBase' /\ ReportAt(after_add(s, n))'
    BY <1>3, <2>1, <2>2, AddKeeps DEF Here
  <2>4. after(s, n) = after_add(s, n)
    BY <1>1, AfterKinds
  <2> QED BY <1>3, <2>3, <2>4, GoesAfter
<1>4. ASSUME ~readable(s.reads) \/ may_fail(s.checks, made \cup contents(s.reads)), Reasonless(m) PROVE FALSE
  BY <1>1, <1>4, ReadsFound DEF Here
<1> QED BY <1>2, <1>3, <1>4 DEF ReportStops

\* The workload is rebuilt.
LEMMA MatchesStep ==
  ASSUME NEW p, NEW m, NEW i, NEW n, NEW s, Here(p, m, i, n, s), Matches
  PROVE  ReportGoes(p, i) \/ ReportStops(m)
<1>1. /\ s.do = "matches" /\ step = s /\ ReportNeeds(s, n, m)
      /\ s.file \in Manifests \cap relied(n, m)
  BY DEF Matches, Running, Here, ReportNeeds
<1>2. \/ /\ disk[s.file] = disk["workload"] /\ made' = made \cup disk["workload"].from
         /\ Proceed /\ UNCHANGED <<disk, anchor_rate, held, snapshot>>
      \/ disk[s.file] # disk["workload"] /\ Fail
  BY <1>1 DEF Matches
<1>3. ASSUME disk[s.file] = disk["workload"], made' = made \cup disk["workload"].from,
             Proceed, UNCHANGED <<disk, anchor_rate, held, snapshot>>
      PROVE  ReportGoes(p, i)
  <2>1. SameReport /\ steady' = steady
    BY <1>3, ProceedSame DEF SameReport
  <2>2. ReportBase' /\ ReportAt(after_matches(s, n))'
    BY <1>1, <1>3, <2>1, MatchesKeeps DEF Here
  <2>3. after(s, n) = after_matches(s, n)
    BY <1>1, AfterKinds
  <2> QED BY <1>3, <2>2, <2>3, GoesAfter
<1>4. Reasonless(m) => disk[s.file] = disk["workload"]
  BY <1>1, ReliedManifest DEF Here
<1> QED BY <1>2, <1>3, <1>4 DEF ReportStops

\* A surface is taken or computed.
LEMMA CacheStep ==
  ASSUME NEW p, NEW m, NEW i, NEW n, NEW s, Here(p, m, i, n, s), SurfaceCache
  PROVE  ReportGoes(p, i) \/ ReportStops(m)
<1>1. /\ s.do = "surface_cache" /\ step = s /\ CacheNote(n, m)
      /\ i + 3 <= Len(p) /\ Weaker(notes(p)[i+3], after_cached(n)) /\ at = i
  BY DEF SurfaceCache, Running, Here, ReportNeeds
<1>2. \/ /\ cached /\ on(disk["surface"].from, {"workload"}) = disk["factorial_manifest"].from
         /\ at' = at + 3 /\ made' = contents({"surface", "surface_paths"})
         /\ UNCHANGED <<chain, disk, anchor_rate, mode, held, snapshot, outcome, steady, kills, changes>>
      \/ /\ ~cached /\ disk["workload"].from = disk["factorial_manifest"].from
         /\ made' = contents({"scenarios", "paths", "quantities", "workload"})
         /\ Proceed /\ UNCHANGED <<disk, anchor_rate, held, snapshot>>
      \/ /\ IF cached THEN on(disk["surface"].from, {"workload"}) # disk["factorial_manifest"].from
                      ELSE disk["workload"].from # disk["factorial_manifest"].from
         /\ Fail
  BY DEF SurfaceCache
<1>3. ASSUME cached, on(disk["surface"].from, {"workload"}) = disk["factorial_manifest"].from,
             at' = at + 3, made' = contents({"surface", "surface_paths"}),
             UNCHANGED <<chain, disk, anchor_rate, mode, held, snapshot, outcome, steady, kills, changes>>
      PROVE  ReportGoes(p, i)
  <2>1. SameReport /\ steady' = steady /\ held' = held /\ snapshot' = snapshot
    BY <1>3 DEF SameReport
  <2>2. ReportBase' /\ ReportAt(after_cached(n))'
    BY <1>1, <1>3, <2>1, CachedKeeps DEF Here
  <2>3. PICK a, k : a = after_cached(n) /\ k = notes(p)[i+3]
    OBVIOUS
  <2>4. ReportAt(k)'
    BY <1>1, <2>2, <2>3, WeakerHolds
  <2> QED BY <1>1, <1>3, <2>2, <2>3, <2>4 DEF ReportGoes, Jumps
<1>4. ASSUME disk["workload"].from = disk["factorial_manifest"].from,
             made' = contents({"scenarios", "paths", "quantities", "workload"}),
             Proceed, UNCHANGED <<disk, anchor_rate, held, snapshot>>
      PROVE  ReportGoes(p, i)
  <2>1. SameReport /\ steady' = steady
    BY <1>4, ProceedSame DEF SameReport
  <2>2. ReportBase' /\ ReportAt(after_cache(n))'
    BY <1>1, <1>4, <2>1, CacheKeeps DEF Here
  <2>3. after(s, n) = after_cache(n)
    BY <1>1, AfterKinds
  <2> QED BY <1>4, <2>2, <2>3, GoesAfter
<1>5. Reasonless(m) => IF cached THEN on(disk["surface"].from, {"workload"}) = disk["factorial_manifest"].from
                                 ELSE disk["workload"].from = disk["factorial_manifest"].from
  BY <1>1, CacheGoesOn DEF Here
<1> QED BY <1>2, <1>3, <1>4, <1>5 DEF ReportStops

\* A step that only looks.
LEMMA LooksStep ==
  ASSUME NEW p, NEW m, NEW i, NEW n, NEW s, Here(p, m, i, n, s), after(s, n) = n,
         Proceed, UNCHANGED <<disk, anchor_rate, made, held, snapshot>>
  PROVE  ReportGoes(p, i)
<1>1. SameReport /\ SameMemory
  BY ProceedSame DEF SameReport, SameMemory
<1>2. ReportBase' /\ ReportAt(n)'
  BY <1>1, ReportSame, QuietAt DEF Here
<1>3. ReportAt(after(s, n))'
  <2>1. PICK k : k = after(s, n)
    OBVIOUS
  <2>2. k = n
    BY <2>1
  <2> QED BY <1>2, <2>1, <2>2
<1> QED BY <1>2, <1>3, GoesAfter

\* The snapshot holds while no source changes.
LEMMA VerifyStep ==
  ASSUME NEW p, NEW m, NEW i, NEW n, NEW s, Here(p, m, i, n, s), VerifySources
  PROVE  ReportGoes(p, i) \/ ReportStops(m)
<1>1. s.do = "verify_sources" /\ after(s, n) = n
  BY AfterKinds DEF VerifySources, Running, Here
<1>2. \/ /\ \A x \in DOMAIN snapshot : disk[x] = snapshot[x]
         /\ Proceed /\ UNCHANGED <<disk, anchor_rate, made, held, snapshot>>
      \/ ~(\A x \in DOMAIN snapshot : disk[x] = snapshot[x]) /\ Fail
  BY DEF VerifySources, Check
<1>3. steady => \A x \in DOMAIN snapshot : disk[x] = snapshot[x]
  BY DEF Here, ReportAt, SteadyAt
<1> QED BY <1>1, <1>2, <1>3, LooksStep DEF ReportStops, Reasonless

\* So do the protected files.
LEMMA UnchangedStep ==
  ASSUME NEW p, NEW m, NEW i, NEW n, NEW s, Here(p, m, i, n, s), Unchanged
  PROVE  ReportGoes(p, i) \/ ReportStops(m)
<1>1. s.do = "unchanged" /\ after(s, n) = n
  BY AfterKinds DEF Unchanged, Running, Here
<1>2. \/ /\ \A x \in DOMAIN held : disk[x] = held[x]
         /\ Proceed /\ UNCHANGED <<disk, anchor_rate, made, held, snapshot>>
      \/ ~(\A x \in DOMAIN held : disk[x] = held[x]) /\ Fail
  BY DEF Unchanged, Check
<1>3. steady => \A x \in DOMAIN held : disk[x] = held[x]
  BY DEF Here, ReportAt, SteadyAt
<1> QED BY <1>1, <1>2, <1>3, LooksStep DEF ReportStops, Reasonless

\* The cells that compare tables.
LEMMA CellStep ==
  ASSUME NEW p, NEW m, NEW i, NEW n, NEW s, Here(p, m, i, n, s),
         BaselineCell \/ DerivedCell \/ CentralCell
  PROVE  ReportGoes(p, i) \/ ReportStops(m)
<1> DEFINE scenarios == /\ baseline_anchor.rate = 64
                        /\ agree(baseline_anchor.from, on(disk["scenarios"].from, {"panels", "glamsterdam"}))
           calibration == /\ whole("calibration")
                          /\ agree(contents({"quantities", "tail"}),
                                   on(disk["calibration"].from, {"panels", "glamsterdam"}))
<1>1. s.do \in {"baseline_cell", "derived_cell", "central_cell"} /\ after(s, n) = n
  BY AfterKinds DEF BaselineCell, DerivedCell, CentralCell, Running, Here
<1>2. Reasonless(m) => /\ m # "fresh" => scenarios
                       /\ {"by_rate", "tail", "calibration"} \subseteq relied(n, m) => calibration
                       /\ {"comparison", "normalized"} \subseteq relied(n, m) =>
                            whole("normalized") /\ disk["comparison"].is # "torn"
  BY CellsAgree DEF Here
<1>3. CASE BaselineCell
  <2>1. s.do = "baseline_cell" /\ m # "fresh"
    BY <1>3 DEF BaselineCell, Running, Here, ReportNeeds
  <2>2. \/ scenarios /\ Proceed /\ UNCHANGED <<disk, anchor_rate, made, held, snapshot>>
        \/ ~scenarios /\ Fail
    BY <1>3 DEF BaselineCell, Check
  <2> HIDE DEF scenarios
  <2> QED BY <1>1, <1>2, <2>1, <2>2, LooksStep DEF ReportStops
<1>4. CASE DerivedCell
  <2>1. {"by_rate", "tail", "calibration"} \subseteq relied(n, m)
    BY <1>4 DEF DerivedCell, Running, Here, ReportNeeds
  <2>2. \/ calibration /\ Proceed /\ UNCHANGED <<disk, anchor_rate, made, held, snapshot>>
        \/ ~calibration /\ Fail
    BY <1>4 DEF DerivedCell, Check
  <2> HIDE DEF calibration
  <2> QED BY <1>1, <1>2, <2>1, <2>2, LooksStep DEF ReportStops
<1>5. CASE CentralCell
  <2>1. {"comparison", "normalized"} \subseteq relied(n, m)
    BY <1>5 DEF CentralCell, Running, Here, ReportNeeds
  <2>2. \/ Proceed /\ UNCHANGED <<disk, anchor_rate, made, held, snapshot>>
        \/ ~(whole("normalized") /\ disk["comparison"].is # "torn") /\ Fail
    BY <1>5 DEF CentralCell, Check
  <2> QED BY <1>1, <1>2, <2>1, <2>2, LooksStep DEF ReportStops
<1> QED BY <1>3, <1>4, <1>5

\* What is there is looked at.
LEMMA InspectStep ==
  ASSUME NEW p, NEW m, NEW i, NEW n, NEW s, Here(p, m, i, n, s), Inspect
  PROVE  ReportGoes(p, i) \/ ReportStops(m)
<1> DEFINE found_there == /\ \A f \in s.files : exists(f)
                          /\ \A f \in s.counted : whole(f)
<1>1. s.do = "inspect" /\ step = s /\ InspectNote(s, n, m)
  BY DEF Inspect, Running, Here, ReportNeeds
<1>2. \/ found_there /\ Proceed /\ UNCHANGED <<disk, anchor_rate, made, held, snapshot>>
      \/ ~found_there /\ Fail
  BY <1>1 DEF Inspect, Check
<1>3. ASSUME found_there, Proceed, UNCHANGED <<disk, anchor_rate, made, held, snapshot>>
      PROVE  ReportGoes(p, i)
  <2>1. SameReport /\ SameMemory
    BY <1>3, ProceedSame DEF SameReport, SameMemory
  <2>2. ReportBase' /\ ReportAt(after_inspect(s, n))'
    BY <1>3, <2>1, InspectKeeps DEF Here
  <2>3. after(s, n) = after_inspect(s, n)
    BY <1>1, AfterKinds
  <2> QED BY <1>3, <2>2, <2>3, GoesAfter
<1>4. Reasonless(m) => found_there
  BY <1>1, Inspected DEF Here
<1> HIDE DEF found_there
<1> QED BY <1>2, <1>3, <1>4 DEF ReportStops

\* The manifests are compared.
LEMMA ManifestsStep ==
  ASSUME NEW p, NEW m, NEW i, NEW n, NEW s, Here(p, m, i, n, s), ManifestsCell
  PROVE  ReportGoes(p, i) \/ ReportStops(m)
<1> DEFINE joined == \A f \in s.files : disk[f] = file(disk[s.file].from)
<1>1. s.do = "manifests_cell" /\ step = s /\ s.files \cup {s.file} \subseteq Manifests \cap relied(n, m)
  BY DEF ManifestsCell, Running, Here, ReportNeeds
<1>2. \/ joined /\ Proceed /\ UNCHANGED <<disk, anchor_rate, made, held, snapshot>>
      \/ ~joined /\ Fail
  BY <1>1 DEF ManifestsCell, Check
<1>3. ASSUME joined, Proceed, UNCHANGED <<disk, anchor_rate, made, held, snapshot>>
      PROVE  ReportGoes(p, i)
  <2>1. SameReport /\ SameMemory
    BY <1>3, ProceedSame DEF SameReport, SameMemory
  <2>2. ReportBase' /\ ReportAt(after_manifests(s, n))'
    BY <1>3, <2>1, ManifestsKeeps DEF Here
  <2>3. after(s, n) = after_manifests(s, n)
    BY <1>1, AfterKinds
  <2> QED BY <1>3, <2>2, <2>3, GoesAfter
<1>4. ASSUME Reasonless(m) PROVE joined
  <2>1. \A f \in s.files \cup {s.file} : disk[f] = disk["workload"]
    BY <1>1, <1>4, ReliedManifest DEF Here
  <2>2. PICK w \in Nat : disk["workload"] = file(only(w)) /\ disk["workload"].from = only(w)
    BY TheWorkload DEF Here, ReportBase
  <2> QED BY <2>1, <2>2
<1> HIDE DEF joined
<1> QED BY <1>2, <1>3, <1>4 DEF ReportStops

\* What was computed is compared.
LEMMA ReproduceStep ==
  ASSUME NEW p, NEW m, NEW i, NEW n, NEW s, Here(p, m, i, n, s), Reproduce
  PROVE  ReportGoes(p, i) \/ ReportStops(m)
<1> DEFINE same == agree(on(made \cup contents(s.reads), s.of), disk[s.file].from)
<1>1. s.do = "reproduce" /\ step = s /\ ReproduceNote(s, n, m)
  BY DEF Reproduce, Running, Here, ReportNeeds
<1>2. \/ same /\ Proceed /\ UNCHANGED <<disk, anchor_rate, made, held, snapshot>>
      \/ ~same /\ Fail
  BY <1>1 DEF Reproduce, Check
<1>3. ASSUME same, Proceed, UNCHANGED <<disk, anchor_rate, made, held, snapshot>>
      PROVE  ReportGoes(p, i)
  <2>1. SameReport /\ SameMemory
    BY <1>3, ProceedSame DEF SameReport, SameMemory
  <2>2. ReportBase' /\ ReportAt(after_reproduce(s, n))'
    BY <1>1, <1>3, <2>1, ReproduceKeeps DEF Here
  <2>3. after(s, n) = after_reproduce(s, n)
    BY <1>1, AfterKinds
  <2> QED BY <1>3, <2>2, <2>3, GoesAfter
<1>4. Reasonless(m) => same
  BY <1>1, Reproduces DEF Here
<1> HIDE DEF same
<1> QED BY <1>2, <1>3, <1>4 DEF ReportStops

\* A table or a manifest is written.
LEMMA WriteStep ==
  ASSUME NEW p, NEW m, NEW i, NEW n, NEW s, Here(p, m, i, n, s), Write \/ Replace \/ Record
  PROVE  ReportGoes(p, i)
<1>1. /\ s.do \in {"write", "replace", "record"} /\ step = s /\ Proceed
      /\ s.do \in {"write", "replace"} => WriteNote(s, n)
      /\ s.do = "record" => RecordNote(s, n)
      /\ made' = made /\ held' = held /\ snapshot' = snapshot
  BY DEF Write, Replace, Record, Running, Here, ReportNeeds
<1>2. PICK x : /\ s.do = "record" => x = file(on(made, {"workload"}))
               /\ s.do # "record" => x = file(made)
  <2>1. CASE s.do = "record"
    BY <2>1
  <2>2. CASE s.do # "record"
    BY <2>2
  <2> QED BY <2>1, <2>2
<1>3. WritesOn(s, n, x)
  BY <1>1, <1>2 DEF WritesOn
<1>4. Becomes(s.file, x)
  <2>1. CASE Write
    BY <1>1, <1>2, <2>1 DEF Write, Running, Becomes
  <2>2. CASE Replace
    BY <1>1, <1>2, <2>2 DEF Replace, Running, Becomes
  <2>3. CASE Record
    BY <1>1, <1>2, <2>3 DEF Record, Running, Becomes
  <2> QED BY <2>1, <2>2, <2>3
<1>5. anchor_rate \in {64, 96}
  BY DEF Here, ReportBase, ReportDisk
<1>6. /\ s.do = "replace" => anchor_rate' = IF s.file = "anchor" THEN s.rate ELSE anchor_rate
      /\ s.do # "replace" => anchor_rate' = anchor_rate
  BY <1>1 DEF Write, Replace, Record, Running
<1>7. /\ anchor_rate' \in {64, 96}
      /\ s.file # "anchor" => anchor_rate' = anchor_rate
      /\ s.do = "replace" /\ s.file = "anchor" => anchor_rate' = s.rate
  <2>1. s.do = "replace" => s.rate \in {0, 64, 96} /\ (s.file = "anchor" => s.rate # 0)
    BY <1>1 DEF WriteNote
  <2> QED BY <1>5, <1>6, <2>1
<1>8. SameMemory /\ changes' = changes
  BY <1>1, ProceedSame DEF SameMemory
<1>9. ReportBase' /\ ReportAt(after_write(s, n))'
  BY <1>3, <1>4, <1>7, <1>8, WriteKeeps DEF Here
<1>10. after(s, n) = after_write(s, n)
  BY <1>1, AfterKinds
<1> QED BY <1>1, <1>9, <1>10, GoesAfter

\* Every step of a pass over the report.
LEMMA ReportStep ==
  ASSUME NEW p, NEW m, NEW i, NEW n, NEW s, Here(p, m, i, n, s), Step
  PROVE  ReportGoes(p, i) \/ ReportStops(m)
<1>1. ~Running("derive") /\ ~Running("resume") /\ ~Running("save") /\ ~Running("unlink")
  BY DEF Running, Here, ReportNeeds
<1>2. ~Derive /\ ~Resume /\ ~Save /\ ~Unlink
  BY <1>1 DEF Derive, Resume, Save, Unlink
<1>3. \/ Write \/ Add \/ Open \/ Inspect
      \/ SourceSnapshot \/ VerifySources \/ Replace \/ Record \/ Matches \/ Reproduce \/ Unchanged
      \/ SurfaceCache \/ BaselineCell \/ DerivedCell \/ CentralCell \/ ManifestsCell
  BY <1>2 DEF Step
<1> QED BY <1>3, WriteStep, AddStep, OpenStep, InspectStep, SnapshotStep, VerifyStep, MatchesStep,
           ReproduceStep, UnchangedStep, CacheStep, CellStep, ManifestsStep

-----------------------------------------------------------------------------
(* What a pass over the report leaves, and what happens around it.         *)

\* What is known when a pass of mode m is through.
Through(n, m) ==
  /\ NoteNames(n) /\ Vouched \subseteq n.there \cup n.sure /\ n.joined /\ n.summed
  /\ m = "fresh" => ReportTables \subseteq n.sure \cap n.sound /\ n.caught
ThroughHolds == \A n, m : chain = "report" /\ ReportBase /\ ReportAt(n) /\ Through(n, m) =>
  OneWorkload /\ (m = "fresh" /\ steady => Complete)

\* Every table compared is by some manifest, and has rows of a workload.
LEMMA VouchedSomewhere ==
  ASSUME NEW f \in Vouched \ {"summary"}
  PROVE  (\E g \in DOMAIN vouched_by : f \in vouched_by[g]) /\ "workload" \in has_of(f)
<1>1. f \in {"tail", "comparison", "surface", "surface_paths", "reselected",
             "normalized", "fixed_7999", "diagnostic", "capped"}
  BY DEF Vouched
<1>2. /\ "comparison_manifest" \in DOMAIN vouched_by /\ vouched_by["comparison_manifest"] = {"tail", "comparison"}
      /\ "robustness_manifest" \in DOMAIN vouched_by /\ vouched_by["robustness_manifest"] = Surfaces \cup {"reselected"}
      /\ "eip8372_manifest" \in DOMAIN vouched_by /\ vouched_by["eip8372_manifest"] = {"normalized", "fixed_7999"}
      /\ "diagnostic_manifest" \in DOMAIN vouched_by /\ vouched_by["diagnostic_manifest"] = {"diagnostic"}
      /\ "capped_manifest" \in DOMAIN vouched_by /\ vouched_by["capped_manifest"] = {"capped"}
  BY DEF vouched_by
<1>3. \E g \in DOMAIN vouched_by : f \in vouched_by[g]
  <2>1. CASE f \in {"tail", "comparison"}
    BY <1>2, <2>1
  <2>2. CASE f \in {"surface", "surface_paths", "reselected"}
    BY <1>2, <2>2 DEF Surfaces
  <2>3. CASE f \in {"normalized", "fixed_7999"}
    BY <1>2, <2>3
  <2>4. CASE f = "diagnostic"
    BY <1>2, <2>4
  <2>5. CASE f = "capped"
    BY <1>2, <2>5
  <2> QED BY <1>1, <2>1, <2>2, <2>3, <2>4, <2>5
<1>4. "workload" \in has_of(f)
  <2>1. CASE f = "comparison"
    BY <2>1 DEF has_of, ReportSources, Bare, Manifests
  <2>2. CASE f # "comparison"
    BY <1>1, <2>2 DEF has_of, ReportSources, Bare, Manifests
  <2> QED BY <2>1, <2>2
<1> QED BY <1>3, <1>4

\* The tables behind manifests that are all the same replay one workload.
LEMMA JoinedWorkload ==
  ASSUME ReportBase, NEW n, ReportAt(n), NEW m, Through(n, m)
  PROVE  OneWorkload
<1>1. /\ Vouched \subseteq n.there \cup n.sure /\ n.joined /\ n.summed
      /\ \A f \in n.sure : whole(f)
      /\ \A f \in n.there : exists(f)
  BY DEF Through, ReportAt, FilesAt
<1>2. /\ \A g \in Manifests : disk[g] = file(disk["factorial_manifest"].from)
      /\ disk["summary"].from = disk["comparison"].from \cup disk["normalized"].from
  BY <1>1 DEF ReportAt, FilesAt
<1>3. disk["factorial_manifest"] = file(disk["factorial_manifest"].from) /\ whole("factorial_manifest")
  BY <1>2, ReportNames DEF whole, file
<1>4. PICK w \in Nat : disk["factorial_manifest"].from = only(w)
  BY <1>3 DEF ReportBase, Recorded
<1>5. \A g \in Manifests : disk[g] = file(only(w))
  BY <1>2, <1>4
<1>6. ASSUME NEW f \in Vouched \ {"summary"} PROVE of_workload(disk[f].from) = only(w)
  <2>1. PICK g \in DOMAIN vouched_by : f \in vouched_by[g]
    BY VouchedSomewhere
  <2>2. g \in Manifests /\ "factorial_manifest" \in Manifests /\ f \in ReportTables /\ f \in ReportFiles
    BY <2>1, VouchedNames, ReportNames
  <2>3. ASSUME NEW v \in of_workload(disk[f].from) PROVE v = <<"workload", w>>
    <3>1. w <= v[2]
      BY <1>5, <2>1, <2>2 DEF ReportBase, Vouching
    <3>2. v[2] <= w
      BY <1>5, <2>2 DEF ReportBase, Bounded
    <3>3. v \in disk[f].from /\ v[1] = "workload"
      BY WorkloadRows
    <3>4. v = <<v[1], v[2]>> /\ v[2] \in Nat
      BY <2>2, <3>3 DEF ReportBase, ReportDisk, Latest, UpTo
    <3>5. v[2] = w
      BY <1>4, <3>1, <3>2, <3>4
    <3> QED BY <3>3, <3>4, <3>5
  <2>4. exists(f)
    BY <1>1 DEF exists, whole
  <2>5. of_workload(disk[f].from) # {}
    BY <2>2, <2>4, VouchedSomewhere DEF ReportBase, HasOwn, of_workload
  <2> QED BY <2>3, <2>5 DEF only
<1>7. of_workload(disk["summary"].from) = only(w)
  <2>1. of_workload(disk["comparison"].from) = only(w) /\ of_workload(disk["normalized"].from) = only(w)
    BY <1>6, ReportNames
  <2> QED BY <1>2, <2>1 DEF of_workload, on
<1> SUFFICES ASSUME NEW f \in Vouched PROVE of_workload(disk[f].from) = disk["factorial_manifest"].from
  BY DEF OneWorkload, of_workload
<1> QED BY <1>4, <1>6, <1>7

\* With results that replay the workload, the tables written are current.
LEMMA SoundComplete ==
  ASSUME chain = "report", ReportBase, NEW n, ReportAt(n), Through(n, "fresh"), steady
  PROVE  Complete
<1>1. /\ ReportTables \subseteq n.sure /\ ReportTables \subseteq n.sound /\ n.caught
  BY DEF Through
<1>2. \A v \in disk["results"].from : v[1] = "workload" => v \in disk["workload"].from
  BY <1>1 DEF ReportAt, SteadyAt
<1>3. ASSUME NEW v \in replayed PROVE v \in current
  <2>1. PICK s \in ReportSources : v \in disk[s].from
    BY DEF replayed
  <2>2. CASE v[1] = s
    <3>1. v \in on(disk[s].from, {s})
      BY <2>1, <2>2 DEF on
    <3> QED BY <3>1, ReportCurrent
  <2>3. CASE v[1] # s
    <3>1. s = "results" /\ v[1] = "workload"
      BY <2>1, <2>3, SourceRow DEF ReportBase
    <3>2. v \in on(disk["workload"].from, {"workload"}) /\ "workload" \in ReportSources
      BY <1>2, <2>1, <3>1, ReportNames DEF on
    <3> QED BY <3>2, ReportCurrent
  <2> QED BY <2>2, <2>3
<1>4. \A f \in ReportTables : whole(f) /\ disk[f].from \subseteq replayed
  BY <1>1 DEF ReportAt, FilesAt, SteadyAt
<1>5. Tables[chain] = ReportTables
  BY DEF Tables
<1> QED BY <1>3, <1>4, <1>5 DEF Complete

\* When a pass is through, its tables replay one workload and, if it was fresh,
\* are current.
LEMMA PassThrough == ThroughHolds
<1> SUFFICES ASSUME NEW n, NEW m, chain = "report", ReportBase, ReportAt(n), Through(n, m)
             PROVE  OneWorkload /\ (m = "fresh" /\ steady => Complete)
  BY DEF ThroughHolds
<1>1. OneWorkload
  BY JoinedWorkload
<1>2. ASSUME m = "fresh", steady PROVE Complete
  <2>1. Through(n, "fresh")
    BY <1>2
  <2> QED BY <1>2, <2>1, SoundComplete
<1> QED BY <1>1, <1>2

\* So after its last step.
LEMMA PassThroughNext == ThroughHolds'
BY PassThrough, PTL

\* What a pass over the report keeps.
ReportKept == 
  /\ ReportBase' /\ Claims' /\ changes' \in Nat
  /\ at' = 0 \/ \E p, m, i : ReportPass(p, m, i)'

\* While a pass runs nothing is claimed.
LEMMA RunningClaims == at' # 0 => Claims'
BY DEF Claims, FreshPassIsCurrent, FreshFailsForAReason, ReuseOfACompleteRun, VerifiedTablesAgree, Ended

\* A step that goes on is followed by another, or by the end of the pass.
LEMMA ReportGoesOn ==
  ASSUME NEW p, NEW m, NEW i, ReportPass(p, m, i), ReportGoes(p, i), changes \in Nat
  PROVE  ReportKept
<1>1. /\ chain = "report" /\ m \in Modes.report /\ mode = m /\ script = p /\ p = report(m)
      /\ i \in 1..Len(p) /\ Len(p) \in Nat \ {0} /\ at = i /\ program[chain][mode] = p
  BY DEF ReportPass, script
<1>2. /\ ReportBase' /\ chain' = chain /\ mode' = mode /\ steady' = steady /\ changes' = changes
  BY DEF ReportGoes, Proceed, Jumps
<1>3. script' = p
  BY <1>1, <1>2 DEF script
<1>4. ASSUME NEW j, j \in 1..Len(p), at' = j, ReportAt(notes(p)[j])' PROVE ReportKept
  <2>1. ReportPass(p, m, j)'
    BY <1>1, <1>2, <1>3, <1>4 DEF ReportPass
  <2>2. at' # 0
    BY <1>4
  <2> QED BY <1>2, <2>1, <2>2, RunningClaims DEF ReportKept
<1>5. CASE Jumps(p, i)
  <2>1. PICK j : j = i + 3
    OBVIOUS
  <2>2. j \in 1..Len(p) /\ at' = j /\ ReportAt(notes(p)[j])'
    BY <1>1, <1>5, <2>1 DEF Jumps
  <2> QED BY <1>4, <2>2
<1>6. CASE Proceed /\ ReportAt(notes(p)[i+1])' /\ i # Len(p)
  <2>1. PICK j : j = i + 1
    OBVIOUS
  <2>2. j \in 1..Len(p) /\ at' = j /\ ReportAt(notes(p)[j])'
    BY <1>1, <1>6, <2>1 DEF Proceed
  <2> QED BY <1>4, <2>2
<1>7. CASE Proceed /\ ReportAt(notes(p)[i+1])' /\ i = Len(p)
  <2>1. at' = 0 /\ outcome' = "verified"
    BY <1>1, <1>7 DEF Proceed
  <2>2. PICK n : n = notes(p)[Len(p) + 1]
    OBVIOUS
  <2>3. ReportAt(n)'
    BY <1>7, <2>2
  <2>4. Through(n, m)
    BY <1>1, <2>2, ReportNotes DEF ReportFacts, ReportEndFacts, Through
  <2>5. OneWorkload' /\ (m = "fresh" /\ steady' => Complete')
    <3>1. ThroughHolds'
      BY PassThroughNext
    <3> QED BY <1>1, <1>2, <2>3, <2>4, <3>1 DEF ThroughHolds
  <2>6. Claims'
    BY <1>1, <1>2, <2>1, <2>5 DEF Claims, FreshPassIsCurrent, FreshFailsForAReason, ReuseOfACompleteRun, VerifiedTablesAgree, Ended
  <2> QED BY <1>2, <2>1, <2>6 DEF ReportKept
<1> QED BY <1>5, <1>6, <1>7 DEF ReportGoes

\* The reasons to stop are of the disk alone.
LEMMA ReportReasons ==
  ASSUME disk' = disk, chain' = chain
  PROVE  /\ (surface_obstructed' <=> surface_obstructed) /\ (lagging' <=> lagging)
         /\ (Complete' <=> Complete) /\ (OneWorkload' <=> OneWorkload)
<1>1. current' = current
  BY DEF current
<1>2. surface_obstructed' <=> surface_obstructed
  BY <1>1 DEF surface_obstructed, cached, exists
<1>3. lagging' <=> lagging
  BY <1>1 DEF lagging
<1>4. Complete' <=> Complete
  BY <1>1 DEF Complete, whole
<1>5. OneWorkload' <=> OneWorkload
  BY DEF OneWorkload
<1> QED BY <1>2, <1>3, <1>4, <1>5

\* Of the report, a surface alone can be in the way.
LEMMA ReportObstructed == chain = "report" => (obstructed <=> surface_obstructed)
BY DEF obstructed

\* A pass that fails, fails for a reason.
LEMMA ReportFails ==
  ASSUME NEW p, NEW m, NEW i, ReportPass(p, m, i), ReportStops(m), changes \in Nat
  PROVE  ReportKept
<1>1. /\ disk' = disk /\ anchor_rate' = anchor_rate /\ chain' = chain /\ mode' = mode /\ steady' = steady
      /\ at' = 0 /\ changes' = changes /\ outcome' = "failed" /\ ~Reasonless(m)
  BY DEF ReportStops, Fail, Stop
<1>2. /\ ReportBase /\ mode = m /\ chain = "report"
  BY DEF ReportPass
<1>3. ReportBase'
  BY <1>1, <1>2, ReportSame DEF SameReport
<1>4. /\ (surface_obstructed' <=> surface_obstructed) /\ (lagging' <=> lagging)
      /\ (Complete' <=> Complete)
  BY <1>1, ReportReasons
<1>5. surface_obstructed' => obstructed'
  BY <1>1, <1>2 DEF obstructed
<1>6. steady' => surface_obstructed' \/ IF m = "fresh" THEN lagging' ELSE ~Complete'
  BY <1>1, <1>2, <1>4 DEF Reasonless
<1>7. FreshFailsForAReason'
  BY <1>1, <1>2, <1>5, <1>6 DEF FreshFailsForAReason, Ended
<1>8. ReuseOfACompleteRun'
  BY <1>1, <1>2, <1>5, <1>6 DEF ReuseOfACompleteRun
<1>9. FreshPassIsCurrent' /\ VerifiedTablesAgree'
  BY <1>1 DEF FreshPassIsCurrent, VerifiedTablesAgree, Ended
<1> QED BY <1>1, <1>3, <1>7, <1>8, <1>9 DEF ReportKept, Claims

\* A kill leaves a file that fits, wherever it comes.
LEMMA ReportKill ==
  ASSUME NEW p, NEW m, NEW i, ReportPass(p, m, i), Kill, changes \in Nat
  PROVE  ReportKept
<1>1. /\ anchor_rate' = anchor_rate /\ at' = 0 /\ changes' = changes /\ outcome' = "killed"
  BY DEF Kill, Stop
<1>2. Claims'
  BY <1>1 DEF Claims, FreshPassIsCurrent, FreshFailsForAReason, ReuseOfACompleteRun, VerifiedTablesAgree, Ended
<1>3. PICK n, s : Here(p, m, i, n, s)
  BY StepHere
<1>4. ReportBase /\ ReportAt(n) /\ step = s /\ ReportNeeds(s, n, m) /\ anchor_rate \in {64, 96}
  BY <1>3 DEF Here, ReportBase, ReportDisk
<1>5. CASE disk' = disk
  BY <1>1, <1>2, <1>4, <1>5, ReportSame DEF SameReport, ReportKept
<1>6. CASE disk' # disk
  <2>1. PICK x \in left_behind : Becomes(s.file, x)
    BY <1>4, <1>6 DEF Kill, Becomes
  <2>2. CASE s.do = "write"
    <3>1. WriteNote(s, n) /\ s.file \in ReportTables
      BY <1>4, <2>2 DEF ReportNeeds, WriteNote
    <3>2. x = torn(s.file, made)
      BY <1>4, <2>1, <2>2 DEF left_behind
    <3>3. Fits(s.file, x)
      BY <1>4, <3>1, <3>2, WriteFits
    <3>4. ReportBase'
      BY <1>1, <1>4, <2>1, <3>1, <3>3, BaseOfFitting
    <3> QED BY <1>1, <1>2, <3>4 DEF ReportKept
  <2>3. CASE s.do = "record"
    <3>1. RecordNote(s, n) /\ s.file \in ReportTables
      BY <1>4, <2>3, ReportNames DEF ReportNeeds, RecordNote
    <3>2. x = torn(s.file, {})
      BY <1>4, <2>1, <2>3 DEF left_behind
    <3>3. Fits(s.file, x)
      BY <1>4, <3>1, <3>2, RecordFits
    <3>4. ReportBase'
      BY <1>1, <1>4, <2>1, <3>1, <3>3, BaseOfFitting
    <3> QED BY <1>1, <1>2, <3>4 DEF ReportKept
  <2>4. CASE s.do \notin {"write", "record"}
    <3>1. s.do \notin {"write", "record", "save", "derive", "resume"}
      BY <1>4, <2>4 DEF ReportNeeds
    <3>2. left_behind = {}
      BY <1>4, <3>1 DEF left_behind
    <3> QED BY <2>1, <3>2
  <2> QED BY <2>2, <2>3, <2>4
<1> QED BY <1>5, <1>6

\* A pass begins and knows nothing.
LEMMA ReportBegins ==
  ASSUME chain = "report", ReportBase, NEW m \in Modes.report, BeginPass(m), changes \in Nat
  PROVE  ReportKept
<1>1. /\ disk' = disk /\ anchor_rate' = anchor_rate /\ chain' = chain /\ changes' = changes
      /\ made' = {} /\ held' = <<>> /\ snapshot' = <<>> /\ at' = 1 /\ mode' = m /\ steady' = TRUE
  BY DEF BeginPass
<1>2. ReportBase'
  BY <1>1, ReportSame DEF SameReport
<1>3. ReportAt(start)'
  <2>1. /\ start.sure = {} /\ start.there = {} /\ start.sound = {} /\ start.solid = {} /\ start.copies = {}
        /\ ~start.opened /\ ~start.anchored /\ ~start.caught /\ ~start.joined /\ ~start.summed
        /\ start.has = {} /\ ~start.summing /\ ~start.echo /\ start.guarded = {}
    BY DEF start
  <2>2. PICK n : n = start
    OBVIOUS
  <2>3. /\ n.sure = {} /\ n.there = {} /\ n.sound = {} /\ n.solid = {} /\ n.copies = {}
        /\ ~n.opened /\ ~n.anchored /\ ~n.caught /\ ~n.joined /\ ~n.summed
        /\ n.has = {} /\ ~n.summing /\ ~n.echo /\ n.guarded = {}
    BY <2>1, <2>2
  <2>4. DOMAIN held' = {} /\ DOMAIN snapshot' = {}
    BY <1>1
  <2>5. of_workload(made') = {}
    BY <1>1 DEF of_workload, on
  <2>6. MadeAt(n)'
    <3>1. UpTo(made)'
      BY <2>5 DEF UpTo
    <3> QED BY <1>1, <2>3, <3>1 DEF MadeAt
  <2>7. FilesAt(n)'
    BY <2>3 DEF FilesAt
  <2>8. SteadyAt(n)'
    BY <1>1, <2>3, <2>4 DEF SteadyAt
  <2>9. WorkloadAt(n)'
    BY <2>3, <2>5 DEF WorkloadAt
  <2>10. ReportAt(n)'
    BY <2>3, <2>4, <2>6, <2>7, <2>8, <2>9 DEF ReportAt
  <2> QED BY <2>2, <2>10
<1>4. PICK p : p = report(m)
  OBVIOUS
<1>5. Len(p) \in Nat \ {0} /\ notes(p)[1] = start
  BY <1>4, ReportNotes DEF ReportFacts
<1>6. 1 \in 1..Len(p) /\ script' = p
  BY <1>1, <1>4, <1>5 DEF script, program
<1>7. ReportAt(notes(p)[1])'
  <2>1. PICK k : k = notes(p)[1]
    OBVIOUS
  <2>2. k = start
    BY <1>5, <2>1
  <2> QED BY <1>3, <2>1, <2>2
<1>8. ReportPass(p, m, 1)'
  BY <1>1, <1>2, <1>4, <1>5, <1>6, <1>7 DEF ReportPass
<1> QED BY <1>1, <1>2, <1>8, RunningClaims DEF ReportKept

\* A source is regenerated: v is its new version.
Regenerates(s, v) ==
  /\ s \in ReportSources /\ v = kept_within(changes + 1)
  /\ disk' = [disk EXCEPT ![s] = file(regenerated(s, v))]
  /\ changes' = changes + 1 /\ anchor_rate' = anchor_rate

\* What was of no later workload still is.
LEMMA SourceMoved ==
  ASSUME ReportBase, NEW s, NEW v, Regenerates(s, v)
  PROVE  /\ v \in Nat /\ DOMAIN disk' = ReportFiles /\ disk'[s] = file(regenerated(s, v))
         /\ \A f \in ReportFiles \ {s} : disk'[f] = disk[f]
         /\ \A f \in ReportTables : disk'[f] = disk[f]
         /\ ReportDisk' /\ Latest'
         /\ \A w \in Nat : (\A u \in disk["workload"].from : w <= u[2])
                             => \A u \in disk'["workload"].from : w <= u[2]
<1>1. changes \in Nat /\ s \in ReportFiles /\ DOMAIN disk = ReportFiles
  BY ReportNames DEF ReportBase, Latest, ReportDisk, Regenerates
<1>2. v = 2 * changes + 1 /\ v \in Nat
  BY <1>1 DEF Regenerates, kept_within
<1>3. /\ DOMAIN disk' = ReportFiles /\ disk'[s] = file(regenerated(s, v))
      /\ \A f \in ReportFiles \ {s} : disk'[f] = disk[f]
  BY <1>1 DEF Regenerates
<1>4. \A f \in ReportTables : disk'[f] = disk[f]
  BY <1>3, ReportNames DEF Regenerates
<1>5. PICK w0 \in Nat : disk["workload"] = file(only(w0)) /\ disk["workload"].from = only(w0)
  BY TheWorkload DEF ReportBase
<1>6. w0 <= 2 * changes
  <2>1. <<"workload", w0>> \in disk["workload"].from
    BY <1>5 DEF only
  <2> QED BY <2>1 DEF ReportBase, Latest
<1>7. \E w1 \in Nat : /\ disk'["workload"] = file(only(w1)) /\ disk'["workload"].from = only(w1)
                      /\ w0 <= w1 /\ w1 <= 2 * changes'
  <2>1. changes' = changes + 1
    BY DEF Regenerates
  <2>2. CASE s = "workload"
    <3>1. regenerated(s, v) = only(v)
      BY <2>2 DEF regenerated, only
    <3>2. disk'["workload"] = file(only(v)) /\ disk'["workload"].from = only(v)
      BY <1>3, <2>2, <3>1 DEF file
    <3>3. w0 <= v /\ v <= 2 * (changes + 1)
      BY <1>1, <1>2, <1>6
    <3> QED BY <1>2, <2>1, <3>2, <3>3
  <2>3. CASE s # "workload"
    <3>1. disk'["workload"] = disk["workload"]
      BY <1>3, <2>3, ReportNames
    <3>2. w0 <= w0 /\ w0 <= 2 * (changes + 1)
      BY <1>1, <1>6
    <3> QED BY <1>5, <2>1, <3>1, <3>2
  <2> QED BY <2>2, <2>3
<1>8. PICK w1 \in Nat : /\ disk'["workload"] = file(only(w1)) /\ disk'["workload"].from = only(w1)
                        /\ w0 <= w1 /\ w1 <= 2 * changes'
  BY <1>7
<1>9. ASSUME NEW x \in Nat, \A u \in disk["workload"].from : x <= u[2]
      PROVE  \A u \in disk'["workload"].from : x <= u[2]
  <2>1. <<"workload", w0>> \in disk["workload"].from
    BY <1>5 DEF only
  <2>2. x <= w0
    BY <1>9, <2>1
  <2>3. x <= w1
    BY <1>8, <2>2
  <2>4. \A u \in disk'["workload"].from : u = <<"workload", w1>>
    BY <1>8 DEF only
  <2> QED BY <2>3, <2>4
<1>10. \A S : UpTo(S) => \A y \in of_workload(S) : y[2] \in Nat /\ \A u \in disk'["workload"].from : y[2] <= u[2]
  BY <1>9 DEF UpTo
<1>11. PICK T : T = regenerated(s, v)
  OBVIOUS
<1>12. disk'[s] = file(T) /\ disk'[s] = [is |-> "whole", from |-> T] /\ disk'[s].from = T
  BY <1>3, <1>11 DEF file
<1>13. /\ \A y \in T : y = <<y[1], y[2]>>
       /\ s # "results" => T = {<<s, v>>}
       /\ s = "results" => T = {<<"results", v>>, <<"workload", w0>>}
  BY <1>5, <1>11 DEF regenerated, only
<1>14. ReportDisk'
  <2>1. \A f \in ReportFiles :
         /\ disk'[f] = [is |-> disk'[f].is, from |-> disk'[f].from]
         /\ disk'[f].is \in {"none", "torn", "whole"}
         /\ disk'[f].is = "none" => disk'[f].from = {}
         /\ \A y \in disk'[f].from : y = <<y[1], y[2]>>
    <3> TAKE f \in ReportFiles
    <3>1. CASE f = s
      BY <1>12, <1>13, <3>1
    <3>2. CASE f # s
      BY <1>3, <3>2 DEF ReportBase, ReportDisk
    <3> QED BY <3>1, <3>2
  <2>2. \A t \in ReportSources \ {"results"} : \E y \in Nat : disk'[t] = file({<<t, y>>})
    <3> TAKE t \in ReportSources \ {"results"}
    <3>1. CASE t = s
      BY <1>2, <1>12, <1>13, <3>1
    <3>2. CASE t # s
      <4>1. disk'[t] = disk[t]
        BY <1>3, <3>2, ReportNames
      <4> QED BY <4>1 DEF ReportBase, ReportDisk
    <3> QED BY <3>1, <3>2
  <2>3. \E y, w \in Nat : disk'["results"] = file({<<"results", y>>, <<"workload", w>>})
    <3>1. CASE s = "results"
      BY <1>2, <1>12, <1>13, <3>1
    <3>2. CASE s # "results"
      <4>1. disk'["results"] = disk["results"]
        BY <1>3, <3>2, ReportNames
      <4>2. \E y, w \in Nat : disk["results"] = file({<<"results", y>>, <<"workload", w>>})
        BY DEF ReportBase, ReportDisk
      <4> QED BY <4>1, <4>2
    <3> QED BY <3>1, <3>2
  <2>4. anchor_rate' \in {64, 96}
    BY DEF Regenerates, ReportBase, ReportDisk
  <2> QED BY <1>3, <2>1, <2>2, <2>3, <2>4 DEF ReportDisk
<1>15. Latest'
  <2>1. ASSUME NEW f \in ReportFiles PROVE UpTo(disk[f].from)'
    <3>1. CASE f # s
      <4>1. PICK S : S = disk[f].from
        OBVIOUS
      <4>2. UpTo(S) /\ disk'[f].from = S
        BY <1>3, <3>1, <4>1 DEF ReportBase, Latest
      <4> QED BY <1>10, <4>2 DEF UpTo
    <3>2. CASE f = s
      <4>1. ASSUME NEW y \in of_workload(T) PROVE y[2] \in Nat /\ \A u \in disk'["workload"].from : y[2] <= u[2]
        <5>1. y \in T /\ y[1] = "workload"
          BY <4>1, WorkloadRows
        <5>2. CASE s = "workload"
          <6>1. y[2] = v /\ disk'["workload"].from = {<<"workload", v>>}
            BY <1>12, <1>13, <5>1, <5>2
          <6> QED BY <1>2, <6>1
        <5>3. CASE s # "workload"
          <6>1. y[2] = w0
            BY <1>13, <5>1, <5>3, ReportNames DEF Regenerates
          <6>2. \A u \in disk'["workload"].from : u = <<"workload", w1>>
            BY <1>8 DEF only
          <6> QED BY <1>8, <6>1, <6>2
        <5> QED BY <5>2, <5>3
      <4> QED BY <1>12, <3>2, <4>1 DEF UpTo
    <3> QED BY <3>1, <3>2
  <2>2. changes' \in Nat /\ \A u \in disk'["workload"].from : u[2] <= 2 * changes'
    BY <1>1, <1>8 DEF only, Regenerates
  <2> QED BY <2>1, <2>2 DEF Latest
<1> QED BY <1>2, <1>3, <1>4, <1>9, <1>14, <1>15

\* What holds of tables does not depend on the sources.
LEMMA BaseOfTables ==
  ASSUME ReportBase, ReportDisk', Latest', \A f \in ReportTables : disk'[f] = disk[f]
  PROVE  ReportBase'
<1>1. HasOwn /\ Legible /\ Recorded /\ BareRows /\ Vouching /\ Bounded
  BY DEF ReportBase
<1>2. \A f \in ReportTables : (exists(f)' <=> exists(f)) /\ (whole(f)' <=> whole(f))
  BY DEF exists, whole
<1>3. HasOwn' /\ Legible'
  BY <1>1, <1>2 DEF HasOwn, Legible
<1>4. "factorial_manifest" \in ReportTables /\ Manifests \subseteq ReportTables /\ Bare \subseteq ReportTables
      /\ Vouched \subseteq ReportTables
  BY ReportNames
<1>5. Recorded'
  BY <1>1, <1>2, <1>4 DEF Recorded
<1>6. BareRows'
  BY <1>1, <1>4 DEF BareRows
<1>7. Vouching'
  <2> SUFFICES ASSUME NEW g \in DOMAIN vouched_by, NEW w \in Nat, disk'[g] = file(only(w)),
                      NEW f \in vouched_by[g], NEW v \in of_workload(disk'[f].from)
               PROVE  w <= v[2]
    BY DEF Vouching
  <2>1. g \in ReportTables /\ f \in ReportTables
    BY <1>4, VouchedNames
  <2>2. disk'[g] = disk[g] /\ disk'[f] = disk[f]
    BY <2>1
  <2> QED BY <1>1, <2>2 DEF Vouching
<1>8. Bounded'
  BY <1>1, <1>4 DEF Bounded
<1> QED BY <1>3, <1>5, <1>6, <1>7, <1>8 DEF ReportBase

\* A pass goes on over a source that was regenerated.
LEMMA PassOverRegenerated ==
  ASSUME ReportBase, NEW n, ReportAt(n), NoteNames(n), NEW s, NEW v, Regenerates(s, v),
         made' = made, held' = held, snapshot' = snapshot, steady' = FALSE
  PROVE  ReportAt(n)'
<1>1. /\ \A f \in ReportTables : disk'[f] = disk[f]
      /\ \A w \in Nat : (\A u \in disk["workload"].from : w <= u[2])
                          => \A u \in disk'["workload"].from : w <= u[2]
      /\ anchor_rate' = anchor_rate
  BY SourceMoved DEF Regenerates
<1>2. {"comparison", "normalized", "summary", "surface", "surface_paths"} \subseteq ReportTables
      /\ Manifests \subseteq ReportTables /\ Vouched \subseteq ReportTables /\ "factorial_manifest" \in ReportTables
  BY ReportNames DEF Surfaces
<1>3. n.sure \cup n.there \cup n.sound \cup n.solid \cup n.copies \subseteq ReportTables
  BY DEF NoteNames
<1>4. MadeAt(n)'
  <2>1. MadeAt(n)
    BY DEF ReportAt
  <2>2. UpTo(made)'
    <3>1. UpTo(made)
      BY <2>1 DEF MadeAt
    <3> QED BY <1>1, <3>1 DEF UpTo
  <2>3. /\ n.summing => made' = disk'["comparison"].from \cup disk'["normalized"].from
        /\ n.echo => made' \subseteq disk'["surface"].from \cup disk'["surface_paths"].from
    BY <1>1, <1>2, <2>1 DEF MadeAt
  <2>4. /\ \A y \in made' : y = <<y[1], y[2]>>
        /\ \A t \in n.has : on(made', {t}) # {}
        /\ n.legible => \A y \in made' : y[1] \in ReportSources
    BY <2>1 DEF MadeAt
  <2> QED BY <2>2, <2>3, <2>4 DEF MadeAt
<1>5. FilesAt(n)'
  <2>1. FilesAt(n)
    BY DEF ReportAt
  <2>2. /\ \A f \in n.sure : disk'[f].is = "whole"
        /\ \A f \in n.there : disk'[f].is # "none"
        /\ \A f \in n.copies : disk'[f] = file(made')
    BY <1>1, <1>3, <2>1 DEF FilesAt, whole, exists
  <2>3. n.joined => \A g \in Manifests : disk'[g] = file(disk'["factorial_manifest"].from)
    BY <1>1, <1>2, <2>1 DEF FilesAt
  <2>4. n.summed => disk'["summary"].from = disk'["comparison"].from \cup disk'["normalized"].from
    BY <1>1, <1>2, <2>1 DEF FilesAt
  <2>5. n.anchored => anchor_rate' = 64
    BY <1>1, <2>1 DEF FilesAt
  <2> QED BY <2>2, <2>3, <2>4, <2>5 DEF FilesAt, whole, exists
<1>6. SteadyAt(n)'
  BY DEF SteadyAt
<1>7. WorkloadAt(n)'
  <2>1. CASE n.opened
    <3>1. PICK w \in Nat : OpenedOn(n, w)
      BY <2>1 DEF ReportAt, WorkloadAt
    <3>2. \A u \in disk'["workload"].from : w <= u[2]
      BY <1>1, <3>1 DEF OpenedOn
    <3>3. /\ \A f \in n.solid : of_workload(disk'[f].from) = only(w)
          /\ \A f \in Vouched : \A y \in of_workload(disk'[f].from) : y[2] <= w
          /\ \A g \in Manifests : \A x \in Nat : disk'[g] = file(only(x)) => x <= w
      BY <1>1, <1>2, <1>3, <3>1 DEF OpenedOn
    <3>4. /\ n.firm => of_workload(made') \subseteq only(w)
          /\ n.touched => <<"workload", w>> \in made'
      BY <3>1 DEF OpenedOn
    <3>5. OpenedOn(n, w)'
      BY <3>2, <3>3, <3>4 DEF OpenedOn
    <3> QED BY <2>1, <3>5 DEF WorkloadAt
  <2>2. CASE ~n.opened
    BY <2>2 DEF ReportAt, WorkloadAt
  <2> QED BY <2>1, <2>2
<1> QED BY <1>4, <1>5, <1>6, <1>7 DEF ReportAt

\* A source is regenerated before a pass or inside one.
LEMMA ReportRegenerate ==
  ASSUME chain = "report", ReportBase, Claims, changes \in Nat, NEW s, Regenerate(s),
         at = 0 \/ \E p, m, i : ReportPass(p, m, i)
  PROVE  ReportKept
<1>1. PICK v : Regenerates(s, v)
  <2>1. s \in ReportSources /\ chain # "handoffs"
    BY DEF Regenerate, Sources
  <2>2. PICK v : v = kept_within(changes + 1)
    OBVIOUS
  <2>3. disk' = [disk EXCEPT ![s] = file(regenerated(s, v))]
    BY <2>1, <2>2 DEF Regenerate
  <2> QED BY <2>1, <2>2, <2>3 DEF Regenerates, Regenerate
<1>2. /\ made' = made /\ held' = held /\ snapshot' = snapshot /\ mode' = mode /\ at' = at
      /\ steady' = FALSE /\ chain' = chain /\ outcome' = outcome
  BY DEF Regenerate, pass
<1>3. ReportDisk' /\ Latest' /\ \A f \in ReportTables : disk'[f] = disk[f]
  BY <1>1, SourceMoved
<1>4. ReportBase'
  BY <1>3, BaseOfTables
<1>5. changes' \in Nat
  BY <1>1 DEF Regenerates
<1>6. OneWorkload' <=> OneWorkload
  BY <1>3, ReportNames DEF OneWorkload
<1>7. Claims'
  BY <1>2, <1>6 DEF Claims, FreshPassIsCurrent, FreshFailsForAReason, ReuseOfACompleteRun, VerifiedTablesAgree
<1>8. ASSUME NEW p, NEW m, NEW i, ReportPass(p, m, i) PROVE ReportPass(p, m, i)'
  <2>1. PICK n : n = notes(p)[i]
    OBVIOUS
  <2>2. NoteNames(n) /\ ReportAt(n)
    <3>1. PICK k, t : Here(p, m, i, k, t)
      BY <1>8, StepHere
    <3> QED BY <2>1, <3>1 DEF Here
  <2>3. ReportAt(n)'
    BY <1>1, <1>2, <2>2, PassOverRegenerated
  <2>4. script' = script
    BY <1>2 DEF script
  <2> QED BY <1>2, <1>4, <1>8, <2>1, <2>3, <2>4 DEF ReportPass
<1> QED BY <1>2, <1>4, <1>5, <1>7, <1>8 DEF ReportKept

\* Surfaces that cannot be taken are removed.
LEMMA ReportRemoves ==
  ASSUME chain = "report", ReportBase, changes \in Nat, RemoveObstruction
  PROVE  ReportKept
<1>1. /\ disk' = [f \in DOMAIN disk |-> IF f \in Surfaces THEN missing ELSE disk[f]]
      /\ outcome' = "none" /\ at = 0 /\ at' = at /\ changes' = changes /\ anchor_rate' = anchor_rate
  BY DEF RemoveObstruction, pass, Surfaces
<1>2. /\ DOMAIN disk' = ReportFiles
      /\ \A f \in ReportFiles : disk'[f] = IF f \in Surfaces THEN missing ELSE disk[f]
  BY <1>1 DEF ReportBase, ReportDisk
<1>3. /\ Surfaces \cap (ReportSources \cup Manifests \cup Bare) = {}
      /\ ReportSources \subseteq ReportFiles /\ Manifests \subseteq ReportFiles /\ Bare \subseteq ReportFiles
      /\ ReportTables \subseteq ReportFiles /\ Vouched \subseteq ReportFiles
      /\ "factorial_manifest" \in Manifests /\ "workload" \in ReportSources /\ "results" \in ReportSources
  BY ReportNames
<1>4. /\ \A f \in ReportSources \cup Manifests \cup Bare : disk'[f] = disk[f]
      /\ \A f \in ReportFiles : disk'[f] = disk[f] \/ disk'[f] = missing
  BY <1>2, <1>3
<1>5. missing.is = "none" /\ missing.from = {} /\ missing = [is |-> missing.is, from |-> missing.from]
  BY DEF missing
<1>6. ReportDisk'
  <2>1. \A f \in ReportFiles :
         /\ disk'[f] = [is |-> disk'[f].is, from |-> disk'[f].from]
         /\ disk'[f].is \in {"none", "torn", "whole"}
         /\ disk'[f].is = "none" => disk'[f].from = {}
         /\ \A v \in disk'[f].from : v = <<v[1], v[2]>>
    <3> TAKE f \in ReportFiles
    <3>1. CASE disk'[f] = disk[f]
      BY <3>1 DEF ReportBase, ReportDisk
    <3>2. CASE disk'[f] = missing
      BY <1>5, <3>2
    <3> QED BY <1>4, <3>1, <3>2
  <2>2. \A s \in ReportSources \ {"results"} : \E v \in Nat : disk'[s] = file({<<s, v>>})
    BY <1>4 DEF ReportBase, ReportDisk
  <2>3. \E v, w \in Nat : disk'["results"] = file({<<"results", v>>, <<"workload", w>>})
    <3>1. disk'["results"] = disk["results"]
      BY <1>3, <1>4
    <3>2. \E v, w \in Nat : disk["results"] = file({<<"results", v>>, <<"workload", w>>})
      BY DEF ReportBase, ReportDisk
    <3> QED BY <3>1, <3>2
  <2>4. anchor_rate' \in {64, 96}
    BY <1>1 DEF ReportBase, ReportDisk
  <2> QED BY <1>2, <2>1, <2>2, <2>3, <2>4 DEF ReportDisk
<1>7. disk'["workload"] = disk["workload"] /\ disk'["factorial_manifest"] = disk["factorial_manifest"]
  BY <1>3, <1>4
<1>8. Latest'
  <2>1. ASSUME NEW f \in ReportFiles PROVE UpTo(disk[f].from)'
    <3>1. CASE disk'[f] = disk[f]
      BY <1>7, <3>1 DEF ReportBase, Latest, UpTo
    <3>2. CASE disk'[f] = missing
      <4>1. of_workload(disk'[f].from) = {}
        BY <1>5, <3>2 DEF of_workload, on
      <4> QED BY <4>1 DEF UpTo
    <3> QED BY <1>4, <3>1, <3>2
  <2> QED BY <1>1, <1>7, <2>1 DEF ReportBase, Latest
<1>9. HasOwn'
  <2> SUFFICES ASSUME NEW f \in ReportTables, disk'[f].is # "none", NEW n \in has_of(f)
               PROVE  on(disk'[f].from, {n}) # {}
    BY DEF HasOwn, exists
  <2>1. disk'[f] = disk[f]
    BY <1>3, <1>4, <1>5
  <2> QED BY <2>1 DEF ReportBase, HasOwn, exists
<1>10. Legible'
  <2> SUFFICES ASSUME NEW f \in ReportTables \ {"summary"}, disk'[f].is = "whole", NEW v \in disk'[f].from
               PROVE  v[1] \in ReportSources
    BY DEF Legible, whole
  <2>1. disk'[f] = disk[f]
    BY <1>3, <1>4, <1>5
  <2> QED BY <2>1 DEF ReportBase, Legible, whole
<1>11. Recorded'
  BY <1>3, <1>4 DEF ReportBase, Recorded, whole
<1>12. BareRows'
  BY <1>3, <1>4 DEF ReportBase, BareRows
<1>13. Vouching'
  <2> SUFFICES ASSUME NEW g \in DOMAIN vouched_by, NEW w \in Nat, disk'[g] = file(only(w)),
                      NEW f \in vouched_by[g], NEW v \in of_workload(disk'[f].from)
               PROVE  w <= v[2]
    BY DEF Vouching
  <2>1. g \in Manifests /\ f \in ReportFiles
    BY <1>3, VouchedNames
  <2>2. disk'[g] = disk[g]
    BY <1>4, <2>1
  <2>3. disk'[f] = disk[f]
    BY <1>4, <1>5, <2>1, WorkloadRows
  <2> QED BY <2>2, <2>3 DEF ReportBase, Vouching
<1>14. Bounded'
  <2> SUFFICES ASSUME NEW w \in Nat, disk'["factorial_manifest"] = file(only(w)),
                      NEW f \in Vouched, NEW v \in of_workload(disk'[f].from)
               PROVE  v[2] <= w
    BY DEF Bounded
  <2>1. f \in ReportFiles
    BY <1>3
  <2>2. disk'[f] = disk[f]
    BY <1>4, <1>5, <2>1, WorkloadRows
  <2> QED BY <1>7, <2>2 DEF ReportBase, Bounded
<1>15. ReportBase'
  BY <1>6, <1>8, <1>9, <1>10, <1>11, <1>12, <1>13, <1>14 DEF ReportBase
<1>16. Claims'
  BY <1>1 DEF Claims, FreshPassIsCurrent, FreshFailsForAReason, ReuseOfACompleteRun, VerifiedTablesAgree, Ended
<1> QED BY <1>1, <1>15, <1>16 DEF ReportKept

\* What is on disk at first is as the base asks.
LEMMA ReportInit ==
  ASSUME Init, chain = "report"
  PROVE  ReportBase /\ Claims /\ changes \in Nat /\ at = 0
<1>1. /\ DOMAIN disk = ReportFiles
      /\ \A f \in ReportFiles : disk[f] = IF f \in ReportSources
                                          THEN file({<<f, 0>>} \cup IF f = "results" THEN {<<"workload", 0>>} ELSE {})
                                          ELSE missing
      /\ anchor_rate = 64 /\ at = 0 /\ outcome = "none" /\ changes = 0
  <2>1. Tables[chain] \cup Partials[chain] \cup Sources[chain] = ReportFiles /\ Sources[chain] = ReportSources
    BY DEF Tables, Partials, Sources, ReportFiles
  <2> QED BY <2>1 DEF Init
<1>2. ReportSources \subseteq ReportFiles /\ ReportTables \subseteq ReportFiles
      /\ ReportTables \cap ReportSources = {} /\ "workload" \in ReportSources /\ "results" \in ReportSources
      /\ Manifests \subseteq ReportTables /\ Bare \subseteq ReportTables /\ Vouched \subseteq ReportTables
  BY ReportNames
<1>3. \A f \in ReportTables : disk[f] = missing
  BY <1>1, <1>2
<1>4. missing.is = "none" /\ missing.from = {} /\ missing = [is |-> missing.is, from |-> missing.from]
  BY DEF missing
<1>5. /\ \A s \in ReportSources \ {"results"} : disk[s] = file({<<s, 0>>})
      /\ disk["results"] = file({<<"results", 0>>, <<"workload", 0>>})
  <2>1. \A s \in ReportSources \ {"results"} : {<<s, 0>>} \cup (IF s = "results" THEN {<<"workload", 0>>} ELSE {}) = {<<s, 0>>}
    OBVIOUS
  <2> QED BY <1>1, <1>2, <2>1
<1>6. ReportDisk
  <2>1. \A f \in ReportFiles :
         /\ disk[f] = [is |-> disk[f].is, from |-> disk[f].from]
         /\ disk[f].is \in {"none", "torn", "whole"}
         /\ disk[f].is = "none" => disk[f].from = {}
         /\ \A v \in disk[f].from : v = <<v[1], v[2]>>
    <3> TAKE f \in ReportFiles
    <3>1. CASE f \in ReportTables
      BY <1>3, <1>4, <3>1
    <3>2. CASE f \in ReportSources \ {"results"}
      <4>1. disk[f] = [is |-> "whole", from |-> {<<f, 0>>}]
        BY <1>5, <3>2 DEF file
      <4> QED BY <4>1
    <3>3. CASE f = "results"
      BY <1>5, <3>3 DEF file
    <3> QED BY <3>1, <3>2, <3>3, ReportNames
  <2> QED BY <1>1, <1>5, <2>1 DEF ReportDisk
<1>7. of_workload({}) = {}
  BY DEF of_workload, on
<1>8. disk["workload"] = file(only(0)) /\ disk["workload"].from = only(0)
  BY <1>2, <1>5 DEF file, only
<1>9. \A u \in disk["workload"].from : u = <<"workload", 0>>
  BY <1>8 DEF only
<1>10. Latest
  <2>1. ASSUME NEW f \in ReportFiles PROVE UpTo(disk[f].from)
    <3>1. ASSUME NEW v \in of_workload(disk[f].from) PROVE v[2] = 0
      <4>1. v \in disk[f].from
        BY WorkloadRows
      <4>2. CASE f \in ReportTables
        BY <1>3, <1>4, <4>1, <4>2
      <4>3. CASE f \in ReportSources \ {"results"}
        <5>1. disk[f] = [is |-> "whole", from |-> {<<f, 0>>}]
          BY <1>5, <4>3 DEF file
        <5>2. disk[f].from = {<<f, 0>>}
          BY <5>1
        <5> QED BY <4>1, <5>2
      <4>4. CASE f = "results"
        BY <1>5, <4>1, <4>4 DEF file
      <4> QED BY <4>2, <4>3, <4>4, ReportNames
    <3> QED BY <1>9, <3>1 DEF UpTo
  <2> QED BY <1>1, <1>9, <2>1 DEF Latest
<1>11. HasOwn /\ Legible
  BY <1>3, <1>4 DEF HasOwn, Legible, exists, whole
<1>12. Recorded
  BY <1>2, <1>3, <1>4, ReportNames DEF Recorded, whole
<1>13. BareRows
  BY <1>2, <1>3, <1>4, <1>7 DEF BareRows
<1>14. \A g \in Manifests : \A w : disk[g] # file(only(w))
  BY <1>2, <1>3, <1>4 DEF file
<1>15. Vouching /\ Bounded
  BY <1>14, VouchedNames, ReportNames DEF Vouching, Bounded
<1>16. Claims
  BY <1>1 DEF Claims, FreshPassIsCurrent, FreshFailsForAReason, ReuseOfACompleteRun, VerifiedTablesAgree, Ended
<1> QED BY <1>1, <1>6, <1>10, <1>11, <1>12, <1>13, <1>15, <1>16 DEF ReportBase

\* Nothing happens.
LEMMA ReportStutter ==
  ASSUME ReportInv, chain = "report", UNCHANGED vars
  PROVE  ReportKept
<1>1. /\ ReportBase /\ Claims /\ changes \in Nat
      /\ at = 0 \/ \E p, m, i : ReportPass(p, m, i)
  BY DEF ReportInv
<1>2. /\ disk' = disk /\ anchor_rate' = anchor_rate /\ changes' = changes /\ steady' = steady
      /\ made' = made /\ held' = held /\ snapshot' = snapshot /\ mode' = mode /\ at' = at
      /\ chain' = chain /\ outcome' = outcome
  BY DEF vars, pass
<1>3. ReportBase'
  BY <1>1, <1>2, ReportSame DEF SameReport
<1>4. Claims'
  <2>1. /\ (surface_obstructed' <=> surface_obstructed) /\ (lagging' <=> lagging)
        /\ (Complete' <=> Complete) /\ (OneWorkload' <=> OneWorkload)
    BY <1>2, ReportReasons
  <2>2. obstructed' <=> obstructed
    BY <1>2, <2>1 DEF obstructed
  <2>3. FreshPassIsCurrent' /\ FreshFailsForAReason'
    BY <1>1, <1>2, <2>1, <2>2 DEF Claims, FreshPassIsCurrent, FreshFailsForAReason, Ended
  <2>4. ReuseOfACompleteRun' /\ VerifiedTablesAgree'
    BY <1>1, <1>2, <2>1, <2>2 DEF Claims, ReuseOfACompleteRun, VerifiedTablesAgree
  <2> QED BY <2>3, <2>4 DEF Claims
<1>5. ASSUME NEW p, NEW m, NEW i, ReportPass(p, m, i) PROVE ReportPass(p, m, i)'
  <2>1. PICK n : n = notes(p)[i]
    OBVIOUS
  <2>2. ReportAt(n)
    BY <1>5, <2>1 DEF ReportPass
  <2>3. ReportAt(n)'
    BY <1>2, <2>2, QuietAt DEF SameReport, SameMemory
  <2>4. script' = script
    BY <1>2 DEF script
  <2> QED BY <1>2, <1>3, <1>5, <2>1, <2>3, <2>4 DEF ReportPass
<1> QED BY <1>1, <1>2, <1>3, <1>4, <1>5 DEF ReportKept

\* Every step of a pass over the report, and all that happens around it, keeps
\* the invariant.
LEMMA ReportNext == ReportInv /\ [Next]_vars => ReportInv'
<1> SUFFICES ASSUME ReportInv, [Next]_vars, chain = "report" PROVE ReportKept
  BY ChainStays DEF ReportInv, ReportKept
<1>1. /\ ReportBase /\ Claims /\ changes \in Nat
      /\ at = 0 \/ \E p, m, i : ReportPass(p, m, i)
  BY DEF ReportInv
<1>2. ASSUME at > 0 PROVE \E p, m, i : ReportPass(p, m, i)
  BY <1>1, <1>2
<1>3. CASE Step
  <2>1. PICK p, m, i : ReportPass(p, m, i)
    BY <1>2, <1>3, StepAt
  <2>2. PICK n, s : Here(p, m, i, n, s)
    BY <2>1, StepHere
  <2>3. ReportGoes(p, i) \/ ReportStops(m)
    BY <1>3, <2>2, ReportStep
  <2> QED BY <1>1, <2>1, <2>3, ReportGoesOn, ReportFails
<1>4. CASE Kill
  <2>1. PICK p, m, i : ReportPass(p, m, i)
    BY <1>2, <1>4 DEF Kill
  <2> QED BY <1>1, <1>4, <2>1, ReportKill
<1>5. CASE RemoveObstruction
  BY <1>1, <1>5, ReportRemoves
<1>6. ASSUME NEW m \in Modes[chain], BeginPass(m) PROVE ReportKept
  <2>1. m \in Modes.report
    BY <1>6
  <2> QED BY <1>1, <1>6, <2>1, ReportBegins
<1>7. ASSUME NEW s \in Changing, Regenerate(s) PROVE ReportKept
  BY <1>1, <1>7, ReportRegenerate
<1>8. CASE UNCHANGED vars
  BY <1>8, ReportStutter
<1> QED BY <1>3, <1>4, <1>5, <1>6, <1>7, <1>8 DEF Next

-----------------------------------------------------------------------------
(* What is proved of both chains.                                          *)

PassesInv == chain \in Chains /\ HandoffInv /\ ReportInv

\* The four claims hold of every pass over either chain.
THEOREM PassesHold == Spec => []Claims
<1>1. Init => PassesInv
  <2> SUFFICES ASSUME Init PROVE PassesInv
    OBVIOUS
  <2>1. chain \in Chains
    BY DEF Init
  <2> QED BY <2>1, HandoffInit, ReportInit DEF PassesInv, ReportInv
<1>2. PassesInv /\ [Next]_vars => PassesInv'
  BY ChainStays, HandoffNext, ReportNext DEF PassesInv
<1>3. PassesInv => Claims
  BY DEF PassesInv, Chains, HandoffInv, ReportInv
<1> QED BY <1>1, <1>2, <1>3, PTL DEF Spec

\* When the last notebook of a fresh pass is through and no source was
\* regenerated meanwhile, every table is whole and from the sources and the
\* queried rows as they are (notebook 01, run_stage; 01-data-processing,
\* REFRESH_FROM_NETWORK), whatever was on disk before.
THEOREM FreshPassesAreCurrent == Spec => []FreshPassIsCurrent
<1>1. Claims => FreshPassIsCurrent
  BY DEF Claims
<1> QED BY <1>1, PassesHold, PTL

\* A fresh pass over quiet sources stops only because the results replay
\* another workload, a surface on disk is torn or of other sources, or a cache
\* has rows that moved, were cut, or no longer equal what is queried: none of
\* its checks stops it on what it wrote itself.
THEOREM FreshPassesFailForAReason == Spec => []FreshFailsForAReason
<1>1. Claims => FreshFailsForAReason
  BY DEF Claims
<1> QED BY <1>1, PassesHold, PTL

\* A pass that reuses what is there never stops on a complete run.
THEOREM ReusingPassesGoThrough == Spec => []ReuseOfACompleteRun
<1>1. Claims => ReuseOfACompleteRun
  BY DEF Claims
<1> QED BY <1>1, PassesHold, PTL

\* Whichever passes were killed and whichever sources regenerated, the tables
\* behind a verified comparison replay one workload (notebook 04, last cell),
\* and every handoff of a verified run is from what its inputs on disk have.
THEOREM VerifiedPassesAgree == Spec => []VerifiedTablesAgree
<1>1. Claims => VerifiedTablesAgree
  BY DEF Claims
<1> QED BY <1>1, PassesHold, PTL

-----------------------------------------------------------------------------
(* The resumable builder of the static panel.                              *)
(*                                                                         *)
(* None of its properties is inductive.  That a run replaces no checkpoint *)
(* needs the parts to be numbered without a gap (Numbered) and the run to  *)
(* hold the first free number; that it queries no checkpointed block, and  *)
(* checkpoints none twice, needs the chunk and the remaining blocks to     *)
(* stay apart from the manifests.  Both are recomputed from the disk by    *)
(* every run that starts, which is what makes a crash harmless.            *)

\* The manifests are numbered from 0 up to a bound, the bound excluded.
NumberedTo(k) == k \in Nat /\ \A n : n \in DOMAIN manifests <=> n \in Nat /\ n < k

Numbered == \E k : NumberedTo(k)

Collecting == {"chunk", "fetch", "write part", "write manifest"}

\* No manifest lists a block of this set.
Unlisted(blocks) == \A n \in DOMAIN manifests : manifests[n] \cap blocks = {}

Disjoint ==
  \A m, n \in DOMAIN manifests : m # n => manifests[m] \cap manifests[n] = {}

\* What a run knows while it collects blocks; no chunk is held otherwise.
RunInv ==
  /\ phase \in Collecting =>
       /\ NumberedTo(next_part)
       /\ Unlisted(chunk)
       /\ Unlisted(remaining)
       /\ chunk \cap remaining = {}
  /\ phase \notin Collecting => chunk = {}

WritingInv ==
  /\ phase \in {"write part", "write manifest"} =>
       \A b \in chunk : fetch[b].status = "ok"
  /\ phase = "write manifest" =>
       next_part \in DOMAIN parts /\ parts[next_part] = chunk

\* What a run that publishes, or has published, knows.
PublishingInv ==
  /\ phase = "write summary" => output = completed /\ completed = args.requested
  /\ ended = "done" => phase = "idle"

PanelInv ==
  /\ Numbered /\ CheckpointsHoldTheirBlocks /\ Disjoint
  /\ RunInv /\ WritingInv /\ PublishingInv /\ PublishedInOrder

-----------------------------------------------------------------------------
\* When every manifest has its part, the paired numbers are the manifests'.
LEMMA AllPaired ==
  ASSUME CheckpointsHoldTheirBlocks
  PROVE  paired = DOMAIN manifests
BY DEF CheckpointsHoldTheirBlocks, paired

\* _load_completed_parts refuses nothing it can find.
LEMMA NeverOverlapping ==
  ASSUME CheckpointsHoldTheirBlocks, Disjoint
  PROVE  ~overlapping
BY AllPaired DEF overlapping, Disjoint

\* Blocks outside completed are listed nowhere.
LEMMA MissingIsUnlisted ==
  ASSUME CheckpointsHoldTheirBlocks, NEW blocks, blocks \cap completed = {}
  PROVE  Unlisted(blocks)
BY AllPaired DEF Unlisted, completed

\* Blocks no manifest lists are outside completed.
LEMMA UnlistedIsMissing ==
  ASSUME CheckpointsHoldTheirBlocks, NEW blocks, Unlisted(blocks)
  PROVE  blocks \cap completed = {}
BY AllPaired DEF Unlisted, completed

\* The bound of the numbering is free.
LEMMA FreeNumber ==
  ASSUME NEW k, NumberedTo(k)
  PROVE  k \in Nat /\ k \notin DOMAIN manifests
<1>1. k \in Nat
  BY DEF NumberedTo
<1>2. k \in DOMAIN manifests => k < k
  BY DEF NumberedTo
<1> QED BY <1>1, <1>2

\* The number a run starts with is the bound of the numbering.
LEMMA FirstFreePart ==
  ASSUME CheckpointsHoldTheirBlocks, NEW k, NumberedTo(k)
  PROVE  first_free_part = k
<1>1. k \in Nat /\ paired = DOMAIN manifests
  BY AllPaired DEF NumberedTo
<1>2. \A n : n \in paired <=> n \in Nat /\ n < k
  BY <1>1 DEF NumberedTo
<1>3. CASE k = 0
  <2>1. paired = {}
    BY <1>2, <1>3
  <2> QED BY <2>1, <1>3 DEF first_free_part
<1>4. CASE k # 0
  <2>1. k - 1 \in paired /\ \A m \in paired : m <= k - 1
    BY <1>1, <1>2, <1>4
  <2>2. \A n \in paired : (\A m \in paired : m <= n) => n = k - 1
    BY <1>1, <1>2, <2>1
  <2>3. (CHOOSE n \in paired : \A m \in paired : m <= n) = k - 1
    BY <2>1, <2>2
  <2>4. 1 + (k - 1) = k
    BY <1>1
  <2>5. paired # {}
    BY <2>1
  <2> QED BY <2>3, <2>4, <2>5 DEF first_free_part
<1> QED BY <1>3, <1>4

\* A process that ends leaves everything as it was, whatever it was doing.
LEMMA ExitKeeps ==
  ASSUME PanelInv, NEW how, Exit(how), UNCHANGED panel_files,
         how = "done" => output = completed /\ summary = completed
  PROVE  PanelInv'
<1>1. /\ UNCHANGED <<parts, manifests, output, summary>>
      /\ phase' = "idle" /\ ended' = how /\ chunk' = {}
  BY DEF Exit, panel_files
<1>2. paired' = paired /\ completed' = completed
  BY <1>1 DEF paired, completed
<1>3. Numbered' /\ CheckpointsHoldTheirBlocks' /\ Disjoint'
  BY <1>1 DEF PanelInv, Numbered, NumberedTo, CheckpointsHoldTheirBlocks, Disjoint
<1>4. RunInv' /\ WritingInv'
  BY <1>1 DEF RunInv, WritingInv, Collecting
<1>5. PublishingInv'
  BY <1>1 DEF PublishingInv
<1>6. PublishedInOrder'
  BY <1>1, <1>2 DEF PanelInv, PublishedInOrder
<1> QED BY <1>3, <1>4, <1>5, <1>6 DEF PanelInv

\* A step that leaves the files, the arguments and the next number alone and
\* moves no block into the chunk keeps the invariant.
LEMMA FetchKeeps ==
  ASSUME PanelInv, UNCHANGED <<panel_files, ended, args, remaining, next_part, chunk>>,
         phase = "fetch", phase' = "fetch"
  PROVE  PanelInv'
<1>1. UNCHANGED <<parts, manifests, output, summary>>
  BY DEF panel_files
<1>2. paired' = paired /\ completed' = completed
  BY <1>1 DEF paired, completed
<1>3. Numbered' /\ CheckpointsHoldTheirBlocks' /\ Disjoint'
  BY <1>1 DEF PanelInv, Numbered, NumberedTo, CheckpointsHoldTheirBlocks, Disjoint
<1>4. RunInv'
  BY <1>1 DEF PanelInv, RunInv, Collecting, NumberedTo, Unlisted
<1>5. WritingInv' /\ PublishingInv'
  BY <1>1 DEF PanelInv, WritingInv, PublishingInv
<1>6. PublishedInOrder'
  BY <1>1, <1>2 DEF PanelInv, PublishedInOrder
<1> QED BY <1>3, <1>4, <1>5, <1>6 DEF PanelInv

\* The disk is empty and no process runs.
LEMMA PanelInvInit == PanelInit => PanelInv
<1> SUFFICES ASSUME PanelInit PROVE PanelInv
  OBVIOUS
<1>1. /\ parts = <<>> /\ manifests = <<>> /\ output = {} /\ summary = {}
      /\ phase = "idle" /\ ended = "none" /\ chunk = {}
  BY DEF PanelInit
<1>2. DOMAIN manifests = {}
  BY <1>1
<1>3. NumberedTo(0)
  BY <1>2 DEF NumberedTo
<1>4. Numbered /\ CheckpointsHoldTheirBlocks /\ Disjoint
  BY <1>2, <1>3 DEF Numbered, CheckpointsHoldTheirBlocks, Disjoint
<1>5. RunInv /\ WritingInv /\ PublishingInv
  BY <1>1 DEF RunInv, WritingInv, PublishingInv, Collecting
<1>6. PublishedInOrder
  BY <1>1 DEF PublishedInOrder
<1> QED BY <1>4, <1>5, <1>6 DEF PanelInv

-----------------------------------------------------------------------------
\* A run starts from what the disk holds.
LEMMA StartKeeps ==
  ASSUME PanelInv, NEW requested, NEW chunk_size, NEW max_workers, NEW finalize_only,
         Start(requested, chunk_size, max_workers, finalize_only)
  PROVE  PanelInv'
<1>1. UNCHANGED panel_files
  BY DEF Start
<1>2. CASE overlapping \/ ~ completed \subseteq requested
  <2>1. Exit("refused")
    BY <1>2 DEF Start
  <2> QED BY <1>1, <2>1, ExitKeeps
<1>3. CASE ~ (overlapping \/ ~ completed \subseteq requested)
  <2>1. /\ UNCHANGED <<parts, manifests, output, summary>>
        /\ phase' \in {"finalize", "chunk"} /\ ended' = "running"
        /\ remaining' = requested \ completed
        /\ next_part' = first_free_part
        /\ chunk' = {}
    BY <1>3 DEF Start, panel_files
  <2>2. paired' = paired /\ completed' = completed
    BY <2>1 DEF paired, completed
  <2>3. Numbered' /\ CheckpointsHoldTheirBlocks' /\ Disjoint'
    BY <2>1 DEF PanelInv, Numbered, NumberedTo, CheckpointsHoldTheirBlocks, Disjoint
  <2>4. NumberedTo(first_free_part)
    BY FirstFreePart DEF PanelInv, Numbered
  <2>5. Unlisted(requested \ completed)
    BY MissingIsUnlisted DEF PanelInv
  <2>6. RunInv'
    BY <2>1, <2>4, <2>5 DEF RunInv, NumberedTo, Unlisted
  <2>7. WritingInv' /\ PublishingInv'
    BY <2>1 DEF WritingInv, PublishingInv
  <2>8. PublishedInOrder'
    BY <2>1, <2>2 DEF PanelInv, PublishedInOrder
  <2> QED BY <2>3, <2>6, <2>7, <2>8 DEF PanelInv
<1> QED BY <1>2, <1>3

\* A chunk is cut off the remaining blocks.
LEMMA TakeChunkKeeps ==
  ASSUME PanelInv, TakeChunk
  PROVE  PanelInv'
<1>1. PICK blocks \in SUBSET remaining :
        chunk' = blocks /\ remaining' = remaining \ blocks
  BY DEF TakeChunk
<1>2. /\ UNCHANGED <<parts, manifests, output, summary, ended, args, next_part>>
      /\ phase = "chunk" /\ phase' = "fetch"
  BY DEF TakeChunk, panel_files
<1>3. paired' = paired /\ completed' = completed
  BY <1>2 DEF paired, completed
<1>4. Numbered' /\ CheckpointsHoldTheirBlocks' /\ Disjoint'
  BY <1>2 DEF PanelInv, Numbered, NumberedTo, CheckpointsHoldTheirBlocks, Disjoint
<1>5. NumberedTo(next_part) /\ Unlisted(remaining)
  BY <1>2 DEF PanelInv, RunInv, Collecting
<1>6. Unlisted(blocks) /\ Unlisted(remaining \ blocks)
  BY <1>5 DEF Unlisted
<1>7. RunInv'
  BY <1>1, <1>2, <1>5, <1>6 DEF RunInv, Collecting, NumberedTo, Unlisted
<1>8. WritingInv' /\ PublishingInv'
  BY <1>2 DEF PanelInv, WritingInv, PublishingInv
<1>9. PublishedInOrder'
  BY <1>2, <1>3 DEF PanelInv, PublishedInOrder
<1> QED BY <1>4, <1>7, <1>8, <1>9 DEF PanelInv

\* A batch that returns has fetched the whole chunk.
LEMMA BatchReturnsKeeps ==
  ASSUME PanelInv, BatchReturns
  PROVE  PanelInv'
<1>1. /\ phase = "fetch" /\ UNCHANGED panel_files
      /\ \A b \in chunk : fetch[b].status = "ok"
  BY DEF BatchReturns, with_status
<1>2. CASE phase' = "write part" /\ UNCHANGED <<ended, run>>
  <2>1. /\ UNCHANGED <<parts, manifests, output, summary, ended, args,
                       remaining, next_part, chunk, fetch>>
        /\ phase' = "write part"
    BY <1>1, <1>2 DEF panel_files, run
  <2>2. paired' = paired /\ completed' = completed
    BY <2>1 DEF paired, completed
  <2>3. Numbered' /\ CheckpointsHoldTheirBlocks' /\ Disjoint'
    BY <2>1 DEF PanelInv, Numbered, NumberedTo, CheckpointsHoldTheirBlocks, Disjoint
  <2>4. RunInv'
    BY <1>1, <2>1 DEF PanelInv, RunInv, Collecting, NumberedTo, Unlisted
  <2>5. WritingInv' /\ PublishingInv'
    BY <1>1, <2>1 DEF PanelInv, WritingInv, PublishingInv
  <2>6. PublishedInOrder'
    BY <2>1, <2>2 DEF PanelInv, PublishedInOrder
  <2> QED BY <2>3, <2>4, <2>5, <2>6 DEF PanelInv
<1>3. CASE Exit("failed")
  BY <1>1, <1>3, ExitKeeps
<1> QED BY <1>2, <1>3 DEF BatchReturns

\* The part of a chunk is written where no manifest is yet.
LEMMA WritePartKeeps ==
  ASSUME PanelInv, WritePart
  PROVE  PanelInv'
<1>1. /\ UNCHANGED <<manifests, output, summary, ended, args,
                     remaining, next_part, chunk, fetch>>
      /\ parts' = put(parts, next_part, chunk)
      /\ phase = "write part" /\ phase' = "write manifest"
  BY DEF WritePart, run
<1>2. /\ DOMAIN parts' = DOMAIN parts \cup {next_part}
      /\ parts'[next_part] = chunk
      /\ \A m \in DOMAIN parts : m # next_part => parts'[m] = parts[m]
  BY <1>1 DEF put
<1>3. NumberedTo(next_part) /\ next_part \notin DOMAIN manifests
  <2>1. NumberedTo(next_part)
    BY <1>1 DEF PanelInv, RunInv, Collecting
  <2> QED BY <2>1, FreeNumber
<1>4. CheckpointsHoldTheirBlocks'
  BY <1>1, <1>2, <1>3 DEF PanelInv, CheckpointsHoldTheirBlocks
<1>5. paired' = paired
  BY <1>1, <1>4 DEF PanelInv, CheckpointsHoldTheirBlocks, paired
<1>6. completed' = completed
  BY <1>1, <1>5 DEF completed
<1>7. Numbered' /\ Disjoint'
  BY <1>1 DEF PanelInv, Numbered, NumberedTo, Disjoint
<1>8. RunInv'
  BY <1>1 DEF PanelInv, RunInv, Collecting, NumberedTo, Unlisted
<1>9. WritingInv' /\ PublishingInv'
  BY <1>1, <1>2 DEF PanelInv, WritingInv, PublishingInv
<1>10. PublishedInOrder'
  BY <1>1, <1>6 DEF PanelInv, PublishedInOrder
<1> QED BY <1>4, <1>7, <1>8, <1>9, <1>10 DEF PanelInv

\* What the manifest of a chunk adds.
LEMMA WriteManifestAdds ==
  ASSUME PanelInv, WriteManifest
  PROVE  /\ DOMAIN manifests' = DOMAIN manifests \cup {next_part}
         /\ next_part \notin DOMAIN manifests
         /\ manifests'[next_part] = chunk
         /\ \A m \in DOMAIN manifests : manifests'[m] = manifests[m]
         /\ CheckpointsHoldTheirBlocks'
         /\ completed' = completed \cup chunk
<1>1. UNCHANGED parts /\ manifests' = put(manifests, next_part, chunk)
      /\ phase = "write manifest"
  BY DEF WriteManifest
<1>2. NumberedTo(next_part) /\ next_part \notin DOMAIN manifests
  <2>1. NumberedTo(next_part)
    BY <1>1 DEF PanelInv, RunInv, Collecting
  <2> QED BY <2>1, FreeNumber
<1>3. /\ DOMAIN manifests' = DOMAIN manifests \cup {next_part}
      /\ manifests'[next_part] = chunk
      /\ \A m \in DOMAIN manifests : manifests'[m] = manifests[m]
  BY <1>1, <1>2 DEF put
<1>4. next_part \in DOMAIN parts /\ parts[next_part] = chunk
  BY <1>1 DEF PanelInv, WritingInv
<1>5. CheckpointsHoldTheirBlocks'
  BY <1>1, <1>3, <1>4 DEF PanelInv, CheckpointsHoldTheirBlocks
<1>6. paired = DOMAIN manifests /\ paired' = DOMAIN manifests'
  BY <1>5 DEF PanelInv, CheckpointsHoldTheirBlocks, paired
<1>7. completed' = completed \cup chunk
  BY <1>2, <1>3, <1>6 DEF completed
<1> QED BY <1>2, <1>3, <1>5, <1>7

\* The manifest makes the chunk a checkpoint, under the first free number.
LEMMA WriteManifestKeeps ==
  ASSUME PanelInv, WriteManifest
  PROVE  PanelInv'
<1>1. /\ UNCHANGED <<parts, output, summary, ended, args, remaining>>
      /\ phase = "write manifest" /\ phase' \in {"finalize", "chunk"}
      /\ next_part' = next_part + 1 /\ chunk' = {}
  BY DEF WriteManifest
<1>2. /\ DOMAIN manifests' = DOMAIN manifests \cup {next_part}
      /\ manifests'[next_part] = chunk
      /\ next_part \notin DOMAIN manifests
      /\ \A m \in DOMAIN manifests : manifests'[m] = manifests[m]
      /\ CheckpointsHoldTheirBlocks'
      /\ completed' = completed \cup chunk
  BY WriteManifestAdds
<1>3. /\ NumberedTo(next_part) /\ Unlisted(chunk) /\ Unlisted(remaining)
      /\ chunk \cap remaining = {}
  BY <1>1 DEF PanelInv, RunInv, Collecting
<1>4. NumberedTo(next_part)'
  <2>1. next_part \in Nat /\ next_part + 1 \in Nat
    BY <1>3 DEF NumberedTo
  <2>2. ASSUME NEW n
        PROVE  n \in DOMAIN manifests' <=> n \in Nat /\ n < next_part + 1
    BY <1>2, <1>3, <2>1 DEF NumberedTo
  <2> QED BY <1>1, <2>1, <2>2 DEF NumberedTo
<1>5. Numbered'
  BY <1>4 DEF Numbered
<1>6. Disjoint'
  BY <1>2, <1>3 DEF PanelInv, Disjoint, Unlisted
<1>7. RunInv'
  <2>1. Unlisted(remaining)'
    BY <1>1, <1>2, <1>3 DEF Unlisted
  <2>2. Unlisted(chunk)'
    BY <1>1 DEF Unlisted
  <2> QED BY <1>1, <1>4, <2>1, <2>2 DEF RunInv
<1>8. WritingInv' /\ PublishingInv'
  BY <1>1 DEF PanelInv, WritingInv, PublishingInv
<1>9. PublishedInOrder'
  BY <1>1, <1>2 DEF PanelInv, PublishedInOrder, PublishingInv
<1> QED BY <1>2, <1>5, <1>6, <1>7, <1>8, <1>9 DEF PanelInv

\* The combined parts hold what their manifests list.
LEMMA WriteOutputKeeps ==
  ASSUME PanelInv, WriteOutput
  PROVE  PanelInv'
<1> DEFINE combined == ~overlapping /\ completed = args.requested /\ one_schema
<1>1. phase = "finalize"
  BY DEF WriteOutput
<1>2. CASE combined
  <2>1. /\ output' = UNION {parts[n] : n \in paired}
        /\ phase' = "write summary"
        /\ UNCHANGED <<parts, manifests, summary, ended, args, remaining,
                       next_part, chunk, fetch>>
    BY <1>2 DEF WriteOutput, run
  <2>2. paired' = paired /\ completed' = completed
    BY <2>1 DEF paired, completed
  <2>3. \A n \in paired : parts[n] = manifests[n]
    BY AllPaired DEF PanelInv, CheckpointsHoldTheirBlocks
  <2>4. output' = completed
    BY <2>1, <2>3 DEF completed
  <2>5. Numbered' /\ CheckpointsHoldTheirBlocks' /\ Disjoint'
    BY <2>1 DEF PanelInv, Numbered, NumberedTo, CheckpointsHoldTheirBlocks, Disjoint
  <2>6. RunInv' /\ WritingInv'
    BY <1>1, <2>1 DEF PanelInv, RunInv, WritingInv, Collecting
  <2>7. ended # "done"
    BY <1>1 DEF PanelInv, PublishingInv
  <2>8. PublishingInv'
    BY <1>2, <2>1, <2>2, <2>4, <2>7 DEF PublishingInv
  <2>9. PublishedInOrder'
    BY <2>1, <2>2, <2>4, <2>7 DEF PanelInv, PublishedInOrder
  <2> QED BY <2>5, <2>6, <2>8, <2>9 DEF PanelInv
<1>3. CASE ~combined
  <2>1. UNCHANGED panel_files
        /\ Exit(IF completed = args.requested THEN "not combined" ELSE "incomplete")
    BY <1>3 DEF WriteOutput
  <2>2. (IF completed = args.requested THEN "not combined" ELSE "incomplete") # "done"
    OBVIOUS
  <2> QED BY <2>1, <2>2, ExitKeeps
<1> QED BY <1>2, <1>3

\* The summary comes after the output it summarises.
LEMMA WriteSummaryKeeps ==
  ASSUME PanelInv, WriteSummary
  PROVE  PanelInv'
<1>1. phase = "write summary" /\ output = completed /\ completed = args.requested
  BY DEF WriteSummary, PanelInv, PublishingInv
<1>2. CASE paired = {}
  <2>1. UNCHANGED panel_files /\ Exit("not combined")
    BY <1>2 DEF WriteSummary
  <2> QED BY <2>1, ExitKeeps
<1>3. CASE paired # {}
  <2>1. /\ UNCHANGED <<parts, manifests, output>>
        /\ summary' = args.requested
        /\ phase' = "idle" /\ ended' = "done" /\ chunk' = {}
    BY <1>3 DEF WriteSummary, Exit
  <2>2. paired' = paired /\ completed' = completed
    BY <2>1 DEF paired, completed
  <2>3. Numbered' /\ CheckpointsHoldTheirBlocks' /\ Disjoint'
    BY <2>1 DEF PanelInv, Numbered, NumberedTo, CheckpointsHoldTheirBlocks, Disjoint
  <2>4. RunInv' /\ WritingInv' /\ PublishingInv'
    BY <2>1 DEF RunInv, WritingInv, PublishingInv, Collecting
  <2>5. PublishedInOrder'
    BY <1>1, <2>1, <2>2 DEF PublishedInOrder
  <2> QED BY <2>3, <2>4, <2>5 DEF PanelInv
<1> QED BY <1>2, <1>3

\* Every step of the builder, of any run, keeps the invariant.
LEMMA PanelInvNext == PanelInv /\ [PanelNext]_panel_vars => PanelInv'
<1> SUFFICES ASSUME PanelInv, [PanelNext]_panel_vars PROVE PanelInv'
  OBVIOUS
<1>1. CASE UNCHANGED panel_vars
  <2>1. /\ UNCHANGED <<parts, manifests, output, summary, phase, ended, args,
                       remaining, next_part, chunk, fetch>>
    BY <1>1 DEF panel_vars
  <2>2. paired' = paired /\ completed' = completed
    BY <2>1 DEF paired, completed
  <2>3. Numbered' /\ CheckpointsHoldTheirBlocks' /\ Disjoint'
    BY <2>1 DEF PanelInv, Numbered, NumberedTo, CheckpointsHoldTheirBlocks, Disjoint
  <2>4. RunInv'
    BY <2>1 DEF PanelInv, RunInv, Collecting, NumberedTo, Unlisted
  <2>5. WritingInv' /\ PublishingInv'
    BY <2>1, <2>2 DEF PanelInv, WritingInv, PublishingInv
  <2>6. PublishedInOrder'
    BY <2>1, <2>2 DEF PanelInv, PublishedInOrder
  <2> QED BY <2>3, <2>4, <2>5, <2>6 DEF PanelInv
<1>2. ASSUME NEW requested \in Inputs, NEW chunk_size \in ChunkSizes,
             NEW max_workers \in Workers, NEW finalize_only \in BOOLEAN,
             Start(requested, chunk_size, max_workers, finalize_only)
      PROVE  PanelInv'
  BY <1>2, StartKeeps
<1>3. CASE TakeChunk
  BY <1>3, TakeChunkKeeps
<1>4. ASSUME NEW b \in chunk, StartFetch(b) \/ FetchSucceeds(b) \/ FetchFails(b)
      PROVE  PanelInv'
  <2>1. /\ UNCHANGED <<panel_files, ended, args, remaining, next_part, chunk>>
        /\ phase = "fetch" /\ phase' = "fetch"
    BY <1>4 DEF StartFetch, FetchSucceeds, FetchFails
  <2> QED BY <2>1, FetchKeeps
<1>5. CASE BatchRaises
  BY <1>5, ExitKeeps DEF BatchRaises
<1>6. CASE BatchReturns
  BY <1>6, BatchReturnsKeeps
<1>7. CASE WritePart
  BY <1>7, WritePartKeeps
<1>8. CASE WriteManifest
  BY <1>8, WriteManifestKeeps
<1>9. CASE WriteOutput
  BY <1>9, WriteOutputKeeps
<1>10. CASE WriteSummary
  BY <1>10, WriteSummaryKeeps
<1>11. CASE Crash
  BY <1>11, ExitKeeps DEF Crash
<1> QED BY <1>1, <1>2, <1>3, <1>4, <1>5, <1>6, <1>7, <1>8, <1>9, <1>10, <1>11
        DEF PanelNext, Work

\* The inductive invariant holds in every state of every sequence of runs.
THEOREM PanelInvariance == PanelSpec => []PanelInv
BY PanelInvInit, PanelInvNext, PTL DEF PanelSpec

\* No manifest promises other blocks than its part holds, after any crashes.
THEOREM CheckpointsHold == PanelSpec => []CheckpointsHoldTheirBlocks
<1>1. PanelInv => CheckpointsHoldTheirBlocks
  BY DEF PanelInv
<1> QED BY <1>1, PanelInvariance, PTL

\* Loading the checkpoints is never refused for a block listed twice.
THEOREM CheckpointsDisjoint == PanelSpec => []CheckpointsAreDisjoint
<1>1. PanelInv => CheckpointsAreDisjoint
  BY NeverOverlapping DEF PanelInv, CheckpointsAreDisjoint
<1> QED BY <1>1, PanelInvariance, PTL

\* What is published is never ahead of the checkpoints.
THEOREM PublishedInOrderHolds == PanelSpec => []PublishedInOrder
<1>1. PanelInv => PublishedInOrder
  BY DEF PanelInv
<1> QED BY <1>1, PanelInvariance, PTL

\* A run only queries blocks that have not been checkpointed.
THEOREM OnlyMissingHolds == PanelSpec => OnlyMissingBlocksAreQueried
<1>1. PanelInv /\ [PanelNext]_panel_vars =>
        [\A b \in chunk : with_status("running")' # with_status("running")
                            => b \notin completed]_panel_vars
  <2> SUFFICES ASSUME PanelInv, NEW b \in chunk
               PROVE  b \notin completed
    OBVIOUS
  <2>1. phase \in Collecting /\ Unlisted(chunk)
    BY DEF PanelInv, RunInv
  <2> QED BY <2>1, UnlistedIsMissing DEF PanelInv
<1> QED BY <1>1, PanelInvariance, PTL DEF PanelSpec, OnlyMissingBlocksAreQueried

\* Everything that keeps the files of the checkpoints keeps the checkpoints.
LEMMA SameFiles ==
  ASSUME UNCHANGED <<parts, manifests>>
  PROVE  paired' = paired /\ completed' = completed
BY DEF paired, completed

\* Of all the steps of all the runs, two touch the files of a checkpoint.
LEMMA CheckpointSteps ==
  ASSUME [PanelNext]_panel_vars, ~UNCHANGED <<parts, manifests>>
  PROVE  WritePart \/ WriteManifest
<1>1. CASE UNCHANGED panel_vars
  BY <1>1 DEF panel_vars
<1>2. CASE PanelNext
  BY <1>2 DEF PanelNext, Work, Start, TakeChunk, StartFetch, FetchSucceeds, FetchFails,
              BatchRaises, BatchReturns, WriteOutput, WriteSummary, Crash, panel_files
<1> QED BY <1>1, <1>2

\* What WritePart leaves of the checkpoints.
LEMMA WritePartOutside ==
  ASSUME PanelInv, WritePart
  PROVE  /\ UNCHANGED manifests
         /\ \A n \in DOMAIN parts : n \in DOMAIN manifests => parts'[n] = parts[n]
         /\ paired' = paired
         /\ completed' = completed
<1>1. /\ UNCHANGED manifests /\ parts' = put(parts, next_part, chunk)
      /\ phase = "write part"
  BY DEF WritePart
<1>2. /\ DOMAIN parts' = DOMAIN parts \cup {next_part}
      /\ \A m \in DOMAIN parts : m # next_part => parts'[m] = parts[m]
  BY <1>1 DEF put
<1>3. next_part \notin DOMAIN manifests
  BY <1>1, FreeNumber DEF PanelInv, RunInv, Collecting
<1>4. paired' = paired
  BY <1>1, <1>2, <1>3 DEF paired
<1> QED BY <1>1, <1>2, <1>3, <1>4 DEF completed

\* No later run replaces a checkpoint or lists other blocks in it.
THEOREM CheckpointsFinal == PanelSpec => CheckpointsAreFinal
<1>1. PanelInv /\ [PanelNext]_panel_vars =>
        [\A n \in paired : /\ n \in paired'
                           /\ parts'[n] = parts[n]
                           /\ manifests'[n] = manifests[n]]_panel_vars
  <2> SUFFICES ASSUME PanelInv, [PanelNext]_panel_vars, NEW n \in paired
               PROVE  /\ n \in paired'
                      /\ parts'[n] = parts[n]
                      /\ manifests'[n] = manifests[n]
    OBVIOUS
  <2>1. n \in DOMAIN manifests /\ n \in DOMAIN parts
    BY DEF paired
  <2>2. CASE UNCHANGED <<parts, manifests>>
    BY <2>2, SameFiles
  <2>3. CASE WritePart
    BY <2>1, <2>3, WritePartOutside
  <2>4. CASE WriteManifest
    <3>1. UNCHANGED parts
      BY <2>4 DEF WriteManifest
    <3> QED BY <2>1, <2>4, <3>1, WriteManifestAdds DEF paired
  <2> QED BY <2>2, <2>3, <2>4, CheckpointSteps
<1> QED BY <1>1, PanelInvariance, PTL DEF PanelSpec, CheckpointsAreFinal

\* A block is checkpointed together with its whole chunk, all of it fetched.
THEOREM WholeBatches == PanelSpec => WholeBatchesOnly
<1>1. PanelInv /\ [PanelNext]_panel_vars =>
        [completed' # completed =>
           /\ completed' = completed \cup chunk
           /\ \A b \in chunk : fetch[b].status = "ok"]_panel_vars
  <2> SUFFICES ASSUME PanelInv, [PanelNext]_panel_vars, completed' # completed
               PROVE  /\ completed' = completed \cup chunk
                      /\ \A b \in chunk : fetch[b].status = "ok"
    OBVIOUS
  <2>1. WriteManifest
    BY SameFiles, CheckpointSteps, WritePartOutside
  <2>2. phase = "write manifest"
    BY <2>1 DEF WriteManifest
  <2> QED BY <2>1, <2>2, WriteManifestAdds DEF PanelInv, WritingInv
<1> QED BY <1>1, PanelInvariance, PTL DEF PanelSpec, WholeBatchesOnly

-----------------------------------------------------------------------------
\* A process that ends leaves nothing but the files, and they keep their types.
LEMMA PanelTypeExit ==
  ASSUME TypeOK, NEW how, Exit(how), UNCHANGED panel_files
  PROVE  TypeOK'
<1>1. /\ UNCHANGED <<parts, manifests, output, summary>>
      /\ phase' = "idle" /\ args' = no_args /\ remaining' = {}
      /\ next_part' = 0 /\ chunk' = {}
  BY DEF Exit, panel_files
<1>2. no_args \in Args
  BY DEF no_args, Args
<1> QED BY <1>1, <1>2 DEF TypeOK, Phases

\* A file added under the next number keeps the types of the files.
LEMMA PanelTypePut ==
  ASSUME NEW files, DOMAIN files \subseteq Nat,
         \A n \in DOMAIN files : files[n] \subseteq Blocks,
         NEW k \in Nat, NEW blocks, blocks \subseteq Blocks
  PROVE  /\ DOMAIN put(files, k, blocks) \subseteq Nat
         /\ \A n \in DOMAIN put(files, k, blocks) :
              put(files, k, blocks)[n] \subseteq Blocks
BY DEF put

\* Every step keeps the types; the number a run starts with is a natural
\* number because the parts are numbered without a gap.
LEMMA PanelTypeNext == TypeOK /\ PanelInv /\ [PanelNext]_panel_vars => TypeOK'
<1> SUFFICES ASSUME TypeOK, PanelInv, [PanelNext]_panel_vars PROVE TypeOK'
  OBVIOUS
<1>1. CASE UNCHANGED panel_vars
  BY <1>1 DEF TypeOK, panel_vars
<1>2. ASSUME NEW requested \in Inputs, NEW chunk_size \in ChunkSizes,
             NEW max_workers \in Workers, NEW finalize_only \in BOOLEAN,
             Start(requested, chunk_size, max_workers, finalize_only)
      PROVE  TypeOK'
  <2>1. CASE overlapping \/ ~ completed \subseteq requested
    BY <1>2, <2>1, PanelTypeExit DEF Start
  <2>2. CASE ~ (overlapping \/ ~ completed \subseteq requested)
    <3>1. /\ UNCHANGED <<parts, manifests, output, summary>>
          /\ phase' \in {"finalize", "chunk"}
          /\ args' = [requested |-> requested, chunk_size |-> chunk_size,
                      max_workers |-> max_workers]
          /\ remaining' = requested \ completed
          /\ next_part' = first_free_part
          /\ chunk' = {}
      BY <1>2, <2>2 DEF Start, panel_files
    <3>2. first_free_part \in Nat
      BY FirstFreePart DEF PanelInv, Numbered, NumberedTo
    <3>3. requested \subseteq Blocks /\ chunk_size \in Nat /\ max_workers \in Nat
      BY PanelAssumption
    <3>4. args' \in Args /\ remaining' \subseteq Blocks
      BY <3>1, <3>3 DEF Args
    <3> QED BY <3>1, <3>2, <3>4 DEF TypeOK, Phases
  <2> QED BY <2>1, <2>2
<1>3. CASE TakeChunk
  <2>1. /\ UNCHANGED <<parts, manifests, output, summary, args, next_part>>
        /\ phase' = "fetch"
        /\ chunk' \subseteq remaining /\ remaining' \subseteq remaining
    BY <1>3 DEF TakeChunk, panel_files
  <2> QED BY <2>1 DEF TypeOK, Phases
<1>4. ASSUME NEW b \in chunk, StartFetch(b) \/ FetchSucceeds(b) \/ FetchFails(b)
      PROVE  TypeOK'
  <2>1. UNCHANGED <<parts, manifests, output, summary, phase, args, remaining,
                    next_part, chunk>>
    BY <1>4 DEF StartFetch, FetchSucceeds, FetchFails, panel_files
  <2> QED BY <2>1 DEF TypeOK
<1>5. CASE BatchRaises
  BY <1>5, PanelTypeExit DEF BatchRaises
<1>6. CASE BatchReturns
  <2>1. CASE Exit("failed")
    BY <1>6, <2>1, PanelTypeExit DEF BatchReturns
  <2>2. CASE phase' = "write part" /\ UNCHANGED <<ended, run>>
    BY <1>6, <2>2 DEF BatchReturns, TypeOK, Phases, panel_files, run
  <2> QED BY <1>6, <2>1, <2>2 DEF BatchReturns
<1>7. CASE WritePart
  <2>1. parts' = put(parts, next_part, chunk) /\ phase' = "write manifest"
        /\ UNCHANGED <<manifests, output, summary, args, remaining, next_part, chunk>>
    BY <1>7 DEF WritePart, run
  <2> QED BY <2>1, PanelTypePut DEF TypeOK, Phases
<1>8. CASE WriteManifest
  <2>1. manifests' = put(manifests, next_part, chunk)
        /\ phase' \in {"finalize", "chunk"}
        /\ next_part' = next_part + 1 /\ chunk' = {}
        /\ UNCHANGED <<parts, output, summary, args, remaining>>
    BY <1>8 DEF WriteManifest
  <2>2. next_part \in Nat /\ next_part + 1 \in Nat
    BY DEF TypeOK
  <2>3. /\ DOMAIN manifests' \subseteq Nat
        /\ \A n \in DOMAIN manifests' : manifests'[n] \subseteq Blocks
    BY <2>1, <2>2, PanelTypePut DEF TypeOK
  <2> QED BY <2>1, <2>2, <2>3 DEF TypeOK, Phases
<1>9. CASE WriteOutput
  <2> DEFINE combined == ~overlapping /\ completed = args.requested /\ one_schema
  <2>1. CASE combined
    <3>1. output' = UNION {parts[n] : n \in paired} /\ phase' = "write summary"
          /\ UNCHANGED <<parts, manifests, summary, args, remaining, next_part, chunk>>
      BY <1>9, <2>1 DEF WriteOutput, run
    <3>2. output' \subseteq Blocks
      BY <3>1 DEF TypeOK, paired
    <3> QED BY <3>1, <3>2 DEF TypeOK, Phases
  <2>2. CASE ~combined
    BY <1>9, <2>2, PanelTypeExit DEF WriteOutput
  <2> QED BY <2>1, <2>2
<1>10. CASE WriteSummary
  <2>1. CASE paired = {}
    BY <1>10, <2>1, PanelTypeExit DEF WriteSummary
  <2>2. CASE paired # {}
    <3>1. /\ UNCHANGED <<parts, manifests, output>> /\ summary' = args.requested
          /\ phase' = "idle" /\ args' = no_args /\ remaining' = {}
          /\ next_part' = 0 /\ chunk' = {}
      BY <1>10, <2>2 DEF WriteSummary, Exit
    <3>2. no_args \in Args /\ args.requested \subseteq Blocks
      BY DEF no_args, Args, TypeOK
    <3> QED BY <3>1, <3>2 DEF TypeOK, Phases
  <2> QED BY <2>1, <2>2
<1>11. CASE Crash
  BY <1>11, PanelTypeExit DEF Crash
<1> QED BY <1>1, <1>2, <1>3, <1>4, <1>5, <1>6, <1>7, <1>8, <1>9, <1>10, <1>11
        DEF PanelNext, Work

\* Files and run keep their types.
THEOREM PanelTypeCorrect == PanelSpec => []TypeOK
<1>1. PanelInit => TypeOK
  <2> SUFFICES ASSUME PanelInit PROVE TypeOK
    OBVIOUS
  <2>1. DOMAIN parts = {} /\ DOMAIN manifests = {}
    BY DEF PanelInit
  <2>2. no_args \in Args
    BY DEF no_args, Args
  <2> QED BY <2>1, <2>2 DEF PanelInit, TypeOK, Phases
<1> QED BY <1>1, PanelTypeNext, PanelInvariance, PTL DEF PanelSpec
=============================================================================

--------------------------- MODULE PublicationFacts ---------------------------
(***************************************************************************)
(* What the scripts of the handoffs and of the report are, step by step:   *)
(* facts about the sequences of steps alone, whatever is on disk.  They    *)
(* have no variable and no constant, so evaluating them settles them; what *)
(* a pass keeps (module PublicationProofs) follows from them.              *)
(***************************************************************************)
EXTENDS Publication

HandoffTables == Tables.handoffs
HandoffCaches == Caches.handoffs
HandoffFiles == HandoffTables \cup Partials.handoffs \cup HandoffSources

\* The files a pull works on, and the caches it is of.
pulled == {"runtime_partial", "attribution_partial", "contiguous_bal_partial"}
cache_of(f) == CASE f = "runtime_partial" -> "runtime_blocks"
                 [] f = "attribution_partial" -> "attribution_blocks"
                 [] f = "contiguous_bal_partial" -> "contiguous_bal"
                 [] OTHER -> f

-----------------------------------------------------------------------------
(* What the steps before the i-th of a script p read and wrote.            *)

\* A process starts, and forgets what the last one had read.
Starts(s) == \/ s.do \in {"source_snapshot", "open", "surface_cache"}
             \/ s.do = "derive" /\ s.again

\* The steps of the process at hand.
Since(p, i) == {j \in 1..(i - 1) : \A k \in (j + 1)..(i - 1) : ~Starts(p[k])}

Takes(s) ==
  CASE s.do \in {"open", "add", "derive"} -> s.reads
    [] s.do = "resume" -> {s.file}
    [] s.do = "matches" -> {"workload"}
    [] s.do = "surface_cache" -> {"surface"}
    [] OTHER -> {}

\* The files it read, and those written and removed by any step.
Taken(p, i) == UNION {Takes(p[j]) : j \in Since(p, i)}

Writes(s) == \/ s.do \in {"write", "save", "replace", "record", "resume"}
             \/ s.do = "derive" /\ s.again
Written(p, i) == {p[j].file : j \in {k \in 1..(i - 1) : Writes(p[k])}}
Dropped(p, i) == {p[j].file : j \in {k \in 1..(i - 1) : p[k].do = "unlink"}}

\* The process has derived no table if it is not there: it knows what it read.
Known(p, i) == \A j \in Since(p, i) : p[j].do = "derive" => p[j].again

\* It compared the attribution with the runtime panel; some process looked
\* for cut rows among the refunds.
Paired(p, i) == \E j \in Since(p, i) :
   p[j].do = "open" /\ same_rows("attribution_blocks", "runtime_blocks") \in p[j].checks
Covered(p, i) == \E j \in 1..(i - 1) : p[j].do = "add" /\ covers("refunds") \in p[j].checks

-----------------------------------------------------------------------------
(* What each kind of step is, in a pass of mode m.                         *)

\* The files a table is computed from; in a fresh pass those of the repriced
\* tables too, which a cache and a source go into.
repriced == [anchor_accounting |-> {"blocks", "rpc_blocks"},
             execution_repricing |-> {"blocks", "rpc_blocks", "traces", "refunds"}]
inputs(m) ==
  [f \in DOMAIN fed \cup DOMAIN simulated \cup (IF m = "fresh" THEN DOMAIN repriced ELSE {}) |->
     IF f \in DOMAIN fed THEN fed[f] ELSE IF f \in DOMAIN simulated THEN simulated[f] ELSE repriced[f]]

\* Nothing written so far is computed from f.
Apart(p, i, m, f) == \A g \in Written(p, i) \cap DOMAIN inputs(m) : f \notin inputs(m)[g]

\* What was read before, of what this pass wrote and of the sources.
ReadBack(p, i) == (Written(p, i) \cap HandoffTables) \cup HandoffSources

\* A fresh pass reads what it wrote, and the others no source.
OpenFacts(p, i, m) ==
  /\ p[i].reads \subseteq HandoffTables \cup HandoffSources
  /\ m = "fresh" => p[i].reads \subseteq Written(p, i) \cup HandoffSources
  /\ m # "fresh" => p[i].reads \subseteq HandoffTables

CoversFacts(p, i, m, c) ==
  /\ m = "fresh" /\ p[i].do = "add"
  /\ \/ /\ c = covers("refunds") /\ p[i].reads = {"refunds"} /\ "refunds" \in Written(p, i)
        /\ Known(p, i) /\ Taken(p, i) \subseteq ReadBack(p, i)
     \/ \E g \in {"runtime_partial", "attribution_partial"} :
          /\ c = covers(cache_of(g)) /\ p[i].reads = {} /\ Known(p, i)
          /\ g \notin Dropped(p, i) /\ Taken(p, i) = {g}

SameRowsFacts(p, i, m, c) ==
  \/ /\ c = same_rows("refunds", "traces") /\ m = "fresh" /\ p[i].do = "add"
     /\ p[i].reads = {"refunds"} /\ "refunds" \in Written(p, i) /\ Known(p, i)
     /\ Taken(p, i) \subseteq ReadBack(p, i)
     /\ "traces" \in Taken(p, i)
  \/ /\ c = same_rows("attribution_blocks", "runtime_blocks")
     /\ counted("runtime_blocks") \in p[i].checks
     /\ \/ /\ m = "fresh" /\ p[i].do = "add" /\ p[i].reads = {"runtime_blocks"}
           /\ Known(p, i) /\ Taken(p, i) = {"attribution_partial"}
           /\ "attribution_partial" \notin Dropped(p, i)
           /\ "runtime_partial" \in Dropped(p, i)
        \/ /\ p[i].do = "open" /\ p[i].reads = decomposition_inputs
           /\ counted("attribution_blocks") \in p[i].checks
           /\ m = "fresh" => "attribution_blocks" \in Written(p, i)

AsInFacts(p, i, m, c) ==
  \/ /\ c = as_in("execution_repricing", {"anchor_accounting"}, {"blocks", "rpc_blocks"})
     /\ m = "fresh" => {"execution_repricing", "anchor_accounting"} \subseteq Written(p, i)
  \/ /\ c = as_in("metering_anchor", {"daily_metering"}, {"blocks"})
     /\ "metering_anchor" \in Written(p, i)
  \/ /\ c = as_in("demand_card", {"metering_anchor"}, {"runtime_blocks"})
     /\ {"demand_card", "metering_anchor"} \subseteq Written(p, i)
     /\ m = "fresh" => "equilibrium_anchor" \in Written(p, i)
  \/ \E f \in {"slot_fixed", "slot_scenarios"} :
       /\ c = as_in(f, {"demand_card", "metering_anchor"} \cup build_full_multiscale_workload,
                    {"blocks", "runtime_blocks", "static_panel", "contiguous_bal"})
       /\ f \in Written(p, i)

\* Published numbers are compared when what was read is known.
PublishedFacts(p, i, m) ==
  /\ p[i].do # "derive"
  /\ p[i].do = "add" =>
       /\ Known(p, i) /\ Taken(p, i) \cap pulled = {}
       /\ m = "fresh" => Taken(p, i) \subseteq ReadBack(p, i)
       /\ m # "fresh" => Taken(p, i) \subseteq HandoffTables

CheckFacts(p, i, m, c) ==
  /\ c.is \in {"counted", "covers", "same_rows", "as_in", "published", "perhaps"}
  /\ c.is \in {"counted", "perhaps"} => /\ c.file \in HandoffTables
                                        /\ m = "fresh" => c.file \in Written(p, i)
  /\ c.is = "covers" => CoversFacts(p, i, m, c)
  /\ c.is = "same_rows" => SameRowsFacts(p, i, m, c)
  /\ c.is = "as_in" => AsInFacts(p, i, m, c)
  /\ c.is = "published" => PublishedFacts(p, i, m)

\* A table is written from exactly the files it is computed from: the second
\* time the shocks are, also from the anchor the card was computed from.
WriteFacts(p, i, m) ==
  /\ p[i].file \in (HandoffTables \ HandoffCaches) \cup {"sensitivity_partial"}
  /\ Known(p, i) /\ Taken(p, i) \cap pulled = {} /\ p[i].file \notin Taken(p, i)
  /\ Taken(p, i) \subseteq HandoffTables \cup HandoffSources
  /\ m = "fresh" => Taken(p, i) \subseteq Written(p, i) \cup HandoffSources
  /\ p[i].file \in DOMAIN inputs(m) =>
       \/ Taken(p, i) = inputs(m)[p[i].file]
       \/ /\ p[i].file = "shocks" /\ "demand_card" \in Written(p, i)
          /\ Taken(p, i) = inputs(m)["shocks"] \cup {"metering_anchor"}
  /\ p[i].file \in {"anchor_accounting", "execution_repricing"} =>
       /\ {"blocks", "rpc_blocks"} \subseteq Taken(p, i) /\ "rpc_blocks" \in Written(p, i)
       /\ Taken(p, i) \ HandoffSources \subseteq {"rpc_blocks", "refunds"}
  /\ p[i].file \notin Dropped(p, i)
  /\ p[i].file = "demand_card" => Paired(p, i)
  /\ Apart(p, i, m, p[i].file)

\* A cache is saved once, from what its pull has, right after the check.
SaveFacts(p, i, m) ==
  /\ m = "fresh" /\ i > 1
  /\ Known(p, i)
  /\ p[i].file \notin Written(p, i)
  /\ Apart(p, i, m, p[i].file)
  /\ \/ /\ p[i].file = "runtime_blocks" /\ "runtime_partial" \notin Dropped(p, i)
        /\ Taken(p, i) = {"runtime_partial"}
        /\ p[i-1].do = "add" /\ covers("runtime_blocks") \in p[i-1].checks
     \/ /\ p[i].file = "attribution_blocks" /\ "attribution_partial" \notin Dropped(p, i)
        /\ Taken(p, i) = {"attribution_partial", "runtime_blocks"}
        /\ "runtime_blocks" \in Written(p, i)
        /\ p[i-1].do = "add" /\ same_rows("attribution_blocks", "runtime_blocks") \in p[i-1].checks
     \/ /\ p[i].file = "contiguous_bal" /\ "contiguous_bal_partial" \notin Dropped(p, i)
        /\ Taken(p, i) = {"contiguous_bal_partial"}

\* The daily counts only are derived if they are not there.
DeriveFacts(p, i, m) ==
  /\ p[i].again \in BOOLEAN
  /\ p[i].file \in HandoffTables \ HandoffCaches
  /\ p[i].file \notin p[i].reads
  /\ p[i].file \notin {"anchor_accounting", "execution_repricing", "demand_card"}
  /\ Apart(p, i, m, p[i].file)
  /\ m = "fresh" => p[i].again
  /\ p[i].again /\ p[i].file \in DOMAIN inputs(m) => p[i].reads = inputs(m)[p[i].file]
  /\ ~p[i].again => p[i].file \notin Written(p, i) /\ p[i].file = "daily_metering"

\* A pull is resumed once, before anything is computed from its cache.
ResumeFacts(p, i, m) ==
  /\ m = "fresh"
  /\ p[i].file \in pulled \cup {"refunds", "rpc_blocks", "static_panel"}
  /\ p[i].cache = cache_of(p[i].file)
  /\ p[i].source \in HandoffSources
  /\ p[i].file = "refunds" => p[i].source = "traces"
  /\ p[i].earlier = IF p[i].file = "runtime_partial"
                    THEN <<"runtime_partial", "runtime_blocks">> ELSE <<p[i].file>>
  /\ p[i].file \notin Dropped(p, i) \cup Written(p, i) \cup Taken(p, i)
  /\ p[i].cache \notin Taken(p, i) \cup Written(p, i)
  /\ Apart(p, i, m, p[i].file)

InspectFacts(p, i, m) ==
  /\ p[i].files \cup p[i].counted \subseteq HandoffTables
  /\ m = "fresh" => p[i].files \cup p[i].counted \subseteq Written(p, i)

StepFacts(p, i, m) ==
  /\ Dropped(p, i) \subseteq Partials.handoffs
  /\ Written(p, i) \subseteq HandoffTables \cup Partials.handoffs
  /\ Taken(p, i) \subseteq HandoffFiles
  /\ p[i].do \in {"open", "add", "write", "save", "unlink", "derive", "resume", "inspect"}
  /\ p[i].do \in {"open", "add", "derive"} =>
       OpenFacts(p, i, m) /\ \A c \in p[i].checks : CheckFacts(p, i, m, c)
  /\ p[i].do = "write" => WriteFacts(p, i, m)
  /\ p[i].do = "save" => SaveFacts(p, i, m)
  /\ p[i].do = "unlink" => p[i].file \in Partials.handoffs
  /\ p[i].do = "derive" => DeriveFacts(p, i, m)
  /\ p[i].do = "resume" => ResumeFacts(p, i, m)
  /\ p[i].do = "inspect" => InspectFacts(p, i, m)

\* Through, a pass has written every handoff; but the simulated tables, when
\* it reuses them; and every table, when it asks for all rows.
EndFacts(p, m) ==
  /\ DOMAIN fed \subseteq Written(p, Len(p) + 1)
  /\ m # "reuse" => DOMAIN simulated \subseteq Written(p, Len(p) + 1)
  /\ m = "fresh" => HandoffTables \subseteq Written(p, Len(p) + 1) /\ Covered(p, Len(p) + 1)

HandoffFacts ==
  \A m \in Modes.handoffs :
    /\ Len(handoffs(m)) \in Nat \ {0}
    /\ \A i \in 1..Len(handoffs(m)) : StepFacts(handoffs(m), i, m)
    /\ EndFacts(handoffs(m), m)

ASSUME HandoffScripts == HandoffFacts

-----------------------------------------------------------------------------
(* The report.  What is known before each step of a pass over it is a      *)
(* note; what a step adds to a note, or takes from it, is told by the kind *)
(* of the step.                                                            *)

ReportFiles == ReportTables \cup ReportSources
Surfaces == {"surface", "surface_paths"}

\* Tables from before a workload is read.
Bare == {"floor_panel", "anchor", "by_rate"}

\* The tables each manifest is compared for.
vouched_by ==
  [comparison_manifest |-> {"tail", "comparison"},
   robustness_manifest |-> Surfaces \cup {"reselected"},
   eip8372_manifest    |-> {"normalized", "fixed_7999"},
   diagnostic_manifest |-> {"diagnostic"},
   capped_manifest     |-> {"capped"}]

\* Reads that take from another file, or only part of it.
behind(f) == CASE f = "quantities" -> "by_rate" [] f = "baseline_anchor" -> "anchor" [] OTHER -> f
Behind(N) == {behind(f) : f \in N}
ReadNames == ReportFiles \cup {"quantities", "baseline_anchor"}

\* The sources a file has rows of whenever it is there.
has_of(f) ==
  CASE f \in ReportSources -> {f}
    [] f = "quantities" -> {"glamsterdam"}
    [] f \in Bare \cup {"baseline_anchor"} -> {"panels", "glamsterdam"}
    [] f = "comparison" -> ReportSources
    [] f \in Manifests -> {}
    [] OTHER -> {"panels", "glamsterdam", "workload"}
has_all(N) == UNION {has_of(f) : f \in N}

\* Of files: written by this pass; seen or written by it; written from sources
\* that are there, if none changed; with no workload but the one the factorial
\* opened; that hold what is in memory.  Of the pass: the factorial has opened a
\* workload; the anchor is the 64-gas one; the results were reproduced; the
\* manifests were compared; the summary is of its tables.  Of memory: the sources
\* it has; whether it is from sources, has no other workload, has that one, is of
\* the tables summed up, has no cut row, is of the surfaces.
start == [sure |-> {}, there |-> {}, sound |-> {}, solid |-> {}, copies |-> {},
          opened |-> FALSE, anchored |-> FALSE, caught |-> FALSE, joined |-> FALSE,
          summed |-> FALSE, has |-> {}, clean |-> TRUE, firm |-> TRUE, touched |-> FALSE,
          summing |-> FALSE, legible |-> TRUE, echo |-> FALSE, guarded |-> {}]
Aspects == DOMAIN start
FileAspects == {"sure", "there", "sound", "solid", "copies", "has"}

Opening(s, n) == ~n.opened /\ s.reads = {"by_rate", "workload"}
CleanReads(N, n) == /\ Behind(N) \subseteq n.sound \cup ReportSources
                    /\ "baseline_anchor" \in N => n.anchored
FirmReads(N, n) == N \subseteq n.solid \cup Bare \cup {"quantities", "panels", "glamsterdam"}
LegibleReads(N, n) == Behind(N) \subseteq (n.sure \ {"summary"}) \cup ReportSources

after_snapshot(n) ==
  [n EXCEPT !.has = {}, !.copies = {}, !.clean = TRUE, !.firm = TRUE, !.touched = FALSE,
            !.summing = FALSE, !.legible = TRUE, !.echo = FALSE, !.guarded = {}]

after_open(s, n) ==
  [n EXCEPT !.has = has_all(s.reads), !.copies = {}, !.clean = CleanReads(s.reads, n),
            !.opened = @ \/ Opening(s, n), !.firm = FirmReads(s.reads, n) \/ Opening(s, n),
            !.touched = s.reads \cap n.solid # {} \/ Opening(s, n),
            !.summing = (s.reads = {"comparison", "normalized"}),
            !.legible = LegibleReads(s.reads, n), !.echo = FALSE, !.guarded = s.protects]

after_add(s, n) ==
  [n EXCEPT !.has = @ \cup has_all(s.reads), !.copies = {},
            !.clean = @ /\ CleanReads(s.reads, n), !.firm = @ /\ FirmReads(s.reads, n),
            !.touched = @ \/ s.reads \cap n.solid # {},
            !.summing = FALSE, !.legible = @ /\ LegibleReads(s.reads, n), !.echo = FALSE]

after_matches(s, n) ==
  [n EXCEPT !.has = @ \cup {"workload"}, !.copies = {}, !.firm = @ /\ s.file \in n.solid,
            !.touched = @ \/ s.file \in n.solid, !.summing = FALSE, !.echo = FALSE]

after_cache(n) ==
  [n EXCEPT !.has = has_of("surface"), !.copies = {}, !.clean = TRUE, !.firm = TRUE,
            !.touched = TRUE, !.summing = FALSE, !.legible = TRUE, !.echo = FALSE]
after_cached(n) ==
  [n EXCEPT !.has = has_of("surface"), !.there = @ \cup Surfaces, !.copies = {}, !.clean = FALSE,
            !.firm = FALSE, !.touched = TRUE, !.summing = FALSE, !.legible = FALSE, !.echo = TRUE]

holding(f, S, more) == (S \ {f}) \cup IF more THEN {f} ELSE {}

after_write(s, n) ==
  [n EXCEPT !.sure = @ \cup {s.file}, !.there = @ \cup {s.file},
            !.copies = holding(s.file, @, s.do # "record"), !.sound = holding(s.file, @, n.clean),
            !.solid = holding(s.file, @, n.firm /\ n.touched),
            !.anchored = IF s.file = "anchor" THEN s.do = "replace" /\ s.rate = 64 ELSE @,
            !.joined = @ /\ s.file \notin Manifests,
            !.summing = @ /\ s.file \notin {"comparison", "normalized"},
            !.summed = \/ s.file = "summary" /\ n.summing
                       \/ @ /\ s.file \notin {"summary", "comparison", "normalized"},
            !.echo = @ \/ s.file = "surface"]

\* What agrees with one workload has no other; what agrees with rows of every
\* source has no others.
Settles(s, n) == /\ n.opened /\ "workload" \in s.of
                 /\ s.file \in n.solid \/ (s.file = "results" /\ n.touched)
Anchors(s, n) ==
  s.of = ReportSources /\ n.legible /\ s.file \in n.sound /\ has_of(s.file) = ReportSources

after_reproduce(s, n) ==
  [n EXCEPT !.caught = \/ @
                       \/ s.file = "results" /\ n.touched /\ n.opened /\ "workload" \in s.of,
            !.firm = @ \/ Settles(s, n), !.clean = @ \/ Anchors(s, n),
            !.solid = @ \cup IF Settles(s, n) /\ n.touched THEN n.copies ELSE {},
            !.sound = @ \cup IF Anchors(s, n) THEN n.copies ELSE {}]

after_inspect(s, n) ==
  [n EXCEPT !.there = @ \cup s.files,
            !.legible = @ \/ (n.echo /\ Surfaces \subseteq s.counted)]

after_manifests(s, n) ==
  [n EXCEPT !.joined = @ \/ (s.files = Manifests /\ s.file = "factorial_manifest")]

after(s, n) ==
  CASE s.do = "source_snapshot" -> after_snapshot(n)
    [] s.do = "open" -> after_open(s, n)
    [] s.do = "add" -> after_add(s, n)
    [] s.do = "matches" -> after_matches(s, n)
    [] s.do = "surface_cache" -> after_cache(n)
    [] s.do \in {"write", "replace", "record"} -> after_write(s, n)
    [] s.do = "reproduce" -> after_reproduce(s, n)
    [] s.do = "inspect" -> after_inspect(s, n)
    [] s.do = "manifests_cell" -> after_manifests(s, n)
    [] OTHER -> n

\* k claims no more than n does.
Weaker(k, n) ==
  /\ \A a \in FileAspects : k[a] \subseteq n[a]
  /\ k.opened = n.opened
  /\ \A a \in Aspects \ (FileAspects \cup {"opened", "guarded"}) : k[a] => n[a]
  /\ n.guarded \subseteq k.guarded

\* The steps of a cached surface skip two writes.
notes(p) ==
  LET N[i \in 1..(Len(p) + 1)] ==
        IF i = 1 THEN start
        ELSE IF i > 3 /\ p[i-3].do = "surface_cache" THEN after_cached(N[i-3])
        ELSE after(p[i-1], N[i-1])
  IN N

-----------------------------------------------------------------------------
(* What each kind of step asks of the note before it.                      *)

\* A table compared by a manifest is written after the factorial's manifest,
\* from its workload, or from the surfaces that were there; the summary, from
\* two of these.
VouchedNote(f, n) ==
  \/ f = "summary" /\ n.summing
  \/ /\ f # "summary" /\ n.opened /\ "factorial_manifest" \in n.solid
     /\ \/ n.firm /\ n.touched
        \/ n.echo /\ f \in Surfaces

WriteNote(s, n) ==
  /\ s.file \in ReportTables \ (Manifests \cup n.guarded)
  /\ has_of(s.file) \subseteq n.has
  /\ s.file # "summary" => n.legible
  /\ s.file \in Bare => n.firm /\ ~n.opened
  /\ s.file \in Vouched => VouchedNote(s.file, n)
  /\ n.touched => n.opened
  /\ s.do = "replace" => s.rate \in {0, 64, 96} /\ (s.file = "anchor" => s.rate # 0)
  /\ s.do = "write" => s.file # "anchor"

\* A manifest is of one workload if its tables are.
RecordNote(s, n) ==
  /\ s.file \in Manifests \ n.guarded
  /\ "workload" \in n.has /\ n.opened /\ n.touched
  /\ s.file = "factorial_manifest" => n.firm
  /\ s.file # "factorial_manifest" => "factorial_manifest" \in n.solid
  /\ s.file \in DOMAIN vouched_by => vouched_by[s.file] \subseteq n.solid

\* The names in a note.
NoteNames(n) ==
  /\ DOMAIN n = Aspects
  /\ n.sure \cup n.there \cup n.sound \cup n.solid \cup n.copies \subseteq ReportTables
  /\ n.guarded \subseteq ReportFiles

\* The tables a step may rely on: those a fresh pass wrote from sources; those of
\* an earlier pass.
relied(n, m) == IF m = "fresh" THEN n.sound \cap n.sure ELSE ReportTables

ReadNote(s, n, m) ==
  /\ s.checks = {} /\ s.reads \subseteq ReadNames
  /\ "baseline_anchor" \in s.reads => n.anchored
  /\ IF m = "fresh" THEN Behind(s.reads) \subseteq n.sure \cup ReportSources
                    ELSE s.reads \subseteq ReportTables

\* Computed here from sources, or taken from the surfaces.
ReproduceNote(s, n, m) ==
  /\ m = "fresh" /\ s.file \in relied(n, m) \cup {"results"} /\ s.reads \subseteq relied(n, m)
  /\ s.of \subseteq ReportSources
  /\ n.clean \/ Surfaces \subseteq n.copies

CacheNote(n, m) ==
  /\ m = "fresh" /\ n.opened
  /\ {"scenarios", "paths", "factorial_manifest"} \subseteq n.solid \cap relied(n, m)
  /\ "by_rate" \in relied(n, m)

InspectNote(s, n, m) ==
  /\ s.files \cup s.counted \subseteq ReportTables
  /\ m = "fresh" => /\ s.files \subseteq n.there
                    /\ \/ s.counted \subseteq n.sure
                       \/ s.counted = Surfaces /\ Surfaces \subseteq n.there

ReportNeeds(s, n, m) ==
  /\ s.do \in {"source_snapshot", "verify_sources", "open", "add", "write", "replace", "record",
               "matches", "reproduce", "unchanged", "surface_cache", "inspect", "baseline_cell",
               "derived_cell", "central_cell", "manifests_cell"}
  /\ s.do \in {"open", "add"} => ReadNote(s, n, m)
  /\ s.do = "open" => s.protects \subseteq ReportFiles
  /\ s.do \in {"write", "replace"} => WriteNote(s, n)
  /\ s.do = "record" => RecordNote(s, n)
  /\ s.do = "matches" => m = "fresh" /\ n.opened /\ s.file \in Manifests \cap relied(n, m)
  /\ s.do = "reproduce" => ReproduceNote(s, n, m)
  /\ s.do = "surface_cache" => CacheNote(n, m)
  /\ s.do = "inspect" => InspectNote(s, n, m)
  /\ s.do = "baseline_cell" => m = "reuse"
  /\ s.do = "derived_cell" => {"by_rate", "tail", "calibration"} \subseteq relied(n, m)
  /\ s.do = "central_cell" => {"comparison", "normalized"} \subseteq relied(n, m)
  /\ s.do = "manifests_cell" => s.files \cup {s.file} \subseteq Manifests \cap relied(n, m)

ReportStepFacts(p, m, i) ==
  LET n == notes(p)[i]
      k == notes(p)[i+1] IN
  /\ NoteNames(n)
  /\ Weaker(k, after(p[i], n))
  /\ ReportNeeds(p[i], n, m)
  /\ p[i].do = "surface_cache" => i + 3 <= Len(p) /\ Weaker(notes(p)[i+3], after_cached(n))

\* Through, a pass has seen the tables that are compared and summed up two of
\* them after comparing the manifests; a fresh one has written all.
ReportEndFacts(p, m) ==
  LET n == notes(p)[Len(p) + 1] IN
  /\ Vouched \subseteq n.there \cup n.sure /\ n.joined /\ n.summed
  /\ m = "fresh" => ReportTables \subseteq n.sure \cap n.sound /\ n.caught

ReportFacts ==
  \A m \in Modes.report :
    /\ Len(report(m)) \in Nat \ {0}
    /\ \A i \in 1..Len(report(m)) : ReportStepFacts(report(m), m, i)
    /\ NoteNames(notes(report(m))[Len(report(m)) + 1])
    /\ ReportEndFacts(report(m), m)
    /\ notes(report(m))[1] = start

ASSUME ReportNotes == ReportFacts
=============================================================================

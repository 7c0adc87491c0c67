------------------------- MODULE PublicationInvariant -------------------------
(***************************************************************************)
(* What the passes over a chain keep: the invariants from which the claims *)
(* of Publication follow (module PublicationProofs).                       *)
(*                                                                         *)
(* The four claims are about the end of a pass only.  The invariants add   *)
(* what the disk can hold at any moment (HandoffBase, ReportBase) and what *)
(* holds before each step of a pass (HandoffAt, ReportAt): which files it  *)
(* has written, read and removed (facts about its script alone, in         *)
(* PublicationFacts), what each of them has, what the process has in       *)
(* memory, and what the checks it made rule out.                           *)
(***************************************************************************)
EXTENDS PublicationFacts

\* What is claimed of the passes.
Claims == FreshPassIsCurrent /\ FreshFailsForAReason /\ ReuseOfACompleteRun /\ VerifiedTablesAgree

-----------------------------------------------------------------------------
(* What a pass over the handoffs keeps, before its i-th step.              *)

\* The steps of the pass that runs, or of the last one.
script == program[chain][mode]

\* Rows are a name and a version, and those of a source are never cut.
IsRows(S) ==
  \A v \in S : /\ v = <<v[1], v[2]>>
               /\ v[1] \in HandoffSources \cup {"other_rate"} => v[2] # cut_row

\* Every file of the chain has a place on disk; a source is there, whole, in
\* one version.
HandoffDisk ==
  /\ DOMAIN disk = HandoffFiles
  /\ \A f \in HandoffFiles :
       /\ disk[f] = [is |-> disk[f].is, from |-> disk[f].from]
       /\ disk[f].is \in {"none", "torn", "whole"}
       /\ disk[f].is = "none" => disk[f].from = {}
       /\ IsRows(disk[f].from)
  /\ \A s \in HandoffSources : \E v \in Nat : disk[s] = file({<<s, v>>})

\* A cache, and a pull's own file, hold rows of that cache alone, some of
\* them not cut; the refunds also what their other rate came from.
OwnRows ==
  \A f \in HandoffCaches \cup pulled :
     /\ \A v \in disk[f].from : v[1] = cache_of(f) \/ (f = "refunds" /\ v[1] = "other_rate")
     /\ exists(f) => \E v \in disk[f].from : v[1] = cache_of(f) /\ v[2] # cut_row

\* What the checks before the saves leave true of the caches.
SavedRows ==
  /\ whole("runtime_blocks") =>
       <<"runtime_blocks", cut_row>> \notin disk["runtime_blocks"].from
  /\ whole("attribution_blocks") =>
       \E v : v # cut_row /\ disk["attribution_blocks"].from = {<<"attribution_blocks", v>>}
  /\ <<"static_panel", cut_row>> \notin disk["static_panel"].from
  /\ whole("runtime_blocks") /\ exists("runtime_partial") =>
       disk["runtime_partial"] = disk["runtime_blocks"]

\* A repriced table tells the sampled rows it was computed from, or those
\* were drifted or cut.
moved(S) == \E v \in S : v[1] = "rpc_blocks" /\ (v[2] = cut_row \/ drifted(v))
Sampled ==
  \A f \in {"anchor_accounting", "execution_repricing"} : exists(f) =>
       /\ on(disk[f].from, {"blocks"}) # {}
       /\ \/ whole("rpc_blocks") /\ on(disk[f].from, {"rpc_blocks"}) = disk["rpc_blocks"].from
          \/ moved(disk[f].from)

\* The demand card weighed two panels over the same blocks.
pair(v) == {<<"runtime_blocks", v>>, <<"attribution_blocks", v>>}
Weighed == exists("demand_card") => \E v : pair(v) \subseteq disk["demand_card"].from

\* What holds of the disk at any moment, between passes too.
HandoffBase == HandoffDisk /\ OwnRows /\ SavedRows /\ Sampled /\ Weighed

-----------------------------------------------------------------------------
(* What the process in a pass has in memory.                               *)

\* A pull's own file that was removed lives on in the cache saved from it.
Standing(N) == {IF n \in pulled /\ ~exists(n) THEN cache_of(n) ELSE n : n \in N}

\* Memory holds what the files N have; of the sources among them, perhaps an
\* earlier version, unless nothing changed during the pass.
MadeOf(N) ==
    /\ \A v \in made : v[1] \in HandoffSources \/ v \in contents(N \ HandoffSources)
    /\ contents(N \ HandoffSources) \subseteq made
    /\ \A s \in N \cap HandoffSources : on(made, {s}) # {}
    /\ steady \/ N \cap HandoffSources = {} => made = contents(N)

\* Unless it derived a table only if that was missing, it has what it read.
HMade(p, i) ==
  Known(p, i) /\ Taken(p, i) \cap Dropped(p, i) = {} =>
    \E N : N = Standing(Taken(p, i)) /\ MadeOf(N)

\* What it resumed is whole, as its partial or as the cache.
HPulled(p, i) == \A g \in (pulled \cap Taken(p, i)) \ Dropped(p, i) :
  /\ exists(g) => whole(g)
  /\ ~exists(g) => g = "runtime_partial" /\ whole(cache_of(g))

\* The rows it has satisfy the coverage and equality checks it just made.
RowsHold(checks, S) == \A c \in checks :
  /\ c.is = "covers" => <<c.cache, cut_row>> \notin S
  /\ c.is = "same_rows" => /\ versions(S, c.one) = versions(S, c.other)
                           /\ \A v, w \in versions(S, c.one) : v = w
HChecked(p, i) ==
  (i > 1 /\ p[i-1].do = "add") => RowsHold(p[i-1].checks, made)

\* After comparing the two panels it has both, over the same blocks.
HPaired(p, i) ==
  (Paired(p, i) /\ Known(p, i)) => \E v : pair(v) \subseteq made

\* No refund is cut once some process has looked for cut ones.
HCovered(p, i) == Covered(p, i) =>
  /\ "refunds" \in Written(p, i)
  /\ <<"refunds", cut_row>> \notin disk["refunds"].from

-----------------------------------------------------------------------------
(* What the files that the pass wrote, W, are.                             *)

\* Each has what the files it is computed from have, unless one of these is
\* a source that changed during the pass.
Fed(W, inp) == \A f \in W \cap DOMAIN inp :
    (steady \/ inp[f] \cap HandoffSources = {}) => disk[f] = file(contents(inp[f]))

\* In a fresh pass, its rows are of the sources or of the caches written.
Based(v, W) == \/ v[1] \in HandoffSources /\ v \in disk[v[1]].from
               \/ \E c \in HandoffCaches \cap W : v \in disk[c].from
Traced(W, m) ==
  (m = "fresh" /\ steady) => \A f \in W \cap HandoffTables : \A v \in disk[f].from : Based(v, W)

WholeAll(W) == \A f \in W \cap HandoffTables : whole(f)
Gone(D) == \A g \in D : ~exists(g)

\* The attribution saved by the pass is over the blocks of its runtime panel.
Matched(W) == ("attribution_blocks" \in W) =>
   /\ "runtime_blocks" \in W
   /\ \E v : /\ disk["attribution_blocks"].from = {<<"attribution_blocks", v>>}
             /\ disk["runtime_blocks"].from = {<<"runtime_blocks", v>>}

HandoffAt(p, m, i) ==
  LET W == Written(p, i) IN
  /\ IsRows(made)
  /\ HMade(p, i) /\ HPulled(p, i) /\ HChecked(p, i) /\ HPaired(p, i) /\ HCovered(p, i)
  /\ Fed(W, inputs(m)) /\ Traced(W, m) /\ WholeAll(W) /\ Gone(Dropped(p, i)) /\ Matched(W)

\* A pass of mode m over the handoffs, through the script p, is at step i.
PassAt(p, m, i) ==
  /\ chain = "handoffs" /\ m \in Modes.handoffs /\ mode = m /\ script = p
  /\ i \in 1..Len(p) /\ Len(p) \in Nat \ {0} /\ at = i /\ StepFacts(p, i, m)
  /\ HandoffBase /\ HandoffAt(p, m, i)

\* Between passes the base and the claims hold; inside one, what PassAt says.
HandoffInv ==
  chain = "handoffs" =>
    /\ HandoffBase /\ Claims /\ changes \in Nat
    /\ at = 0 \/ \E p, m, i : PassAt(p, m, i)

-----------------------------------------------------------------------------
(* What a pass over the report keeps.                                      *)

of_workload(S) == on(S, {"workload"})
only(w) == {<<"workload", w>>}

ReportDisk ==
  /\ DOMAIN disk = ReportFiles
  /\ \A f \in ReportFiles :
       /\ disk[f] = [is |-> disk[f].is, from |-> disk[f].from]
       /\ disk[f].is \in {"none", "torn", "whole"}
       /\ disk[f].is = "none" => disk[f].from = {}
       /\ \A v \in disk[f].from : v = <<v[1], v[2]>>
  /\ \A s \in ReportSources \ {"results"} : \E v \in Nat : disk[s] = file({<<s, v>>})
  /\ \E v, w \in Nat : disk["results"] = file({<<"results", v>>, <<"workload", w>>})
  /\ anchor_rate \in {64, 96}

\* A workload is of no later version than the one there is.
UpTo(S) == \A v \in of_workload(S) :
   v[2] \in Nat /\ \A u \in disk["workload"].from : v[2] <= u[2]
Latest == /\ \A f \in ReportFiles : UpTo(disk[f].from)
          /\ changes \in Nat /\ \A u \in disk["workload"].from : u[2] <= 2 * changes

HasOwn == \A f \in ReportTables : exists(f) => \A n \in has_of(f) : on(disk[f].from, {n}) # {}

Legible == \A f \in ReportTables \ {"summary"} :
  whole(f) => \A v \in disk[f].from : v[1] \in ReportSources

Recorded ==
  /\ \A g \in Manifests : whole(g) =>
       disk[g].from # {} /\ \A v \in disk[g].from : v[1] = "workload"
  /\ whole("factorial_manifest") => \E w \in Nat : disk["factorial_manifest"].from = only(w)

BareRows == \A f \in Bare : of_workload(disk[f].from) = {}

\* A manifest's one workload is no later than those of its tables, which are no
\* later than the factorial's.
Vouching == \A g \in DOMAIN vouched_by : \A w \in Nat : disk[g] = file(only(w)) =>
  \A f \in vouched_by[g] : \A v \in of_workload(disk[f].from) : w <= v[2]
Bounded == \A w \in Nat : disk["factorial_manifest"] = file(only(w)) =>
  \A f \in Vouched : \A v \in of_workload(disk[f].from) : v[2] <= w

ReportBase ==
  ReportDisk /\ Latest /\ HasOwn /\ Legible /\ Recorded /\ BareRows /\ Vouching /\ Bounded

\* The rows of the sources, with the workload the results replay.
replayed == UNION {disk[s].from : s \in ReportSources}

MadeAt(n) ==
  /\ \A v \in made : v = <<v[1], v[2]>>
  /\ UpTo(made)
  /\ \A s \in n.has : on(made, {s}) # {}
  /\ n.legible => \A v \in made : v[1] \in ReportSources
  /\ n.summing => made = disk["comparison"].from \cup disk["normalized"].from
  /\ n.echo => made \subseteq disk["surface"].from \cup disk["surface_paths"].from

FilesAt(n) ==
  /\ \A f \in n.sure : whole(f)
  /\ \A f \in n.there : exists(f)
  /\ \A f \in n.copies : disk[f] = file(made)
  /\ n.anchored => anchor_rate = 64
  /\ n.joined => \A g \in Manifests : disk[g] = file(disk["factorial_manifest"].from)
  /\ n.summed => disk["summary"].from = disk["comparison"].from \cup disk["normalized"].from

\* While no source changes.
SteadyAt(n) == steady =>
  /\ n.clean => made \subseteq replayed
  /\ \A f \in n.sound : disk[f].from \subseteq replayed
  /\ n.caught => \A v \in disk["results"].from : v[1] = "workload" => v \in disk["workload"].from
  /\ \A f \in DOMAIN held : held[f] = disk[f]
  /\ \A s \in DOMAIN snapshot : snapshot[s] = disk[s]

\* w is the workload the factorial opened.
OpenedOn(n, w) ==
  /\ \A u \in disk["workload"].from : w <= u[2]
  /\ steady => disk["workload"] = file(only(w))
  /\ \A f \in n.solid : of_workload(disk[f].from) = only(w)
  /\ n.firm => of_workload(made) \subseteq only(w)
  /\ n.touched => <<"workload", w>> \in made
  /\ \A f \in Vouched : \A v \in of_workload(disk[f].from) : v[2] <= w
  /\ \A g \in Manifests : \A x \in Nat : disk[g] = file(only(x)) => x <= w

WorkloadAt(n) ==
  IF n.opened THEN \E w \in Nat : OpenedOn(n, w)
              ELSE n.solid = {} /\ (n.firm => of_workload(made) = {})

ReportAt(n) == 
  /\ DOMAIN held \subseteq n.guarded /\ DOMAIN snapshot \subseteq {"results", "glamsterdam"}
  /\ MadeAt(n) /\ FilesAt(n) /\ SteadyAt(n) /\ WorkloadAt(n)


\* A pass of mode m over the report, through the script p, is at step i.
ReportPass(p, m, i) ==
  /\ chain = "report" /\ m \in Modes.report /\ mode = m /\ script = p /\ p = report(m)
  /\ i \in 1..Len(p) /\ Len(p) \in Nat \ {0} /\ at = i
  /\ ReportBase /\ ReportAt(notes(p)[i])

\* Between passes the base and the claims hold; inside one, what is noted.
ReportInv ==
  chain = "report" =>
    /\ ReportBase /\ Claims /\ changes \in Nat
    /\ at = 0 \/ \E p, m, i : ReportPass(p, m, i)
=============================================================================

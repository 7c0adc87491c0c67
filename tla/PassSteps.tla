-------------------------------- MODULE PassSteps -------------------------------
(***************************************************************************)
(* What a notebook run is made of: files, and the steps of the scripts and *)
(* cells that read, check and write them.  A file is whether it is there   *)
(* and what it is from: pairs of a source, or of a cache of queried rows,  *)
(* and the version its numbers depend on.  Two computations of a number    *)
(* agree when they used the same versions.                                 *)
(*                                                                         *)
(* A torn file lacks rows, and the last of them may be cut: whatever is    *)
(* computed from it carries the file's name with the version cut_row.  A   *)
(* source may be regenerated within the tolerances of the pinned numbers,  *)
(* or so that they move: odd versions are the former, even ones the latter.*)
(***************************************************************************)
EXTENDS Integers, SequencesExt

cut_row == -1

missing == [is |-> "none", from |-> {}]
file(from) == [is |-> "whole", from |-> from]
rows(from) == [is |-> "torn", from |-> from]
torn(f, from) == rows(from \cup {<<f, cut_row>>})

on(content, names) == {v \in content : v[1] \in names}
versions(content, name) == {v[2] : v \in on(content, {name})}

\* No name is in two versions in these two.
agree(a, b) == \A v \in a, w \in b : v[1] = w[1] => v = w

kept_within(change) == 2 * change - 1
drifted_by(change) == 2 * change
drifted(v) == v[2] > 0 /\ v[2] % 2 = 0

-----------------------------------------------------------------------------
(* Checks a script makes of what it has read.                              *)

\* The rows of f are all there: a count, a merge without gaps, a positivity.
counted(f) == [is |-> "counted", file |-> f]

\* No row of the cache c has lost a column.
covers(c) == [is |-> "covers", cache |-> c]

\* Two sets of queried rows are equal, row for row.
same_rows(c, d) == [is |-> "same_rows", one |-> c, other |-> d]

\* What f was computed from, of these sources, is what the tables read are.
as_in(f, names, sources) == [is |-> "as_in", file |-> f, reads |-> names, of |-> sources]

\* The numbers are those of the publication, within its tolerances.
published == [is |-> "published"]

\* Cells that go on, or not, when f lacks rows.
perhaps(f) == [is |-> "perhaps", file |-> f]

-----------------------------------------------------------------------------
(* Steps.                                                                  *)

\* A process starts: what it reads, and the files it protects.
open(names, protects) == [do |-> "open", reads |-> names, protects |-> protects, checks |-> {}]
read(names, checks) == [do |-> "open", reads |-> names, protects |-> {}, checks |-> checks]
\* It reads more.
add(names) == [do |-> "add", reads |-> names, checks |-> {}]
also(names, checks) == [do |-> "add", reads |-> names, checks |-> checks]
\* It checks what it has.
require(checks) == [do |-> "add", reads |-> {}, checks |-> checks]

\* A table written in place; one renamed into place; a manifest.
write(f) == [do |-> "write", file |-> f]
replace(f) == [do |-> "replace", file |-> f, rate |-> 0]
replace_anchor(rate) == [do |-> "replace", file |-> "anchor", rate |-> rate]
record(f) == [do |-> "record", file |-> f]

\* A whole cell: read, check, write in place.
derive(f, names, checks) ==
  [do |-> "derive", file |-> f, reads |-> names, checks |-> checks, again |-> TRUE]
\* The same, when the table is not there.
backfill(f, names, checks) ==
  [do |-> "derive", file |-> f, reads |-> names, checks |-> checks, again |-> FALSE]

\* The rows a source is asked for are added, chunk by chunk, to those of the
\* first of these files that is there, in `work`; then `work` is removed.
resume(work, earlier, c, source) ==
  [do |-> "resume", file |-> work, earlier |-> earlier, cache |-> c, source |-> source]
unlink(f) == [do |-> "unlink", file |-> f]
\* The rows of the cache f that are at hand, in place.
save(f) == [do |-> "save", file |-> f]

inspect(files, of_whole) == [do |-> "inspect", files |-> files, counted |-> of_whole]
reproduce(f, names, s) == [do |-> "reproduce", file |-> f, reads |-> names, of |-> s]
matches(f)      == [do |-> "matches", file |-> f]
unchanged       == [do |-> "unchanged"]
surface_cache   == [do |-> "surface_cache"]
baseline_cell   == [do |-> "baseline_cell"]
derived_cell    == [do |-> "derived_cell"]
central_cell    == [do |-> "central_cell"]
manifests_cell(files, f) == [do |-> "manifests_cell", files |-> files, file |-> f]
source_snapshot == [do |-> "source_snapshot"]
verify_sources  == [do |-> "verify_sources"]
=============================================================================

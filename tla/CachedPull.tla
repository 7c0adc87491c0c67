------------------------------- MODULE CachedPull -------------------------------
(***************************************************************************)
(* The six scripts that pull a panel from the Xatu database in chunks of   *)
(* blocks and resume from what an interrupted run left:                    *)
(*   transaction_inputs     scripts/shared_fee/pull_transaction_inputs     *)
(*   carriers               scripts/build_bal_carrier_panel                *)
(*   execution_components   scripts/shared_fee/pull_execution_repricing_.. *)
(*   runtime_components     scripts/shared_fee/pull_runtime_components     *)
(*   contiguous_runtime     scripts/build_contiguous_runtime_bal           *)
(*   state_attribution      scripts/build_bal_runtime_state_attribution    *)
(* The first four write one part per chunk, named after a hash of its      *)
(* blocks and replaced by a rename; two of them add a file that lists the  *)
(* blocks of the part, by a rename (carriers) or in place (execution       *)
(* components).  The last two rewrite one partial csv in place after every *)
(* chunk.  Each then checks what it has and publishes a panel.             *)
(*                                                                         *)
(* A chunk is its set of blocks, which are in block order; that is also    *)
(* the name of its part.  A csv is the sequence of its rows.  A kill in    *)
(* the middle of a write in place leaves an empty file or a prefix of the  *)
(* rows whose last one may be torn; a prefix that ends inside the header   *)
(* is left out.                                                            *)
(*                                                                         *)
(* The database may answer a chunk incompletely: without some of its       *)
(* blocks, or without some of the transactions of a block, which is then   *)
(* lacking.  Only the carriers look before they keep an answer.  An answer *)
(* never holds more than it should, each block has transactions that its   *)
(* reference lists, and the references follow the input.                   *)
(***************************************************************************)
EXTENDS Integers, FiniteSets, SequencesExt

CONSTANTS Pulls,        \* the scripts of this instance
          Blocks,       \* block numbers the block input can list
          Inputs,       \* what it lists at first
          ChunkSizes,   \* values of --chunk-size
          Quotas,       \* values of --max-chunks or --max-new-chunks
          Settings,     \* what the carrier cache depends on
          MaxMishaps    \* bound on kills and failed or incomplete queries

None == "none"

ASSUME PullAssumption ==
  /\ Blocks \subseteq Nat \ {0}
  /\ IsFiniteSet(Blocks)
  /\ Inputs \subseteq (SUBSET Blocks) \ {{}}
  /\ ChunkSizes \subseteq Nat \ {0}
  /\ Quotas \subseteq Nat \ {0}
  /\ None \notin Settings
  /\ MaxMishaps \in Nat

\* Those that checkpoint by a part per chunk, and of them those that mark it.
Hashed == {"transaction_inputs", "carriers", "execution_components", "runtime_components"}
Marked == {"carriers", "execution_components"}
InPlace == {"contiguous_runtime", "state_attribution"}

\* Those that compare what they have cached with a reference.
Compared == {"transaction_inputs", "runtime_components"}

\* Those whose every checkpoint file is replaced by a rename.
Renaming == Hashed \ {"execution_components"}

VARIABLES
  pull,         \* the script
  input,        \* the blocks its input lists
  manifest,     \* settings of the carrier cache, or None
  parts,        \* of each chunk with a part, the blocks it has rows of, those
                \* of them that are lacking, and the settings
  markers,      \* of each chunk with a marker, what that file lists
  partial,      \* the partial csv
  output,       \* the published panel: of each of its blocks, its row
  torn,         \* whether a kill cut the panel's file
  block_output, \* blocks in the carriers' second panel
  phase,        \* where the process is, "idle" when none runs
  outcome,      \* how the last run ended
  chunk_size, todo,     \* of the run, and the chunks it still has to query
  pieces,       \* the rows it holds for the partial csv
  mishaps       \* kills and failed or incomplete queries so far

disk == <<manifest, parts, markers, partial, output, torn, block_output>>
run  == <<chunk_size, todo, pieces>>
vars == <<pull, input, manifest, parts, markers, partial, output, torn,
          block_output, phase, outcome, chunk_size, todo, pieces, mishaps>>

-----------------------------------------------------------------------------
(* Files.                                                                  *)

no_file == [file |-> None, rows |-> <<>>]
blank   == [file |-> "empty", rows |-> <<>>]
csv(rows) == [file |-> "csv", rows |-> rows]
listing(blocks) == [file |-> "list", blocks |-> blocks]
blank_list == [file |-> "empty", blocks |-> {}]

put(files, chunk, content) ==
  [c \in DOMAIN files \cup {chunk} |-> IF c = chunk THEN content ELSE files[c]]

\* A row is whole, lacking, lost digits of its last column (short), lost columns
\* (cut) or lost digits of its block number, its first column (stray).
row(b, state) == [block |-> b, state |-> state]

\* How many of these blocks come before b.
before(b, blocks) == Cardinality({c \in blocks : c < b})

\* The rows of a chunk answered with these blocks lacking.
answered(chunk, lacking) ==
  [i \in 1 .. Cardinality(chunk) |->
     LET b == CHOOSE c \in chunk : before(c, chunk) = i - 1
     IN  row(b, IF b \in lacking THEN "lacking" ELSE "whole")]

damaged(state) ==
  {state, "stray"} \cup (IF state \in {"whole", "lacking"} THEN {"cut"} ELSE {})
                   \cup (IF state = "whole" THEN {"short"} ELSE {})

\* What a kill leaves of a csv of these rows.
torn_csv(rows) ==
  {blank} \cup
  UNION {{csv(Append(SubSeq(rows, 1, n - 1), row(rows[n].block, state))) :
            state \in damaged(rows[n].state)} : n \in DOMAIN rows}

\* The rows in the order the checkpoint is written in.
sort_key(r) == IF r.state = "stray" THEN 0 ELSE r.block

in_file_order(rows) ==
  IF pull = "contiguous_runtime"
  THEN SortSeq(rows, LAMBDA r, s : sort_key(r) < sort_key(s))
  ELSE rows

\* Mutant: a slice ends on the block the next one starts with.
chunks_overlapping(blocks, size) ==
  [i \in 1 .. ((Cardinality(blocks) + size - 1) \div size) |->
     {b \in blocks : before(b, blocks) \in (i - 1) * size .. i * size}]

\* missing[start : start + chunk_size] for each start.
chunks(blocks, size) ==
  [i \in 1 .. ((Cardinality(blocks) + size - 1) \div size) |->
     {b \in blocks : before(b, blocks) \div size = i - 1}]

-----------------------------------------------------------------------------
(* What a run finds.                                                       *)

\* The parts that count.
paired == IF pull \in Marked THEN DOMAIN parts \cap DOMAIN markers ELSE DOMAIN parts

part_rows == UNION {parts[c].rows : c \in DOMAIN parts}
marked_blocks == UNION {markers[c].blocks : c \in DOMAIN markers}
partial_blocks ==
  {r.block : r \in {s \in ToSet(partial.rows) : s.state # "stray"}}

\* Mutant: the carrier parts are listed, not their markers.
recorded_parts ==
  CASE pull = "execution_components" -> marked_blocks
    [] pull \in Hashed \ {"execution_components"} -> part_rows
    [] OTHER -> partial_blocks

\* The blocks that need no query.
recorded ==
  CASE pull = "carriers" -> UNION {markers[c].blocks : c \in paired}
    [] pull = "execution_components" -> marked_blocks
    [] pull \in Hashed \ Marked -> part_rows
    [] OTHER -> partial_blocks

\* pandas.read_csv refuses an empty file.
unreadable ==
  \/ pull = "execution_components" /\ \E c \in DOMAIN markers : markers[c] = blank_list
  \/ pull \in InPlace /\ partial = blank

overlapping ==
  \E c, d \in paired : c # d /\ parts[c].rows \cap parts[d].rows # {}

\* Mutant: the settings of the cache are not compared.
refused_settings_unread(settings) ==
  pull = "carriers" /\ (overlapping \/ ~ recorded \subseteq input)

refused(settings) ==
  /\ pull = "carriers"
  /\ manifest \notin {None, settings} \/ overlapping \/ ~ recorded \subseteq input

\* Mutant: every part is looked up by the name of its chunk.
missing_chunks_by_name(size) ==
  SelectSeq(chunks(input, size), LAMBDA c : c \notin DOMAIN parts)

\* The blocks a part file is missing for, or the blocks not recorded.
missing_chunks(size) ==
  IF pull = "runtime_components"
  THEN SelectSeq(chunks(input, size), LAMBDA c : c \notin DOMAIN parts)
  ELSE chunks(input \ recorded, size)

-----------------------------------------------------------------------------
(* The process ends; what it held in memory is gone.                       *)

Exit(how) ==
  /\ phase' = "idle"
  /\ outcome' = how
  /\ chunk_size' = 0 /\ todo' = <<>> /\ pieces' = <<>>

Init ==
  /\ pull \in Pulls
  /\ input \in Inputs
  /\ manifest = None /\ parts = <<>> /\ markers = <<>> /\ partial = no_file
  /\ output = <<>> /\ torn = FALSE /\ block_output = {}
  /\ phase = "idle" /\ outcome = None
  /\ chunk_size = 0 /\ todo = <<>> /\ pieces = <<>>
  /\ mishaps = 0

\* A longer sample is drawn; the contiguous pull names its files after the
\* range of its blocks.
InputGrows(b) ==
  /\ phase = "idle"
  /\ pull # "contiguous_runtime"
  /\ b \in Blocks \ input
  /\ input' = input \cup {b}
  /\ UNCHANGED <<pull, disk, phase, outcome, run, mishaps>>

Start(size, quota, settings) ==
  /\ phase = "idle"
  /\ UNCHANGED <<pull, input, parts, markers, partial, output, torn, block_output, mishaps>>
  /\ IF unreadable \/ refused(settings)
     THEN /\ Exit(IF unreadable THEN "unreadable" ELSE "refused")
          /\ UNCHANGED manifest
     ELSE /\ manifest' = IF pull = "carriers" THEN settings ELSE None
          /\ phase' = "pull"
          /\ outcome' = "running"
          /\ chunk_size' = size
          /\ todo' = IF pull \in {"transaction_inputs", "carriers", "execution_components"}
                     THEN SubSeq(missing_chunks(size), 1, 
                                 IF quota < Len(missing_chunks(size)) THEN quota
                                 ELSE Len(missing_chunks(size)))
                     ELSE missing_chunks(size)
          /\ pieces' = partial.rows

-----------------------------------------------------------------------------
(* One chunk.                                                              *)

\* An answer that misses something is one of the mishaps.
Answered(is_complete) ==
  IF is_complete THEN UNCHANGED mishaps
  ELSE mishaps < MaxMishaps /\ mishaps' = mishaps + 1

\* The part of a chunk is written: the rows the database answered, which only
\* the carriers compare with their reference first.
WritePart(rows, lacking) ==
  LET is_complete == rows = Head(todo) /\ lacking = {}
  IN  /\ phase = "pull" /\ todo # <<>> /\ pull \in Hashed
      /\ rows \subseteq Head(todo) /\ lacking \subseteq rows
      /\ pull = "carriers" => is_complete
      /\ Answered(is_complete)
      /\ parts' = put(parts, Head(todo),
                      [rows |-> rows, lacking |-> lacking, settings |-> manifest])
      /\ IF pull \in Marked
         THEN phase' = "mark" /\ UNCHANGED todo
         ELSE todo' = Tail(todo) /\ UNCHANGED phase
      /\ UNCHANGED <<pull, input, manifest, markers, partial, output, torn, block_output,
                     outcome, chunk_size, pieces>>

\* The marker is written last.
WriteMarker ==
  /\ phase = "mark"
  /\ markers' = put(markers, Head(todo), listing(Head(todo)))
  /\ phase' = "pull"
  /\ todo' = Tail(todo)
  /\ UNCHANGED <<pull, input, manifest, parts, partial, output, torn, block_output,
                 outcome, chunk_size, pieces, mishaps>>

\* A block without a row is given one of zeros.
RewritePartial(lacking) ==
  /\ phase = "pull" /\ todo # <<>> /\ pull \in InPlace
  /\ lacking \subseteq Head(todo)
  /\ Answered(lacking = {})
  /\ pieces' = pieces \o answered(Head(todo), lacking)
  /\ partial' = csv(in_file_order(pieces'))
  /\ todo' = Tail(todo)
  /\ UNCHANGED <<pull, input, manifest, parts, markers, output, torn, block_output,
                 phase, outcome, chunk_size>>

\* The query raises, or its answer does not reconcile.
QueryFails ==
  /\ phase = "pull" /\ todo # <<>>
  /\ mishaps < MaxMishaps /\ mishaps' = mishaps + 1
  /\ Exit("failed")
  /\ UNCHANGED <<pull, input, disk>>

-----------------------------------------------------------------------------
(* Publication.                                                            *)

read_parts ==
  IF pull = "runtime_components" THEN ToSet(chunks(input, chunk_size)) ELSE paired

covered ==
  IF pull \in Marked THEN recorded ELSE UNION {parts[c].rows : c \in read_parts}

\* The cached part misses something of its chunk.  What the transaction inputs
\* miss of whole blocks is missing from what they have checkpointed instead.
amiss(c) ==
  parts[c].lacking # {} \/ (pull = "runtime_components" /\ parts[c].rows # c)

\* The set of transactions, or their bytes, are not the reference's.
differs == pull \in Compared /\ \E c \in read_parts : amiss(c)

PublishParts ==
  /\ phase = "pull" /\ todo = <<>> /\ pull \in Hashed
  /\ UNCHANGED <<pull, input, manifest, parts, markers, partial, torn, block_output, mishaps>>
  /\ IF pull # "runtime_components" /\ covered # input
     THEN Exit("resume") /\ UNCHANGED output
     ELSE IF (pull # "runtime_components" /\ overlapping) \/ differs
     THEN Exit("refused") /\ UNCHANGED output
     ELSE /\ output' = [b \in UNION {parts[c].rows : c \in read_parts} |->
                          IF \E c \in read_parts : b \in parts[c].lacking
                          THEN "lacking" ELSE "whole"]
          /\ IF pull = "carriers"
             THEN phase' = "blocks" /\ UNCHANGED <<outcome, run>>
             ELSE Exit("done")

\* The carriers' block panel follows the carriers.
PublishBlocks ==
  /\ phase = "blocks"
  /\ block_output' = DOMAIN output
  /\ Exit("done")
  /\ UNCHANGED <<pull, input, manifest, parts, markers, partial, output, torn, mishaps>>

\* The row of block b in a panel merged from the pieces; a column the row lost
\* is filled with zero.
merged(b) ==
  LET r == CHOOSE s \in ToSet(pieces) : s.block = b /\ s.state # "stray" IN
  IF r.state = "cut" THEN "zero" ELSE r.state

\* Mutant: the merged attribution is not searched for gaps.
has_gaps_only_strays == \E r \in ToSet(pieces) : r.state = "stray"

\* combined.isna, and the column types a lost value changes.
has_gaps == \E r \in ToSet(pieces) : r.state \in {"cut", "stray"}

\* The attribution's own sums, and its bytes against the block panel's.
unreconciled == \E r \in ToSet(pieces) : r.state = "lacking"

\* The panel is written in place, over the one of an earlier run.
PublishPartial ==
  /\ phase = "pull" /\ todo = <<>> /\ pull \in InPlace
  /\ UNCHANGED <<pull, input, manifest, parts, markers, partial, block_output, mishaps>>
  /\ IF pull = "state_attribution" /\ (has_gaps \/ unreconciled)
     THEN Exit("refused") /\ UNCHANGED <<output, torn>>
     ELSE /\ output' = [b \in input |-> merged(b)]
          /\ torn' = FALSE
          /\ phase' = "unlink"
          /\ UNCHANGED <<outcome, run>>

Unlink ==
  /\ phase = "unlink"
  /\ partial' = no_file
  /\ Exit("done")
  /\ UNCHANGED <<pull, input, manifest, parts, markers, output, torn, block_output, mishaps>>

-----------------------------------------------------------------------------
(* Kills.                                                                  *)

Killed ==
  /\ phase # "idle"
  /\ mishaps < MaxMishaps /\ mishaps' = mishaps + 1
  /\ Exit("killed")
  /\ UNCHANGED <<pull, input, manifest, parts, block_output>>

\* Between two writes, or while a file that a rename replaces is written.
KilledBetweenWrites == Killed /\ UNCHANGED <<markers, partial, output, torn>>

\* While the marker of an execution part is written.
KilledInMarker ==
  /\ phase = "mark" /\ pull = "execution_components"
  /\ Killed
  /\ \/ markers' = put(markers, Head(todo), blank_list)
     \/ \E b \in Head(todo) :
          markers' = put(markers, Head(todo), listing({c \in Head(todo) : c <= b}))
  /\ UNCHANGED <<partial, output, torn>>

\* While the partial csv is rewritten.
KilledInPartial(lacking) ==
  /\ phase = "pull" /\ todo # <<>> /\ pull \in InPlace
  /\ lacking \subseteq Head(todo)
  /\ Killed
  /\ partial' \in torn_csv(in_file_order(pieces \o answered(Head(todo), lacking)))
  /\ UNCHANGED <<markers, output, torn>>

\* While the panel is written in place.
KilledInOutput ==
  /\ phase = "pull" /\ todo = <<>> /\ pull \in InPlace
  /\ pull = "state_attribution" => ~has_gaps /\ ~unreconciled
  /\ Killed
  /\ output' = [b \in input |-> merged(b)]
  /\ torn' = TRUE
  /\ UNCHANGED <<markers, partial>>

-----------------------------------------------------------------------------
Work ==
  \/ (todo # <<>> /\ WritePart(Head(todo), {}))
  \/ WriteMarker \/ RewritePartial({})
  \/ PublishParts \/ PublishBlocks \/ PublishPartial \/ Unlink

Next ==
  \/ \E b \in Blocks : InputGrows(b)
  \/ \E size \in ChunkSizes, quota \in Quotas, settings \in Settings :
        Start(size, quota, settings)
  \/ \E rows \in SUBSET Blocks : \E lacking \in SUBSET rows : WritePart(rows, lacking)
  \/ \E lacking \in SUBSET Blocks : RewritePartial(lacking) \/ KilledInPartial(lacking)
  \/ WriteMarker \/ QueryFails
  \/ PublishParts \/ PublishBlocks \/ PublishPartial \/ Unlink
  \/ KilledBetweenWrites \/ KilledInMarker \/ KilledInOutput

Spec == Init /\ [][Next]_vars

\* "Run the command again to resume": with the settings of its cache.
Rerun ==
  \E size \in ChunkSizes, quota \in Quotas, settings \in Settings :
    /\ manifest \in {None, settings}
    /\ Start(size, quota, settings)

LiveSpec == Spec /\ WF_vars(Work) /\ WF_vars(Rerun)

-----------------------------------------------------------------------------
(* Properties.                                                             *)

\* The name of a part is a hash of its blocks, so a rerun with another chunk
\* size or a longer input writes new files next to the old ones.  The parts
\* that count still never hold a block twice, whatever was killed when, so
\* that loading them is never refused.  (The runtime components reuse a part
\* only for exactly its chunk and keep the others on disk, unread.)
PartsNeverOverlap ==
  pull \in {"transaction_inputs", "carriers"} => ~overlapping

\* A killed run costs the chunk in flight only: no block that a checkpoint
\* holds is queried again, and no checkpoint is lost, by the pulls that
\* replace their files.
CheckpointsAreKept ==
  [][(pull \in {"transaction_inputs", "carriers"}) =>
       /\ recorded \subseteq recorded'
       /\ \A c \in DOMAIN parts' : c \in DOMAIN parts \/ c \cap recorded = {}]_vars

\* Carriers of different settings never meet in one panel, though the cache
\* outlives the run that set it up.
OneSettingPerCache ==
  pull = "carriers" => \A c \in DOMAIN parts : parts[c].settings = manifest

\* The attribution may be resumed from a file a kill tore, and a row that lost
\* columns then looks done; and all pulls but the carriers' keep an answer before
\* they know whether it is complete.  Nothing of it is published by those that
\* reconcile their panel before they write it.
PanelsHaveNoGaps ==
  \A b \in DOMAIN output :
    /\ pull \in Renaming => output[b] = "whole"
    /\ pull = "state_attribution" => output[b] \in {"whole", "short"}

\* A cached answer lacks something that no rerun asks for again, since its
\* blocks have rows, or its part has the name.
spoiled == pull \in Compared /\ \E c \in DOMAIN parts : amiss(c)

\* Pulls whose checkpoints are renamed into place can be resumed: run again,
\* whatever its chunk sizes, each publishes the blocks of its input, however
\* often it was killed, failed, or answered without whole blocks before; but
\* not once an answer that lacks more is cached, which the comparison with the
\* reference may then refuse on every rerun: the transaction inputs publish
\* nothing any more, the runtime components while their chunk size stays.
RerunsComplete ==
  /\ pull \in Renaming => <>spoiled \/ <>[](DOMAIN output = input)
  /\ [][pull = "transaction_inputs" /\ spoiled => UNCHANGED output]_vars

\* "Blocks with no metered events are genuine zeros, not gaps."
ZerosAreGenuine == \A b \in DOMAIN output : output[b] # "zero"
=============================================================================

---------------------------- MODULE StaticDataPanel ----------------------------
(***************************************************************************)
(* The resumable builder of the static-data panel                          *)
(* (scripts/build_rpc_static_data_panel.py) with the batch fetcher it      *)
(* calls (sim/rpc_static_data.py).  A run queries the blocks no checkpoint *)
(* has yet, chunk by chunk; a pool of threads queries the blocks of a      *)
(* chunk, each with a bounded number of attempts; a chunk that was fetched *)
(* whole becomes a checkpoint, a Parquet part and then its manifest; when  *)
(* every requested block has one, the parts are combined into the output   *)
(* and the summary.  The process may be killed between any two steps, and  *)
(* is then started again on the files it left.                             *)
(*                                                                         *)
(* A file is replaced by a rename, so a reader sees the old one or the new *)
(* one.  A part is the set of blocks whose rows it holds, a manifest the   *)
(* set of blocks it lists.  Blocks without transactions, EmptyBlocks, have *)
(* no rows, and a part of such blocks only has another Parquet schema.  An *)
(* output or summary not written yet is like an empty one.                 *)
(***************************************************************************)
EXTENDS Integers, FiniteSets

CONSTANTS Blocks,          \* block numbers a block input can list
          EmptyBlocks,     \* those without a transaction
          Inputs,          \* the sets of blocks a run can be asked for
          ChunkSizes, Workers,    \* values of --chunk-size and --max-workers
          max_retries

ASSUME PanelAssumption ==
  /\ Blocks \subseteq Nat
  /\ IsFiniteSet(Blocks)
  /\ EmptyBlocks \subseteq Blocks
  /\ Inputs \subseteq SUBSET Blocks
  /\ ChunkSizes \subseteq Nat \ {0}
  /\ Workers \subseteq Nat \ {0}
  /\ max_retries \in Nat

VARIABLES
  parts,        \* Parquet parts on disk, by part number
  manifests,    \* manifests on disk, by part number
  output,       \* blocks in the combined panel on disk
  summary,      \* blocks in the summary on disk
  phase,        \* where the process is, "idle" when none runs
  ended,        \* how the last run ended
  args,         \* the arguments of the run
  remaining,    \* requested blocks of the run not in a chunk yet
  next_part,    \* number of the next part
  chunk,        \* the blocks of the current chunk
  fetch         \* of each, its status and the attempts that failed

panel_files == <<parts, manifests, output, summary>>
run  == <<args, remaining, next_part, chunk, fetch>>
panel_vars == <<parts, manifests, output, summary, phase, ended,
          args, remaining, next_part, chunk, fetch>>

-----------------------------------------------------------------------------
(* _load_completed_parts.                                                  *)

\* A manifest without its part is skipped.
paired == DOMAIN manifests \cap DOMAIN parts

completed == UNION {manifests[n] : n \in paired}

overlapping ==
  \E m, n \in paired : m # n /\ manifests[m] \cap manifests[n] # {}

\* Mutant: every run numbers its parts from the start.
first_free_part_zero == 0

\* One past the largest number of a paired part, the others being reused.
first_free_part ==
  IF paired = {} THEN 0
  ELSE 1 + CHOOSE n \in paired : \A m \in paired : m <= n

put(files, n, blocks) ==
  [m \in DOMAIN files \cup {n} |-> IF m = n THEN blocks ELSE files[m]]

no_args == [requested |-> {}, chunk_size |-> 0, max_workers |-> 0]

\* The process ends; what it held in memory is gone.
Exit(how) ==
  /\ phase' = "idle"
  /\ ended' = how
  /\ args' = no_args
  /\ remaining' = {}
  /\ next_part' = 0
  /\ chunk' = {}
  /\ fetch' = <<>>

-----------------------------------------------------------------------------
(* main.                                                                   *)

PanelInit ==
  /\ parts = <<>> /\ manifests = <<>>
  /\ output = {} /\ summary = {}
  /\ phase = "idle" /\ ended = "none"
  /\ args = no_args /\ remaining = {} /\ next_part = 0 /\ chunk = {} /\ fetch = <<>>

\* A run starts: the checkpoints are loaded, and must lie inside the input.
Start(requested, chunk_size, max_workers, finalize_only) ==
  /\ phase = "idle"
  /\ UNCHANGED panel_files
  /\ IF overlapping \/ ~ completed \subseteq requested
     THEN Exit("refused")
     ELSE /\ phase' = IF finalize_only \/ requested \subseteq completed
                      THEN "finalize" ELSE "chunk"
          /\ ended' = "running"
          /\ args' = [requested |-> requested, chunk_size |-> chunk_size,
                      max_workers |-> max_workers]
          /\ remaining' = requested \ completed
          /\ next_part' = first_free_part
          /\ chunk' = {}
          /\ fetch' = <<>>

\* Mutant: the next slice starts on the last block of this one.
TakeChunk_overlapping ==
  /\ phase = "chunk"
  /\ \E blocks \in SUBSET remaining :
       /\ Cardinality(blocks) =
            IF args.chunk_size <= Cardinality(remaining)
            THEN args.chunk_size ELSE Cardinality(remaining)
       /\ chunk' = blocks
       /\ \E last \in blocks : remaining' = remaining \ (blocks \ {last})
       /\ fetch' = [b \in blocks |-> [status |-> "queued", attempts |-> 0]]
  /\ phase' = "fetch"
  /\ UNCHANGED <<panel_files, ended, args, next_part>>

\* The input lists its blocks in any order, so any of the remaining ones can
\* come next.
TakeChunk ==
  /\ phase = "chunk"
  /\ \E blocks \in SUBSET remaining :
       /\ Cardinality(blocks) =
            IF args.chunk_size <= Cardinality(remaining)
            THEN args.chunk_size ELSE Cardinality(remaining)
       /\ chunk' = blocks
       /\ remaining' = remaining \ blocks
       /\ fetch' = [b \in blocks |-> [status |-> "queued", attempts |-> 0]]
  /\ phase' = "fetch"
  /\ UNCHANGED <<panel_files, ended, args, next_part>>

-----------------------------------------------------------------------------
(* fetch_static_data_records_for_blocks.                                   *)

with_status(status) == {b \in chunk : fetch[b].status = status}

attempt_budget == IF max_retries > 1 THEN max_retries ELSE 1

\* Mutant: the pool, too, stops at the first failure.
StartFetch_until_failure(b) ==
  /\ phase = "fetch"
  /\ b \in with_status("queued")
  /\ \A other \in with_status("queued") : b <= other
  /\ Cardinality(with_status("running")) < args.max_workers
  /\ with_status("failed") = {}
  /\ fetch' = [fetch EXCEPT ![b].status = "running"]
  /\ UNCHANGED <<panel_files, phase, ended, args, remaining, next_part, chunk>>

\* A free thread takes the next block, the queue being in block order.  The
\* single worker of the sequential path stops at the first failure.
StartFetch(b) ==
  /\ phase = "fetch"
  /\ b \in with_status("queued")
  /\ \A other \in with_status("queued") : b <= other
  /\ Cardinality(with_status("running")) < args.max_workers
  /\ args.max_workers = 1 => with_status("failed") = {}
  /\ fetch' = [fetch EXCEPT ![b].status = "running"]
  /\ UNCHANGED <<panel_files, phase, ended, args, remaining, next_part, chunk>>

\* rpc_call answers with the block, and it decodes.
FetchSucceeds(b) ==
  /\ phase = "fetch"
  /\ b \in with_status("running")
  /\ fetch' = [fetch EXCEPT ![b].status = "ok"]
  /\ UNCHANGED <<panel_files, phase, ended, args, remaining, next_part, chunk>>

\* No answer, an error, the wrong block, or one that does not decode.
FetchFails(b) ==
  /\ phase = "fetch"
  /\ b \in with_status("running")
  /\ fetch' = [fetch EXCEPT
                 ![b].attempts = @ + 1,
                 ![b].status = IF fetch[b].attempts + 1 < attempt_budget
                               THEN "running" ELSE "failed"]
  /\ UNCHANGED <<panel_files, phase, ended, args, remaining, next_part, chunk>>

\* The batch raises the first failure it meets, but leaving the pool waits for
\* every block that was submitted.
BatchRaises ==
  /\ phase = "fetch"
  /\ with_status("failed") # {}
  /\ args.max_workers > 1 =>
       with_status("queued") = {} /\ with_status("running") = {}
  /\ Exit("failed")
  /\ UNCHANGED panel_files

\* Mutant: the rows of the blocks that did not fail are returned.
BatchReturns_what_it_has ==
  /\ phase = "fetch"
  /\ with_status("ok") \cup with_status("failed") = chunk
  /\ phase' = "write part"
  /\ UNCHANGED <<panel_files, ended, run>>

\* Every block was fetched; their hashes may still turn out duplicated.
BatchReturns ==
  /\ phase = "fetch"
  /\ with_status("ok") = chunk
  /\ UNCHANGED panel_files
  /\ \/ /\ phase' = "write part"
        /\ UNCHANGED <<ended, run>>
     \/ chunk \ EmptyBlocks # {} /\ Exit("failed")

-----------------------------------------------------------------------------
(* _write_checkpoint, the part first and the manifest second.              *)

\* Mutant: the manifest first.
WritePart_second ==
  /\ phase = "write part"
  /\ manifests' = put(manifests, next_part, chunk)
  /\ phase' = "write manifest"
  /\ UNCHANGED <<parts, output, summary, ended, run>>

WritePart ==
  /\ phase = "write part"
  /\ parts' = put(parts, next_part, chunk)
  /\ phase' = "write manifest"
  /\ UNCHANGED <<manifests, output, summary, ended, run>>

WriteManifest ==
  /\ phase = "write manifest"
  /\ manifests' = put(manifests, next_part, chunk)
  /\ phase' = IF remaining = {} THEN "finalize" ELSE "chunk"
  /\ next_part' = next_part + 1
  /\ chunk' = {}
  /\ fetch' = <<>>
  /\ UNCHANGED <<parts, output, summary, ended, args, remaining>>

-----------------------------------------------------------------------------
(* _finalize.                                                              *)

has_rows(n) == ~ parts[n] \subseteq EmptyBlocks

\* ParquetWriter takes the schema of the first part and refuses another.
one_schema == \A m, n \in paired : has_rows(m) <=> has_rows(n)

\* Mutant: an incomplete panel is combined.
WriteOutput_incomplete ==
  /\ phase = "finalize"
  /\ output' = UNION {parts[n] : n \in paired}
  /\ phase' = "write summary"
  /\ UNCHANGED <<parts, manifests, summary, ended, run>>

WriteOutput ==
  /\ phase = "finalize"
  /\ IF ~overlapping /\ completed = args.requested /\ one_schema
     THEN /\ output' = UNION {parts[n] : n \in paired}
          /\ phase' = "write summary"
          /\ UNCHANGED <<parts, manifests, summary, ended, run>>
     ELSE /\ Exit(IF completed = args.requested THEN "not combined"
                  ELSE "incomplete")
          /\ UNCHANGED panel_files

\* pandas.concat refuses an empty list of summaries.
WriteSummary ==
  /\ phase = "write summary"
  /\ IF paired = {}
     THEN /\ Exit("not combined")
          /\ UNCHANGED panel_files
     ELSE /\ summary' = args.requested
          /\ Exit("done")
          /\ UNCHANGED <<parts, manifests, output>>

\* The process is killed.
Crash ==
  /\ phase # "idle"
  /\ Exit("killed")
  /\ UNCHANGED panel_files

-----------------------------------------------------------------------------
Work ==
  \/ TakeChunk
  \/ \E b \in chunk : StartFetch(b) \/ FetchSucceeds(b) \/ FetchFails(b)
  \/ BatchRaises \/ BatchReturns
  \/ WritePart \/ WriteManifest
  \/ WriteOutput \/ WriteSummary

PanelNext ==
  \/ \E requested \in Inputs, chunk_size \in ChunkSizes,
        max_workers \in Workers, finalize_only \in BOOLEAN :
          Start(requested, chunk_size, max_workers, finalize_only)
  \/ Work
  \/ Crash

PanelSpec == PanelInit /\ [][PanelNext]_panel_vars

\* A process that is not killed goes on: an RPC call ends by its timeout at
\* the latest, and everything else is local.
PanelLiveSpec == PanelSpec /\ WF_panel_vars(Work)

-----------------------------------------------------------------------------
(* Properties.                                                             *)

Args == [requested: SUBSET Blocks, chunk_size: Nat, max_workers: Nat]

Phases == {"idle", "chunk", "fetch", "write part", "write manifest",
           "finalize", "write summary"}

TypeOK ==
  /\ DOMAIN parts \subseteq Nat /\ \A n \in DOMAIN parts : parts[n] \subseteq Blocks
  /\ DOMAIN manifests \subseteq Nat
  /\ \A n \in DOMAIN manifests : manifests[n] \subseteq Blocks
  /\ output \subseteq Blocks
  /\ summary \subseteq Blocks
  /\ phase \in Phases
  /\ args \in Args
  /\ remaining \subseteq Blocks
  /\ next_part \in Nat
  /\ chunk \subseteq Blocks

\* Killed between the part and its manifest, or anywhere else, the builder
\* never leaves a manifest that promises other blocks than its part holds,
\* whatever the next run was asked for and however it cut its chunks.
CheckpointsHoldTheirBlocks ==
  \A n \in DOMAIN manifests : n \in DOMAIN parts /\ parts[n] = manifests[n]

\* Two checkpoints never share a block, so loading them is never refused with
\* "Checkpoint blocks occur in multiple parts".
CheckpointsAreDisjoint == ~overlapping

\* "Rerunning the command only queries blocks that have not been
\* checkpointed", across crashes, changed inputs and changed chunk sizes.
OnlyMissingBlocksAreQueried ==
  [][\A b \in chunk : with_status("running")' # with_status("running")
                        => b \notin completed]_panel_vars

\* A checkpoint, once its manifest is there, is final: no later run, crashed
\* or not, replaces its part or lists other blocks in it.
CheckpointsAreFinal ==
  [][\A n \in paired : /\ n \in paired'
                       /\ parts'[n] = parts[n]
                       /\ manifests'[n] = manifests[n]]_panel_vars

\* No partial batch: a block is checkpointed only when every block of its
\* chunk was fetched, in one step with all of them.
WholeBatchesOnly ==
  [][completed' # completed =>
       /\ completed' = completed \cup chunk
       /\ \A b \in chunk : fetch[b].status = "ok"]_panel_vars

\* What is published is never ahead of the checkpoints, nor the summary of
\* the output, though a crash can fall between the two files; and a run that
\* ends well leaves both complete.
PublishedInOrder ==
  /\ summary \subseteq output
  /\ output \subseteq completed
  /\ ended = "done" => output = completed /\ summary = completed

\* A failing endpoint cannot hold a run for ever: the attempts are bounded,
\* and a failed block lets the rest of its chunk finish.
RunsEnd == phase # "idle" ~> phase = "idle"

\* "Validate and combine existing checkpoint parts": a run whose checkpoints
\* cover its input is not refused.
CompletePanelsAreCombined == ended # "not combined"
=============================================================================

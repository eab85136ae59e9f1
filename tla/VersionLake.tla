---------------------------- MODULE VersionLake ----------------------------
(***************************************************************************)
(* Incremental indexing of one document: the version store                 *)
(* (etl/chunker/hash_versioning.py), the two-tier lake                     *)
(* (etl/indexer/live_vector_lake.py), the Qdrant indexer                   *)
(* (etl/indexer/qdrant_hybrid.py) and the batch job that drives them       *)
(* (etl/scheduler/run_etl.py).  A chunk is its hash.  The hash covers      *)
(* source_id, so documents share no chunks and one document is enough.     *)
(*                                                                         *)
(* sync_document is a sequence of writes to three stores; a crash may stop *)
(* it after any of them, and may leave half-written the file being written.*)
(***************************************************************************)
EXTENDS Integers, Sequences

CONSTANTS
  Chunks,       \* chunk hashes
  Versions,     \* the chunk sets the source document can have
  MaxEdits, MaxFaults, MaxOps,   \* bounds on edits, faults, operator actions
  Crashes, StoreErrors, Rollbacks, Recreates  \* what may happen in a run

ASSUME VersionsAssumption == Versions \subseteq SUBSET Chunks
ASSUME BoundsAssumption == MaxEdits \in Nat /\ MaxFaults \in Nat /\ MaxOps \in Nat
ASSUME SwitchesAssumption ==
  {Crashes, StoreErrors, Rollbacks, Recreates} \subseteq BOOLEAN

VARIABLES
  source,    \* the document at its source, as chunked
  known,     \* version WAL: is there a non-empty last_hash?
  walTorn,   \* is the version WAL file half written?
  hot,       \* hashes in hot_dir/<doc>.json
  hotTorn,   \* is that file half written?
  stripped,  \* has run_cleanup removed the texts from it?
  qdrant,    \* hashes of the document's points in Qdrant
  cold,      \* lake history: one [up, del] record per sync that changed something
  pc,        \* where sync_document is
  new, added, deleted,           \* its local variables
  edits, faults, ops,            \* how much of each bound is used
  erred, crashed, rolled, recreated   \* history: what has happened so far

stores  == <<known, walTorn, hot, hotTorn, stripped>>
locals  == <<new, added, deleted>>
budget  == <<edits, faults, ops>>
history == <<erred, crashed, rolled, recreated>>
vars == <<source, stores, qdrant, cold, pc, locals, budget, history>>

Init ==
  /\ source \in Versions
  /\ known = FALSE /\ walTorn = FALSE
  /\ hot = {} /\ hotTorn = FALSE /\ stripped = FALSE
  /\ qdrant = {}
  /\ cold = <<>>
  /\ pc = "idle"
  /\ new = {} /\ added = {} /\ deleted = {}
  /\ edits = 0 /\ faults = 0 /\ ops = 0
  /\ erred = FALSE /\ crashed = FALSE /\ rolled = FALSE /\ recreated = FALSE

\* The document changes at its source.
Edit ==
  /\ edits < MaxEdits
  /\ edits' = edits + 1
  /\ \E v \in Versions \ {source} : source' = v
  /\ UNCHANGED <<stores, qdrant, cold, pc, locals, faults, ops, history>>

-----------------------------------------------------------------------------
(* sync_document. *)

\* Variant: chunks that left the document are not looked for.
DeletedNever(v) == {}

\* Variant: a document that only grew is taken for unchanged.
AddedByPresence(v) == IF ~known THEN v ELSE IF hot \subseteq v THEN {} ELSE v \ hot

\* update_document_chunks: what is to be added and deleted.  A hash that is
\* still there is added again when the stored text is gone (stripped file).
AddedBy(v)   == IF ~known THEN v ELSE IF stripped THEN v ELSE v \ hot
DeletedBy(v) == IF ~known THEN {} ELSE hot \ v

\* The hot file is rewritten only when something changed; the WAL always is.
\* A half-written WAL file stops ChunkVersionStore from loading, a half-written
\* hot file stops the comparison.  run_indexing groups the chunks by document,
\* so one that has none (emptied, filtered, chunking failed) is not synced.
sync_document ==
  /\ pc = "idle"
  /\ source # {}
  /\ ~walTorn
  /\ known => ~hotTorn
  /\ new' = source
  /\ added' = AddedBy(source)
  /\ deleted' = DeletedBy(source)
  /\ pc' = IF ~known \/ added' # {} \/ deleted' # {} THEN "save_hot" ELSE "save_wal"
  /\ UNCHANGED <<source, stores, qdrant, cold, budget, erred, crashed,
                 rolled, recreated>>

\* run_etl --force-reindex: the collection is created anew before the version
\* store is even loaded; the store is not touched, and the sync that follows
\* is an ordinary one.
force_reindex ==
  /\ Recreates
  /\ pc = "idle"
  /\ ops < MaxOps
  /\ ops' = ops + 1
  /\ qdrant' = {}
  /\ recreated' = TRUE
  /\ UNCHANGED <<source, stores, cold, pc, locals, edits, faults, erred, crashed, rolled>>

_save_chunks_to_hot ==
  /\ pc = "save_hot"
  /\ hot' = new /\ hotTorn' = FALSE /\ stripped' = FALSE
  /\ pc' = "save_wal"
  /\ UNCHANGED <<source, known, walTorn, qdrant, cold, locals, budget, history>>

_update_wal ==
  /\ pc = "save_wal"
  /\ known' = (new # {})
  /\ pc' = "index"
  /\ UNCHANGED <<source, walTorn, hot, hotTorn, stripped, qdrant, cold, locals,
                 budget, history>>

index_chunks ==
  /\ pc = "index"
  /\ qdrant' = qdrant \cup added
  /\ pc' = "delete"
  /\ UNCHANGED <<source, stores, cold, locals, budget, history>>

\* Upserts that fail are logged and skipped, and sync_document goes on.
index_chunks_partly ==
  /\ StoreErrors
  /\ pc = "index"
  /\ faults < MaxFaults
  /\ faults' = faults + 1
  /\ \E ok \in SUBSET added : ok # added /\ qdrant' = qdrant \cup ok
  /\ pc' = "delete"
  /\ erred' = TRUE
  /\ UNCHANGED <<source, stores, cold, locals, edits, ops, crashed, rolled, recreated>>

delete_chunks ==
  /\ pc = "delete"
  /\ qdrant' = qdrant \ deleted
  /\ pc' = "cold"
  /\ UNCHANGED <<source, stores, cold, locals, budget, history>>

\* A delete that fails returns 0, which nobody looks at.
delete_chunks_fails ==
  /\ StoreErrors
  /\ pc = "delete"
  /\ deleted # {}
  /\ faults < MaxFaults
  /\ faults' = faults + 1
  /\ pc' = "cold"
  /\ erred' = TRUE
  /\ UNCHANGED <<source, stores, qdrant, cold, locals, edits, ops, crashed, rolled, recreated>>

\* Variant: deletions are not logged.
_append_upserts_only ==
  /\ pc = "cold"
  /\ IF added = {}
     THEN UNCHANGED cold
     ELSE /\ cold' = Append(cold, [up |-> added, del |-> {}])
  /\ pc' = "idle"
  /\ new' = {} /\ added' = {} /\ deleted' = {}
  /\ UNCHANGED <<source, stores, qdrant, budget, erred, crashed,
                 rolled, recreated>>

_append_to_cold_storage ==
  /\ pc = "cold"
  /\ IF added = {} /\ deleted = {}
     THEN UNCHANGED cold
     ELSE /\ cold' = Append(cold, [up |-> added, del |-> deleted])
  /\ pc' = "idle"
  /\ new' = {} /\ added' = {} /\ deleted' = {}
  /\ UNCHANGED <<source, stores, qdrant, budget, erred, crashed,
                 rolled, recreated>>

-----------------------------------------------------------------------------
(* Other operations. *)

\* Every chunk that some record up to t upserted; deletions are not applied.
Snapshot(t) == UNION {cold[i].up : i \in 1..t}

\* rollback_document: reset the version store for the document (the hot file,
\* then the WAL), and sync the snapshot with force=True, which treats every
\* chunk as new and none as gone.
rollback_document(t) ==
  /\ Rollbacks
  /\ pc = "idle"
  /\ ~walTorn
  /\ ops < MaxOps
  /\ ops' = ops + 1
  /\ hot' = {} /\ hotTorn' = FALSE /\ stripped' = FALSE
  /\ new' = Snapshot(t)
  /\ added' = Snapshot(t)
  /\ deleted' = {}
  /\ pc' = "reset_wal"
  /\ rolled' = TRUE
  /\ UNCHANGED <<source, known, walTorn, qdrant, cold, edits, faults, erred,
                 crashed, recreated>>

reset ==
  /\ pc = "reset_wal"
  /\ known' = FALSE
  /\ pc' = "save_hot"
  /\ UNCHANGED <<source, walTorn, hot, hotTorn, stripped, qdrant, cold, locals,
                 budget, history>>

\* run_cleanup strips the texts from the hot file.
run_cleanup ==
  /\ pc = "idle"
  /\ ~hotTorn
  /\ ops < MaxOps
  /\ ops' = ops + 1
  /\ stripped' = TRUE
  /\ UNCHANGED <<source, known, walTorn, hot, hotTorn, qdrant, cold, pc, locals,
                 edits, faults, history>>

\* The job is killed, or an exception (embedder, disk, parquet) ends it; the
\* next run starts from what is on disk.
Crash ==
  /\ Crashes
  /\ pc # "idle"
  /\ faults < MaxFaults
  /\ faults' = faults + 1
  /\ hotTorn' \in (IF pc = "save_hot" THEN BOOLEAN ELSE {hotTorn})
  /\ walTorn' \in (IF pc \in {"save_wal", "reset_wal"} THEN BOOLEAN ELSE {walTorn})
  /\ \/ UNCHANGED cold
     \/ /\ pc = "cold" /\ added # {} /\ deleted # {}   \* between its two appends
        /\ cold' = Append(cold, [up |-> added, del |-> {}])
  /\ pc' = "idle"
  /\ new' = {} /\ added' = {} /\ deleted' = {}
  /\ crashed' = TRUE
  /\ UNCHANGED <<source, known, hot, stripped, qdrant, edits, ops, erred, rolled, recreated>>

Sync ==
  \/ sync_document \/ reset
  \/ _save_chunks_to_hot \/ _update_wal
  \/ index_chunks \/ delete_chunks \/ _append_to_cold_storage

Next ==
  \/ Sync
  \/ Edit \/ force_reindex \/ run_cleanup
  \/ \E t \in 1..Len(cold) : rollback_document(t)
  \/ index_chunks_partly \/ delete_chunks_fails \/ Crash

Spec == Init /\ [][Next]_vars

\* The batch job is scheduled again and again, and a job that runs goes on.
FairSpec == Spec /\ WF_vars(Sync)

-----------------------------------------------------------------------------
(* Properties. *)

TypeOK ==
  /\ source \in Versions
  /\ {known, walTorn, hotTorn, stripped} \subseteq BOOLEAN
  /\ {erred, crashed, rolled, recreated} \subseteq BOOLEAN
  /\ {hot, qdrant, new, added, deleted} \subseteq SUBSET Chunks
  /\ cold \in Seq([up : SUBSET Chunks, del : SUBSET Chunks])
  /\ pc \in {"idle", "reset_wal", "save_hot", "save_wal", "index", "delete", "cold"}
  /\ edits \in 0..MaxEdits /\ faults \in 0..MaxFaults /\ ops \in 0..MaxOps

Undisturbed == ~erred /\ ~crashed /\ ~rolled /\ ~recreated

\* As long as no store call failed, no job died and nobody rolled back or
\* recreated the collection, every finished sync leaves exactly the synced
\* version in Qdrant: the differences against the hot file, taken over any
\* sequence of edits and stripped hot files, and over versions without chunks
\* that are passed over, add up.
IndexMatchesStore == pc = "idle" /\ Undisturbed => qdrant = hot

\* The chunks whose last mention in the lake history is an upsert.
Replay ==
  {c \in Chunks :
     \E i \in 1..Len(cold) :
       /\ c \in cold[i].up
       /\ \A j \in (i + 1)..Len(cold) : c \notin cold[j].del}

\* The lake history alone determines the current version, even when Qdrant
\* refused some of the writes: replaying it gives what the hot file holds.
HistoryReplays == pc = "idle" /\ ~crashed /\ ~rolled => Replay = hot

\* When edits and faults have stopped, repeated syncs bring Qdrant to the
\* current version of the document, if it has chunks, whatever happened before.
EventuallyIndexed == <>[](pc = "idle" /\ source # {} => qdrant = source)

\* The same for a document that met no store error, crash, rollback or
\* recreated collection: edits, also while a sync runs, and stripped hot files
\* are all caught up with.  A document left without chunks is not: its points
\* stay until it has chunks again, and are then replaced (run_indexing).
CatchesUp == <>[](pc = "idle" /\ source # {} /\ Undisturbed => qdrant = source)
=============================================================================

------------------------------- MODULE EtlJob -------------------------------
(***************************************************************************)
(* The batch job, phase by phase (main in etl/scheduler/run_etl.py):       *)
(* extraction, collection, chunking, graph, indexing, cleanup, streaming   *)
(* services, with the flags an operator gives, signals, exceptions that    *)
(* end the job, and crashes.                                               *)
(*                                                                         *)
(* Other modules have the phases in detail: EtlBatch the extractors and    *)
(* the WAL file, Chunker the chunks, VersionLake what a sync does to       *)
(* Qdrant.  Here a document is the version of it that each store holds, 0  *)
(* for none; a chunk is its kind and that version.  Enrichment adds fields *)
(* no store compares, and what indexing and exit checkpoint is read by     *)
(* nobody: both are left out.  Directories are listed by glob, in no       *)
(* particular order, so the loops take the documents in any.               *)
(***************************************************************************)
EXTENDS Naturals, Sequences

CONSTANTS Docs,          \* the documents at the sources
          SourceOf,      \* document -> its source
          Sources,       \* the sources configured, in the order of source_names
          Pages,         \* documents that get heading and document chunks
          Args,          \* command lines: sets of flags
          MaxVersion,    \* bound: versions of a document
          MaxRuns        \* bound: runs of the job

VARIABLES current,    \* version at the source
          recorded,   \* version the extractor's WAL entry stands for
          raw,        \* raw_data
          chunk_file, \* chunks/all_chunks.json: whole, torn or absent, and document -> chunks
          synced,     \* document -> chunks of its last sync_document
          runs, args, pc, shutdown,
          extract_dirs, todo, chunks, extras,   \* locals of main and its loops; todo: documents left
          serving,    \* the streaming service the process has turned into
          passed,     \* history: documents this run has left out, and not for an exception
          excused     \* history: documents left out by a run whose cleanup then removed them

stores == <<current, recorded, raw, chunk_file, synced, excused>>
locals == <<args, extract_dirs, todo, chunks, extras, serving, passed>>
vars == <<stores, locals, runs, pc, shutdown>>

None == [d \in Docs |-> {}]
Absent == [is |-> "absent", chunks |-> None]
Torn == [is |-> "torn", chunks |-> None]

Init ==
    /\ current = [d \in Docs |-> 1] /\ recorded = [d \in Docs |-> 0] /\ raw = [d \in Docs |-> 0]
    /\ chunk_file = Absent /\ synced = None /\ excused = {}
    /\ runs = 0 /\ args = {} /\ pc = "idle" /\ shutdown = FALSE
    /\ extract_dirs = <<>> /\ todo = {} /\ chunks = None /\ extras = None
    /\ serving = "none" /\ passed = {}

OnDisk == {d \in Docs : raw[d] # 0}

\* The end of the process, however it ends: what it holds in memory is gone.
Exit ==
    /\ pc' = "idle" /\ shutdown' = FALSE
    /\ extract_dirs' = <<>> /\ todo' = {} /\ chunks' = None /\ extras' = None
    /\ args' = {} /\ passed' = {} /\ serving' = "none"

-----------------------------------------------------------------------------
\* The arguments of a batch run (Ingest has mode streaming); --reset-wal forgets every record.
main(a) ==
    /\ pc = "idle" /\ runs < MaxRuns
    /\ runs' = runs + 1 /\ args' = a
    /\ recorded' = IF "reset_wal" \in a THEN [d \in Docs |-> 0] ELSE recorded
    /\ pc' = "extract"
    /\ UNCHANGED <<current, raw, chunk_file, synced, excused, shutdown, extract_dirs, todo, chunks, extras,
                   serving, passed>>

(***************************************************************************)
(* The extractors in parallel.  Each has saved and recorded some of the    *)
(* changed documents when it ends (ExtractionAccounted of Extractors says  *)
(* which); all is whether every one of them raised.  Directories are       *)
(* listed in the order of completion, up to the one at which shutdown is   *)
(* seen.                                                                   *)
(***************************************************************************)
extract(order, saved, n, all) ==
    /\ pc = "extract" /\ "skip_extract" \notin args
    /\ saved \subseteq {d \in Docs : recorded[d] # current[d]}
    /\ n < Len(order) => shutdown /\ ~all
    /\ raw' = [d \in Docs |-> IF d \in saved THEN current[d] ELSE raw[d]]
    /\ recorded' = [d \in Docs |-> IF d \in saved THEN current[d] ELSE recorded[d]]
    /\ excused' = excused \ saved
    /\ IF all THEN Exit
       ELSE /\ extract_dirs' = SubSeq(order, 1, n) /\ pc' = "collect"
            /\ UNCHANGED <<shutdown, args, todo, chunks, extras, serving, passed>>
    /\ UNCHANGED <<current, chunk_file, synced, runs>>

skip_extract ==
    /\ pc = "extract" /\ "skip_extract" \in args
    /\ extract_dirs' = Sources /\ pc' = "collect"
    /\ UNCHANGED <<stores, args, todo, chunks, extras, serving, passed, runs, shutdown>>

\* The i-th directory is searched for documents of the i-th source.
collect_all_documents ==
    {d \in OnDisk : \E i \in DOMAIN extract_dirs : extract_dirs[i] = SourceOf[d] /\ Sources[i] = SourceOf[d]}

collect ==
    /\ pc = "collect"
    /\ todo' = collect_all_documents
    /\ passed' = passed \cup (OnDisk \ collect_all_documents)
    /\ pc' = IF "skip_chunk" \in args THEN "load" ELSE "chunk"
    /\ extract_dirs' = <<>>
    /\ UNCHANGED <<stores, args, chunks, extras, serving, runs, shutdown>>

-----------------------------------------------------------------------------
(* run_chunking *)

\* One document: it fails and is logged, or the quality filter leaves its chunks or none.
\* A page may also get heading chunks and a document chunk, each of which may fail by itself.
chunk_document(d, outcome, extra) ==
    /\ pc = "chunk" /\ d \in todo /\ ~shutdown
    /\ extra => d \in Pages /\ outcome # "fails"
    /\ chunks' = [chunks EXCEPT ![d] = IF outcome = "kept" THEN {<<"content", raw[d]>>} ELSE {}]
    /\ extras' = [extras EXCEPT ![d] = IF extra THEN {<<"page", raw[d]>>} ELSE {}]
    /\ passed' = IF outcome = "kept" THEN passed ELSE passed \cup {d}
    /\ todo' = todo \ {d}
    /\ UNCHANGED <<stores, args, extract_dirs, serving, runs, pc, shutdown>>

\* all_chunks.json holds the content chunks only; the list that goes on has all of them.
save_chunks ==
    /\ pc = "chunk" /\ (todo = {} \/ shutdown)
    /\ chunk_file' = [is |-> "whole", chunks |-> chunks]
    /\ chunks' = [d \in Docs |-> chunks[d] \cup extras[d]]
    /\ passed' = passed \cup todo
    /\ extras' = None /\ todo' = {} /\ pc' = "graph"
    /\ UNCHANGED <<current, recorded, raw, synced, excused, args, extract_dirs, serving, runs, shutdown>>

\* --skip-chunk: the chunks of an earlier run; none, or a file that does not parse, ends the job.
load_chunks ==
    /\ pc = "load"
    /\ IF chunk_file.is # "whole" THEN Exit
       ELSE /\ chunks' = chunk_file.chunks /\ todo' = {} /\ pc' = "graph"
            /\ passed' = passed \cup {d \in OnDisk : <<"content", raw[d]>> \notin chunk_file.chunks[d]}
            /\ UNCHANGED <<args, extract_dirs, extras, serving, shutdown>>
    /\ UNCHANGED <<stores, runs>>

\* Neo4j is connected to and loaded without a handler: an error ends the job.
run_graph_extraction(raises) ==
    /\ pc = "graph"
    /\ IF raises THEN "skip_graph" \notin args /\ Exit
       ELSE /\ pc' = IF "skip_index" \in args THEN "cleanup" ELSE "open"
            /\ passed' = IF "skip_index" \in args THEN Docs ELSE passed
            /\ UNCHANGED <<args, extract_dirs, todo, chunks, extras, serving, shutdown>>
    /\ UNCHANGED <<stores, runs>>

-----------------------------------------------------------------------------
(* Indexing: only documents that have chunks are synced. *)

create_collection(raises) ==
    /\ pc = "open"
    /\ IF raises THEN Exit
       ELSE /\ todo' = {d \in Docs : chunks[d] # {}} /\ pc' = "index"
            /\ UNCHANGED <<args, extract_dirs, chunks, extras, serving, passed, shutdown>>
    /\ UNCHANGED <<stores, runs>>

\* sync_document of the lake: the version store takes the document's new chunks.
sync_document(d) == synced' = [synced EXCEPT ![d] = chunks[d]]

\* Variant: a document whose sync raises is logged and passed over.
run_indexing_tolerant(d, outcome) ==
    /\ pc = "index" /\ d \in todo /\ ~shutdown
    /\ IF outcome = "raises" THEN UNCHANGED synced ELSE sync_document(d)
    /\ todo' = todo \ {d}
    /\ UNCHANGED <<current, recorded, raw, chunk_file, excused, args, extract_dirs, chunks, extras, serving,
                   passed, runs, pc, shutdown>>

\* An exception, before or after the version store is written, leaves the loop and main.
run_indexing(d, outcome) ==
    /\ pc = "index" /\ d \in todo /\ ~shutdown
    /\ IF outcome = "raises" THEN UNCHANGED synced ELSE sync_document(d)
    /\ IF outcome \in {"raises", "raises_late"} THEN Exit
       ELSE todo' = todo \ {d} /\ UNCHANGED <<args, extract_dirs, chunks, extras, serving, passed, pc, shutdown>>
    /\ UNCHANGED <<current, recorded, raw, chunk_file, excused, runs>>

\* The loop is over or left at a signal; last_run is recorded in both cases.
indexing_done ==
    /\ pc = "index" /\ (todo = {} \/ shutdown)
    /\ passed' = passed \cup todo
    /\ todo' = {} /\ chunks' = None /\ pc' = "cleanup"
    /\ UNCHANGED <<stores, args, extract_dirs, extras, serving, runs, shutdown>>

Cleaning == "cleanup" \in args /\ "dry_run" \notin args
RemoveRaw(gone) ==
    /\ raw' = [d \in Docs |-> IF d \in gone THEN 0 ELSE raw[d]]
    /\ excused' = excused \cup (passed \cap gone)

\* With --cleanup-after-index raw data and chunks are removed, with --dry-run nothing.
run_cleanup ==
    /\ pc = "cleanup"
    /\ IF Cleaning THEN RemoveRaw(OnDisk) /\ chunk_file' = Absent ELSE UNCHANGED <<raw, chunk_file, excused>>
    /\ pc' = "serve"
    /\ UNCHANGED <<current, recorded, synced, args, extract_dirs, todo, chunks, extras, serving, passed, runs, shutdown>>

\* --webhook-only and --consumer-only turn the process into a service; --streaming alone builds
\* the webhook application and a consumer and starts neither.
start_streaming ==
    /\ pc = "serve" /\ serving = "none"
    /\ IF "webhook_only" \in args \/ "consumer_only" \in args
       THEN /\ serving' = IF "webhook_only" \in args THEN "webhook" ELSE "consumer"
            /\ UNCHANGED <<args, extract_dirs, todo, chunks, extras, passed, pc, shutdown>>
       ELSE Exit
    /\ UNCHANGED <<stores, runs>>

-----------------------------------------------------------------------------
Edit(d) ==
    /\ current[d] < MaxVersion
    /\ current' = [current EXCEPT ![d] = @ + 1]
    /\ UNCHANGED <<recorded, raw, chunk_file, synced, excused, locals, runs, pc, shutdown>>

\* _signal_handler: the first signal sets the event.
Signal ==
    /\ pc # "idle" /\ ~shutdown
    /\ shutdown' = TRUE
    /\ UNCHANGED <<stores, locals, runs, pc>>

\* A kill, or the second signal: all_chunks.json may be cut off, a cleanup may be half done.
Crash ==
    /\ pc # "idle"
    /\ chunk_file' \in IF pc = "chunk" /\ (todo = {} \/ shutdown) THEN {chunk_file, Torn} ELSE {chunk_file}
    /\ \E gone \in IF pc = "cleanup" /\ Cleaning THEN SUBSET OnDisk ELSE {{}} : RemoveRaw(gone)
    /\ Exit
    /\ UNCHANGED <<current, recorded, synced, runs>>

Orders == {o \in [DOMAIN Sources -> {Sources[i] : i \in DOMAIN Sources}] : \A i, j \in DOMAIN o : o[i] = o[j] => i = j}

Next ==
    \/ \E a \in Args : main(a)
    \/ \E o \in Orders, saved \in SUBSET Docs, n \in 0..Len(Sources), b \in BOOLEAN : extract(o, saved, n, b)
    \/ skip_extract \/ collect
    \/ \E d \in Docs, r \in {"kept", "filtered", "fails"}, x \in BOOLEAN : chunk_document(d, r, x)
    \/ save_chunks \/ load_chunks
    \/ \E b \in BOOLEAN : run_graph_extraction(b) \/ create_collection(b)
    \/ \E d \in Docs, r \in {"ok", "raises", "raises_late"} : run_indexing(d, r)
    \/ indexing_done \/ run_cleanup \/ start_streaming
    \/ \E d \in Docs : Edit(d)
    \/ Signal \/ Crash

Spec == Init /\ [][Next]_vars

-----------------------------------------------------------------------------
(***************************************************************************)
(* What the extractor's WAL records, no later run fetches again until it   *)
(* changes: so it is still in raw_data, or in the version store, whatever  *)
(* exceptions, crashes and cleanups came between.  Left out by name are    *)
(* documents that a run passed over and whose raw data it then cleaned up: *)
(* not collected, failed or filtered in chunking, cut off by a signal, or  *)
(* skipped by a flag (run_etl.main, run_indexing, run_cleanup).            *)
(***************************************************************************)
RecordedIsKept ==
    \A d \in Docs : \/ recorded[d] = 0 \/ raw[d] # 0
                 \/ <<"content", recorded[d]>> \in synced[d]
                 \/ d \in excused
=============================================================================

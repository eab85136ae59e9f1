------------------------------ MODULE Ingest ------------------------------
(***************************************************************************)
(* The streaming-first ETL: etl/scheduler/streaming_pipeline.py with the   *)
(* stages it drives, indexer/chunk_enricher.py, indexer/chunk_quality.py,  *)
(* indexer/remote_embedder.py, indexer/qdrant_hybrid.py and the            *)
(* graph_builder modules.                                                  *)
(*                                                                         *)
(* One document is in the pipeline at a time; its embedding calls run      *)
(* concurrently under a semaphore and are retried one by one.  What the    *)
(* chunker makes of a document (module Chunker) is a set of chunks here,   *)
(* each with the identity of its text.  Scores are in hundredths.          *)
(***************************************************************************)
EXTENDS Integers, Sequences, FiniteSets

CONSTANTS Docs,               \* what _extract_documents_generator lists, in order: a sequence
          ChunksOf,           \* document -> sequence of [hash, boilerplate]
          Page,               \* documents with source_type confluence and content_type html
          THRESHOLD,          \* quality_filter.relevance_threshold
          MAX_CHUNKS_PER_DOC,
          MAX_CONCURRENT,     \* streaming.max_concurrent_api_calls
          MAX_ATTEMPTS,       \* RetryConfig.max_attempts
          MaxRuns             \* bound: times the pipeline is run

VARIABLES run,       \* number of the run, 0 before the first
          at,        \* position in Docs of the document in the pipeline
          phase,     \* stage the document is in
          work,      \* its chunks, in order
          errors,    \* StreamingResult.errors: positions of the chunks named
          index,     \* Qdrant: point id (from the chunk's hash) -> document, or NoDoc
          graph,     \* Neo4j: entities and relations by document
          cache,     \* entity cache on disk: what was extracted from a document before
          progress,  \* PipelineProgress
          wal,       \* last_run of "streaming_index" was written
          fate       \* per document: what became of its chunks in the last run that had it

vars == <<run, at, phase, work, errors, index, graph, cache, progress, wal, fate>>

NoDoc == "none"
Status == {"new", "boilerplate", "irrelevant", "capped", "kept", "calling", "embedded",
           "embed_failed", "indexed", "index_failed"}
Phases == {"idle", "chunk", "enrich", "filter", "extras", "graph", "embed", "index", "finish"}
Source(meta) == meta \in {"none", "slm", "mixed", "heuristic"}

TypeOK ==
    /\ run \in 0..MaxRuns /\ at \in 1..(Len(Docs) + 1) /\ phase \in Phases
    /\ \A i \in DOMAIN work : /\ work[i].status \in Status /\ Source(work[i].meta)
                              /\ work[i].tries \in 0..MAX_ATTEMPTS
    /\ errors \subseteq DOMAIN work
    /\ \A h \in DOMAIN index : index[h] \in DOMAIN ChunksOf \cup {NoDoc}
    /\ progress.processed <= Len(Docs)

\* StreamingPipeline.__init__
Init ==
    /\ run = 0 /\ at = 1 /\ phase = "idle" /\ work = <<>> /\ errors = {}
    /\ index = [h \in {} |-> NoDoc]
    /\ graph = [entities |-> {}, relations |-> {}] /\ cache = [d \in DOMAIN ChunksOf |-> "none"]
    /\ progress = [total |-> 0, processed |-> 0, chunks |-> 0, indexed |-> 0, errors |-> 0]
    /\ wal = FALSE
    /\ fate = [d \in DOMAIN ChunksOf |-> <<>>]

-----------------------------------------------------------------------------
doc == Docs[at]
Count(s) == Cardinality({i \in DOMAIN work : work[i].status = s})
Kept(i) == work[i].status \notin {"boilerplate", "irrelevant", "capped"}
NewChunk(c, src) == [hash |-> <<src, c.hash>>, boilerplate |-> c.boilerplate, src |-> src,
                     status |-> "new", meta |-> "none", tries |-> 0, outage |-> FALSE]
Extra(src) == [NewChunk([hash |-> doc, boilerplate |-> FALSE], src) EXCEPT !.status = "kept"]

\* run: components, create_collection(recreate=False), the list of documents.
start_run ==
    /\ phase = "idle" /\ run < MaxRuns
    /\ run' = run + 1 /\ at' = 1
    /\ phase' = IF Docs = <<>> THEN "idle" ELSE "chunk"
    /\ progress' = [progress EXCEPT !.total = Len(Docs), !.processed = 0]
    /\ UNCHANGED <<work, errors, index, graph, cache, wal, fate>>

\* The loop of run over the documents; the shutdown event is looked at between two of them.
NextDoc(shutdown) ==
    /\ at' = at + 1
    /\ phase' = IF shutdown \/ at = Len(Docs) THEN "idle" ELSE "chunk"
    /\ work' = <<>> /\ errors' = {}

\* process_document: chunking.  A failure ends the document, uncounted.
chunk_document(fails, shutdown) ==
    /\ phase = "chunk"
    /\ IF fails
       THEN NextDoc(shutdown) /\ fate' = [fate EXCEPT ![doc] = <<>>]
       ELSE /\ work' = [i \in DOMAIN ChunksOf[doc] |-> NewChunk(ChunksOf[doc][i], "chunk")]
            /\ phase' = "enrich" /\ UNCHANGED <<at, errors, fate>>
    /\ UNCHANGED <<run, index, graph, cache, progress, wal>>

(***************************************************************************)
(* ChunkEnricher.enrich: the model's answer, its missing fields filled by  *)
(* the heuristics; the heuristics alone when the call or its JSON fails.   *)
(***************************************************************************)
_call_slm == {"answer", "partial", "error"}
_validate_result(r) == IF r = "answer" THEN "slm" ELSE "mixed"
_heuristic_fallback == "heuristic"
enrich(r) == IF r = "error" THEN _heuristic_fallback ELSE _validate_result(r)

\* _enrich_chunks gathers the calls; one that raises leaves its chunk as it was.
_enrich_chunks(answers) ==
    /\ phase = "enrich"
    /\ work' = [i \in DOMAIN work |-> [work[i] EXCEPT !.meta = enrich(answers[i])]]
    /\ phase' = "filter"
    /\ UNCHANGED <<run, at, errors, index, graph, cache, progress, wal, fate>>

(***************************************************************************)
(* ChunkQualityFilter.  The combined score is 0.6 of the title's and 0.4   *)
(* of the heading's, and no chunk has a "heading" or "section" field, so   *)
(* that the second is 0.  A reranker that fails answers 0.5 for all.       *)
(***************************************************************************)
score_chunks(s, down) == IF down THEN 50 ELSE s
combined_score(s) == (60 * s + 40 * 0) \div 100
detect_boilerplate(c) == c.boilerplate

\* Variant: the score has to exceed the threshold.
verdict_strict(c, i, s, down) ==
    CASE i > MAX_CHUNKS_PER_DOC -> "capped"
      [] i <= MAX_CHUNKS_PER_DOC /\ detect_boilerplate(c) -> "boilerplate"
      [] OTHER -> IF combined_score(score_chunks(s, down)) > THRESHOLD THEN "kept" ELSE "irrelevant"

verdict(c, i, s, down) ==
    CASE i > MAX_CHUNKS_PER_DOC -> "capped"
      [] i <= MAX_CHUNKS_PER_DOC /\ detect_boilerplate(c) -> "boilerplate"
      [] OTHER -> IF combined_score(score_chunks(s, down)) >= THRESHOLD THEN "kept" ELSE "irrelevant"

\* filter, with the score the reranker gives each chunk, or an outage of it.
filter(scores, down) ==
    /\ phase = "filter"
    /\ work' = [i \in DOMAIN work |-> [work[i] EXCEPT !.outage = down,
                                       !.status = verdict(work[i], i, scores[i], down)]]
    /\ phase' = "extras"
    /\ UNCHANGED <<run, at, errors, index, graph, cache, progress, wal, fate>>

\* A Confluence page also gets a chunk per heading and one for the document; each of the
\* two steps may fail by itself.  They do not pass the filter.
add_extras(h, s) ==
    /\ phase = "extras"
    /\ work' = IF doc \notin Page THEN work
               ELSE work \o (IF h THEN <<Extra("heading")>> ELSE <<>>)
                         \o (IF s THEN <<Extra("summary")>> ELSE <<>>)
    /\ phase' = "graph"
    /\ UNCHANGED <<run, at, errors, index, graph, cache, progress, wal, fate>>

-----------------------------------------------------------------------------
(* The knowledge graph.                                                    *)

\* extract_from_chunk: what the cache holds for the text and the document, an empty answer
\* included, or the entities and the relations among them that the models find now.
extract_from_chunk(found) == IF cache[doc] # "none" THEN cache[doc] ELSE found

\* load_entities (MERGE by id) and load_relations (MATCH both ends, then MERGE).
load_entities(g) == [g EXCEPT !.entities = @ \cup {doc}]
load_relations(g) == IF doc \in g.entities THEN [g EXCEPT !.relations = @ \cup {doc}] ELSE g

\* _build_graph: "connect" gives up after its retries, "entities" and "relations" name the
\* load that raises; the exception is logged and the document goes on.
_build_graph(fails, found) ==
    LET x == extract_from_chunk(found) IN
    /\ phase = "graph"
    /\ IF fails = "connect" \/ ~\E i \in DOMAIN work : Kept(i)
       THEN UNCHANGED <<graph, cache>>
       ELSE /\ cache' = [cache EXCEPT ![doc] = x]
            /\ graph' = IF x = "empty" \/ fails = "entities" THEN graph
                        ELSE IF fails = "relations" THEN load_entities(graph)
                        ELSE load_relations(load_entities(graph))
    /\ phase' = "embed"
    /\ UNCHANGED <<run, at, work, errors, index, progress, wal, fate>>

-----------------------------------------------------------------------------
(* Embedding: _process_chunk under the semaphore.                          *)

Calling == Count("calling")

\* A task that gets the semaphore calls RemoteEmbedder.encode.
start_embed(i) ==
    /\ phase = "embed" /\ work[i].status \in {"kept", "new"} /\ Calling < MAX_CONCURRENT
    /\ work' = [work EXCEPT ![i].status = "calling"]
    /\ UNCHANGED <<run, at, phase, errors, index, graph, cache, progress, wal, fate>>

\* _call_api_with_retry: any exception is retried, the last attempt's is raised.
_call_api_with_retry(i, ok) ==
    /\ phase = "embed" /\ work[i].status = "calling"
    /\ work' = IF ok THEN [work EXCEPT ![i].status = "embedded"]
               ELSE IF work[i].tries < MAX_ATTEMPTS - 1 THEN [work EXCEPT ![i].tries = @ + 1]
               ELSE [work EXCEPT ![i].status = "embed_failed"]
    /\ UNCHANGED <<run, at, phase, errors, index, graph, cache, progress, wal, fate>>

\* asyncio.gather has all the answers: a failed one is reported.
gather_embeddings ==
    /\ phase = "embed"
    /\ \A i \in DOMAIN work : Kept(i) => work[i].status \in {"embedded", "embed_failed"}
    /\ errors' = errors \cup {i \in DOMAIN work : work[i].status = "embed_failed"}
    /\ phase' = "index"
    /\ UNCHANGED <<run, at, work, index, graph, cache, progress, wal, fate>>

\* _chunk_to_point: no hash or no text, no point; the vector is computed once more, and the
\* id is derived from the hash alone.
_chunk_to_point(i) == work[i].hash

\* _index_chunk_sync for the next chunk with a vector: a failure is reported.
_index_chunk_sync(i, ok) ==
    /\ phase = "index" /\ work[i].status = "embedded"
    /\ \A j \in DOMAIN work : j < i => work[j].status # "embedded"
    /\ work' = [work EXCEPT ![i].status = IF ok THEN "indexed" ELSE "index_failed"]
    /\ index' = IF ok THEN [h \in DOMAIN index \cup {_chunk_to_point(i)} |->
                            IF h = _chunk_to_point(i) THEN doc ELSE index[h]] ELSE index
    /\ errors' = IF ok THEN errors ELSE errors \cup {i}
    /\ UNCHANGED <<run, at, phase, graph, cache, progress, wal, fate>>

\* The end of process_document.  chunks_count was taken before the extra chunks were added.
finish_document(shutdown) ==
    LET indexed == Count("indexed")
        counted == Cardinality({i \in DOMAIN work : Kept(i) /\ work[i].src = "chunk"}) IN
    /\ phase = "index" /\ Count("embedded") = 0
    /\ wal' = (wal \/ indexed > 0)
    /\ progress' = [progress EXCEPT !.processed = @ + 1, !.chunks = @ + counted,
                                    !.indexed = @ + indexed, !.errors = @ + IF errors # {} THEN 1 ELSE 0]
    /\ fate' = [fate EXCEPT ![doc] = [i \in DOMAIN work |->
                    [hash |-> work[i].hash, status |-> work[i].status, outage |-> work[i].outage,
                     named |-> i \in errors]]]
    /\ NextDoc(shutdown)
    /\ UNCHANGED <<run, index, graph, cache>>

\* The process is killed: the next run starts over with every document, on the same stores.
Crash ==
    /\ phase # "idle"
    /\ phase' = "idle" /\ at' = 1 /\ work' = <<>> /\ errors' = {}
    /\ progress' = [total |-> 0, processed |-> 0, chunks |-> 0, indexed |-> 0, errors |-> 0]
    /\ UNCHANGED <<run, index, graph, cache, wal, fate>>

Scores == {40, 60}
Next ==
    \/ start_run
    \/ \E f, s \in BOOLEAN : chunk_document(f, s)
    \/ \E r \in _call_slm : _enrich_chunks([i \in DOMAIN work |-> r])
    \/ \E sc \in [DOMAIN work -> Scores], down \in BOOLEAN : filter(sc, down)
    \/ \E h, s \in BOOLEAN : add_extras(h, s)
    \/ \E f \in {"none", "connect", "entities", "relations"},
          e \in {"empty", "found"} : _build_graph(f, e)
    \/ \E i \in DOMAIN work, ok \in BOOLEAN :
          start_embed(i) \/ _call_api_with_retry(i, ok) \/ _index_chunk_sync(i, ok)
    \/ gather_embeddings
    \/ \E s \in BOOLEAN : finish_document(s)
    \/ Crash

Spec == Init /\ [][Next]_vars

-----------------------------------------------------------------------------
(***************************************************************************)
(* Nothing is lost without a word: of a document that went through the     *)
(* pipeline every chunk is in the index, or named in the result's errors,  *)
(* or was left out for being boilerplate, past the cap, or judged          *)
(* irrelevant by a reranker that was up - never by the neutral score an    *)
(* outage gives, which meets the default threshold exactly                 *)
(* (StreamingPipeline.process_document, ChunkQualityFilter.filter).        *)
(***************************************************************************)
ChunksAccounted ==
    \A d \in DOMAIN fate : \A i \in DOMAIN fate[d] :
        LET c == fate[d][i] IN
        \/ c.status = "indexed" /\ c.hash \in DOMAIN index
        \/ c.status \in {"embed_failed", "index_failed"} /\ c.named
        \/ c.status \in {"boilerplate", "capped"}
        \/ c.status = "irrelevant" /\ ~c.outage
=============================================================================

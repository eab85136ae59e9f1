---------------------------- MODULE MC_Components ----------------------------
(***************************************************************************)
(* The components that share no state with each other: each behaviour is   *)
(* one of them, chosen by focus.  Those of Components have the constants   *)
(* of the configuration, the others the small instance given here; the     *)
(* variables of the components out of focus are Off.                       *)
(***************************************************************************)
EXTENDS Components, TLC

VARIABLES doc, lib, stage, chunks,
          run, at, phase, work, errors, index, graph, cache, progress, wal, fate,
          svc, rcache, q, asked,
          todo, docs, left, pdf,
          instance, healthy, detected, call, returned,
          nli_loaded, scores, posting, alerts

Sym == Permutations(Actors)

-----------------------------------------------------------------------------
(* Instances *)

Shape(b, x, f, p, o, n) ==
    [bearer |-> b, xauth |-> x, host |-> "h", forwarded |-> f, path |-> p, op |-> o, file |-> n,
     type |-> "pdf", size |-> 1]
SentShapes ==
    {Shape("e", "none", <<>>, "v1", "upload", 0), Shape("e", "none", <<>>, "v1", "delete", 1),
     Shape("none", "e", <<"a", "p">>, "v1", "download", 1), Shape("none", "none", <<"b", "p">>, "public", "plain", 0)}
CredentialRoles == [c \in {"e"} |-> {"expert"}]

OneCollection == [n \in {"Docs", "docs"} |-> "kb_docs"]

Cell(n, t) == [size |-> n, tag |-> t]
ChunkerOf == INSTANCE Chunker WITH
    max_tokens <- 20, min_chunk_tokens <- 8, overlap_tokens <- 2, MaxElements <- 2, MaxSections <- 2,
    Elements <- {Cell(15, "bare"), Cell(24, "nested"), Cell(59, "plain")}, Access <- {"restricted"}

TwoDocs == <<"d1", "d2">>
SameHash == [hash |-> "a", boilerplate |-> FALSE]
ChunksOfDocs == [d \in {"d1", "d2"} |-> IF d = "d1" THEN <<SameHash>>
                                        ELSE <<SameHash, [hash |-> "b", boilerplate |-> TRUE]>>]
IngestOf == INSTANCE Ingest WITH
    Docs <- TwoDocs, ChunksOf <- ChunksOfDocs, Page <- {"d1"}, THRESHOLD <- 30, MAX_CHUNKS_PER_DOC <- 2,
    MAX_CONCURRENT <- 2, MAX_ATTEMPTS <- 2, MaxRuns <- 1

H(i, s) == [id |-> i, score |-> s]
IndexRankings ==
    {<<>>, <<H(1, 45), H(2, 39), H(4, 33)>>, <<H(3, 80), H(1, 26)>>,
     <<H(2, 75), H(3, 40), H(4, 33), H(1, 30)>>}
Texts == [i \in 1..4 |-> IF i = 4 THEN 1 ELSE i]
Levels == [i \in 1..4 |-> IF i = 3 THEN "confidential" ELSE "public"]
GroupsOf == [i \in 1..4 |-> IF i = 3 THEN {"g"} ELSE {}]
Sizes == [i \in 1..4 |-> 2 * i]
RetrievalOf == INSTANCE Retrieval WITH
    Rankings <- IndexRankings, TextOf <- Texts, Level <- Levels, Groups <- GroupsOf,
    AllowedLevels <- {"public", "confidential"}, UserGroups <- {}, SizeOf <- Sizes, Stages <- <<2, 3, 4>>,
    MAX_CHUNKS_AFTER_RERANK <- 3, PRUNE_OVER <- 2, BUDGET <- 5, MIN_REMAINDER <- 1,
    RerankScores <- {20, 90}, MaxQuestions <- 2

Listed == <<"a", "b", "c">>

Heading(t) == [head |-> TRUE, title |-> t]
Line(t) == [head |-> FALSE, title |-> t]
File(name, e, ls, ts, w, g) == name :> [ext |-> e, lines |-> ls, talks |-> ts, wrapped |-> w, generic |-> g]
Repeating == <<Line("x"), Heading("a"), Line("a"), Heading("b"), Heading("a"), Line("y")>>
Distinct == <<Line("x"), Heading("a"), Heading("b"), Line("y"), Heading("c"), Line("z")>>
Talks == << <<"user", "user", "assistant", "system", "assistant">>, <<>>, <<"assistant", "user">> >>
OtherTalks == << <<"user", "system", "assistant", "user", "assistant">>, <<>>, <<"user">> >>
FoundFiles ==
       File("s", "rst", Distinct, <<>>, FALSE, FALSE) @@ File("k", "adoc", Distinct, <<>>, FALSE, FALSE)
    @@ File("z", "txt", Repeating, <<>>, FALSE, FALSE) @@ File("m", "md", Repeating, <<>>, FALSE, FALSE)
    @@ File("r", "rst", Repeating, <<>>, FALSE, FALSE) @@ File("d", "adoc", Repeating, <<>>, FALSE, FALSE)
    @@ File("t", "txt", Repeating, <<>>, FALSE, FALSE) @@ File("q", "pdf", Repeating, <<>>, FALSE, FALSE)
    @@ File("p", "pdf", <<Line("x"), Line("a")>>, <<>>, FALSE, FALSE)
    @@ File("e", "epub", Repeating, <<>>, FALSE, FALSE) @@ File("w", "epub", Repeating, <<>>, TRUE, FALSE)
    @@ File("o", "docx", Repeating, <<>>, FALSE, FALSE)
    @@ File("c", "json", <<>>, Talks, FALSE, FALSE) @@ File("g", "json", <<>>, OtherTalks, FALSE, TRUE)
FilesOf == INSTANCE FileExtractors WITH
    Files <- FoundFiles, Excluded <- {"z"}, Styled <- {"c"}, Primary <- "tesseract", MaxImages <- 2

ThreeTexts == {<<"p", "q", "r">>}
ThreePairs == {<< <<"x", "p">>, <<"y", "p">>, <<"x", "q">> >>}
EmbeddingOf == INSTANCE Embedding WITH
    Inputs <- ThreeTexts, Pairs <- ThreePairs, Longer <- {"q"}, BATCH <- 2, ATTEMPTS <- 2, SEMAPHORE <- 2,
    EMBEDDER_ENDPOINT <- TRUE, RERANKER_ENDPOINT <- TRUE, EMBEDDER_FALLBACK_LOCAL <- TRUE,
    RERANKER_FALLBACK_LOCAL <- FALSE, LOCAL_MODELS <- TRUE, MaxCalls <- 2

Answer(contexts, lengths, claims, supported, labels, sentences, matched) ==
    [context : contexts, answer : lengths, hedged : BOOLEAN, claims : claims, supported : supported,
     entailed : {labels[1]}, contradicted : {labels[2]}, sentences : sentences, matched : matched]
Graded == Answer({0, 10, 100}, {10, 120}, {0}, {0}, <<0, 0>>, {0}, {0})
          \cup UNION {Answer({100}, {10}, {1}, {0, 1}, l, {0}, {0}) : l \in {<<1, 0>>, <<0, 1>>}}
          \cup UNION {Answer({10, 100}, {120}, {9}, {0, 4, 5}, l, {3}, {1, 2}) :
                      l \in {<<0, 3>>, <<5, 2>>, <<5, 3>>}}
ChunkRelevances == UNION {[1..n -> {20000, 50000, 80000}] : n \in 0..2}
Labelled == UNION {[1..n -> [score : {30000, 55000, 55560, 56000, 90000}, correct : BOOLEAN]] : n \in 0..3}
ScoringOf == INSTANCE Scoring WITH
    Answers <- Graded, ChunkScores <- ChunkRelevances, Cases <- Labelled, GROUNDING <- TRUE,
    ALERT_CONFIDENCE_THRESHOLD <- 40000, ALERT_ENDPOINT <- TRUE, CONFIDENCE_THRESHOLD <- 60000, MaxResults <- 2,
    results <- scores

SourceOfDocs == [d \in {"d1", "d2"} |-> IF d = "d1" THEN "confluence" ELSE "jira"]
CommandLines ==
    {{"webhook_only"}, {"cleanup"}, {"skip_extract", "skip_index", "cleanup"},
     {"skip_chunk", "skip_graph", "cleanup", "dry_run", "reset_wal"}}
TwoSources == <<"confluence", "jira">>

CallsOver == [b \in {"file", "redis", "proxy"} |-> IF b = "file" THEN 3 ELSE 2]

-----------------------------------------------------------------------------
chunkerVars == <<doc, lib, stage, chunks>>
ingestVars == <<run, at, phase, work, errors, index, graph, cache, progress, wal, fate>>
retrievalVars == <<svc, rcache, q, asked>>
filesVars == <<todo, docs, left, pdf>>
embeddingVars == <<instance, healthy, detected, call, returned>>
scoringVars == <<nli_loaded, scores, posting, alerts>>
MCvars == <<vars, chunkerVars, ingestVars, retrievalVars, filesVars, embeddingVars, scoringVars>>

MCInit ==
    /\ focus \in {"sessions", "keys", "gateway", "knowledge", "feedback", "chunker", "ingest", "retrieval", "migrations", "letters", "extractors", "files", "embedding", "scoring", "job", "wal"}
    /\ Init
    /\ IF focus = "chunker" THEN ChunkerOf!Init
       ELSE doc = Off /\ lib = Off /\ stage = Off /\ chunks = Off
    /\ IF focus = "ingest" THEN IngestOf!Init
       ELSE run = Off /\ at = Off /\ phase = Off /\ work = Off /\ errors = Off /\ index = Off /\ graph = Off /\ cache = Off /\ progress = Off /\ wal = Off /\ fate = Off
    /\ IF focus = "retrieval" THEN RetrievalOf!Init
       ELSE svc = Off /\ rcache = Off /\ q = Off /\ asked = Off
    /\ IF focus = "files" THEN FilesOf!Init
       ELSE todo = Off /\ docs = Off /\ left = Off /\ pdf = Off
    /\ IF focus = "embedding" THEN EmbeddingOf!Init
       ELSE instance = Off /\ healthy = Off /\ detected = Off /\ call = Off /\ returned = Off
    /\ IF focus = "scoring" THEN ScoringOf!Init
       ELSE nli_loaded = Off /\ scores = Off /\ posting = Off /\ alerts = Off

MCNext ==
    /\ Next
    /\ IF focus = "chunker" THEN ChunkerOf!Next ELSE UNCHANGED chunkerVars
    /\ IF focus = "ingest" THEN IngestOf!Next ELSE UNCHANGED ingestVars
    /\ IF focus = "retrieval" THEN RetrievalOf!Next ELSE UNCHANGED retrievalVars
    /\ IF focus = "files" THEN FilesOf!Next ELSE UNCHANGED filesVars
    /\ IF focus = "embedding" THEN EmbeddingOf!Next ELSE UNCHANGED embeddingVars
    /\ IF focus = "scoring" THEN ScoringOf!Next ELSE UNCHANGED scoringVars

MCSpec == MCInit /\ [][MCNext]_MCvars

-----------------------------------------------------------------------------
(* The properties, with their comments, are in the components' modules. *)

\* The chunks are the text of the document, in order, but for what the splitter drops or doubles
\* (text before the first heading, elements it does not look for or that are nested), and are
\* over the limit by the named amounts only (semantic_chunker.py); the sections of a file cover
\* it without overlap, and a chat keeps question and answer together (doc, book and chat
\* extractors).
TextCovered ==
    /\ focus = "chunker" => ChunkerOf!ChunksCover
    /\ focus = "files" => FilesOf!ExtractedCovers

\* Every chunk of a processed document is indexed, filtered for a reason, or named in the
\* errors (streaming_pipeline.process_document).
ChunksAccounted == focus = "ingest" => IngestOf!ChunksAccounted

\* A prompt without the notice has two strong, readable, different sources behind it, but for
\* questions routed as direct, which have neither (main.py, retrieval.py, rerank.py).
GroundedAnswer == focus = "retrieval" => RetrievalOf!GroundedAnswer

\* The vectors an encode returns are in the order of its texts, whatever order batches and
\* entries arrive in (remote_embedder.py).
InPlace == focus = "embedding" => EmbeddingOf!InPlace

\* The calibrated threshold is as good as any other on the cases it was given, unless rounding passed
\* a finer score; an answer better supported, and not more contradicted, by its context never scores
\* lower; and the scorer that rounds before it picks an action agrees with the one that does not
\* (confidence.py).
ScoresSound == focus = "scoring" => ScoringOf!ScoresSound
==============================================================================

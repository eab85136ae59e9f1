----------------------------- MODULE Retrieval -----------------------------
(***************************************************************************)
(* Retrieval for one question after another: the routing, search, access   *)
(* filter, reranking, evaluation and context assembly of process_rag_query *)
(* (main.py), over core/retrieval.py, progressive_retrieval.py, rerank.py, *)
(* retrieval_evaluator.py, context/builder.py, token_optimizer.py and      *)
(* shared/access_control.py.                                               *)
(*                                                                         *)
(* Scores are in hundredths.  Every search may see another index: the ETL  *)
(* writes it meanwhile.  What a search of the index returns, and whether   *)
(* Qdrant, the embedder, the reranker or a breaker fails, is chosen anew   *)
(* at every call.                                                          *)
(***************************************************************************)
EXTENDS Integers, SequencesExt

CONSTANTS Rankings,        \* answers of the index: sequences of [id, score], best first
          TextOf,          \* chunk id -> its hash over text, source and version
          Level, Groups,   \* chunk id -> access level, allowed groups
          AllowedLevels, UserGroups,
          SizeOf,          \* chunk id -> tokens of its part of the context
          Stages,          \* PROGRESSIVE_RETRIEVAL_STAGES
          MAX_CHUNKS_AFTER_RERANK,
          PRUNE_OVER,      \* results that knee-point pruning leaves alone (5)
          BUDGET,          \* context_total of smart_token_budget
          MIN_REMAINDER,   \* tokens worth a truncated part (50)
          RerankScores, MaxQuestions

VARIABLES svc,      \* module globals of retrieval.py: client, embedder, degraded flag, vector name
          rcache,   \* the rerank cache: text -> score, or NoScore
          q,        \* the question being processed
          asked

vars == <<svc, rcache, q, asked>>

STRONG == 32
BORDERLINE == 25
MIN_STRONG_SOURCES == 2
NoScore == -1
Texts == {TextOf[c] : c \in DOMAIN TextOf}

Idle == [pc |-> "idle", results |-> <<>>, label |-> "direct", plenty |-> FALSE,
         sources |-> <<>>, context |-> <<>>, notice |-> FALSE]

TypeOK ==
    /\ svc \in [client: BOOLEAN, embedder: BOOLEAN, degraded: BOOLEAN,
                name: {"unknown", "vector", "guess"}]
    /\ rcache \in [Texts -> RerankScores \cup {50, NoScore}]
    /\ q.pc \in {"idle", "hyde", "direct", "expanded", "graph_expanded", "search", "filter",
                 "rerank", "evaluate", "done", "failed"}
    /\ q.label \in {"hyde", "direct", "expanded", "graph_expanded", "insufficient", "degraded", "none"}
    /\ {q.plenty, q.notice} \subseteq BOOLEAN
    /\ ToSet(q.context) \subseteq DOMAIN TextOf
    /\ asked \in 0..MaxQuestions

\* initialize_retrieval: without Qdrant the process starts degraded; create_embedder may fail.
initialize_retrieval(up, emb) ==
    [client |-> up, embedder |-> emb, degraded |-> ~up, name |-> "unknown"]

Init ==
    /\ \E up, emb \in BOOLEAN : svc = initialize_retrieval(up, emb)
    /\ rcache = [t \in Texts |-> NoScore]
    /\ q = Idle /\ asked = 0

-----------------------------------------------------------------------------
Strong(h) == h.score >= STRONG
Ids(hits) == {h.id : h \in ToSet(hits)}
StrongIds(hits) == Ids(SelectSeq(hits, Strong))
First(n, s) == SubSeq(s, 1, IF n < Len(s) THEN n ELSE Len(s))

compute_rrf_score(d, s) == (10000000 \div (60 + d)) + (10000000 \div (60 + s))
RankIn(id, hits) == CHOOSE i \in DOMAIN hits : hits[i].id = id

\* The fused list is ordered by RRF, but each hit keeps its own score, the sparse one if it has both.
reciprocal_rank_fusion(dense, sparse) ==
    LET sent(s) == IF Len(s) > 1 THEN 60 + Len(s) ELSE 61
        rrf(id) ==
            (IF id \in Ids(dense) THEN compute_rrf_score(RankIn(id, dense), sent(sparse)) ELSE 0)
            + (IF id \in Ids(sparse) THEN compute_rrf_score(sent(dense), RankIn(id, sparse)) ELSE 0)
        met(id) == IF id \in Ids(dense) THEN RankIn(id, dense)
                   ELSE Len(dense) + RankIn(id, sparse)
        order == SetToSortSeq(Ids(dense) \cup Ids(sparse),
                    LAMBDA a, b : rrf(a) > rrf(b) \/ (rrf(a) = rrf(b) /\ met(a) < met(b)))
    IN [i \in DOMAIN order |-> IF order[i] \in Ids(sparse) THEN sparse[RankIn(order[i], sparse)]
                               ELSE dense[RankIn(order[i], dense)]]

filter_results_by_score(hits) ==
    LET strong == SelectSeq(hits, Strong)
        borderline == SelectSeq(hits, LAMBDA h : BORDERLINE <= h.score /\ h.score < STRONG)
    IN strong \o First(CASE Len(strong) >= MIN_STRONG_SOURCES -> 2
                         [] Len(strong) = 1 -> 1
                         [] OTHER -> 3, borderline)

\* The point farthest from the chord between the first and the last score, counted from 0.
Knee(hits) ==
    LET n == Len(hits)
        off(i) == (hits[i].score - hits[1].score) * (n - 1) - (hits[n].score - hits[1].score) * (i - 1)
        dist(i) == IF off(i) < 0 THEN 0 - off(i) ELSE off(i)
    IN CHOOSE i \in 1..n : /\ \A j \in 1..n : dist(j) <= dist(i)
                           /\ \A j \in 1..(i - 1) : dist(j) < dist(i)

\* Variant: the knee may be the first hit.
knee_point_pruning_one(hits) == First(Knee(hits), hits)

knee_point_pruning(hits) ==
    LET scores == {h.score : h \in ToSet(hits)} IN
    IF Len(hits) <= 2 THEN hits
    ELSE IF Cardinality(scores) = 1
    THEN First(IF Len(hits) \div 2 > 2 THEN Len(hits) \div 2 ELSE 2, hits)
    ELSE First(IF Knee(hits) > 1 THEN Knee(hits) ELSE 2, hits)

\* _get_dense_vector_name: looked up once; after an exception the guess stays.
_get_dense_vector_name(out) ==
    IF svc.name # "unknown" THEN svc.name ELSE IF out = "error" THEN "guess" ELSE "vector"

\* hybrid_search past its guards.  A breaker that is open gives an empty list, not an error;
\* an embedder that cannot make sparse vectors gives no sparse list.
Raw(dense, sparse, out, k) ==
    LET d == IF out = "open" THEN <<>> ELSE First(k, dense)
        s == First(k, sparse)
    IN IF s # <<>> THEN First(k, reciprocal_rank_fusion(d, s)) ELSE d

Pruned(hits) == IF Len(hits) > PRUNE_OVER THEN knee_point_pruning(hits) ELSE hits
hybrid_search(raw) == Pruned(filter_results_by_score(raw))

\* build_access_filter, in Qdrant's must: only what the user's levels and groups match.
build_access_filter(c) ==
    /\ Level[c] \in AllowedLevels
    /\ ("confidential" \in AllowedLevels /\ UserGroups # {}) => Groups[c] \cap UserGroups # {}

\* One answer of the index under the access filter.
Filtered(hits) == SelectSeq(hits, LAMBDA h : build_access_filter(h.id))

\* filter_chunks: the same levels once more, groups only for confidential chunks.
Readable(c) ==
    /\ Level[c] \in AllowedLevels
    /\ Level[c] = "confidential" => /\ UserGroups # {}
                                    /\ Groups[c] = {} \/ Groups[c] \cap UserGroups # {}

-----------------------------------------------------------------------------
\* What the router looks at: a greeting or other direct pattern, a retrieval keyword, the number
\* of words, the boosts of the phrases found, of the question marks and of the readability.
Features == [pattern: BOOLEAN, keyword: BOOLEAN, words: {2, 8, 20}, boost: {-3, 0, 3},
             marks: {0, 2}, grade: {0, 2}]

complexity_score(f) ==
    LET length == CASE f.words <= 2 -> 1 [] f.words <= 5 -> 3 [] f.words <= 10 -> 5
                    [] f.words <= 18 -> 7 [] OTHER -> 9
        score == length + f.boost + f.marks + f.grade
    IN CASE score < 1 -> 1 [] score > 10 -> 10 [] OTHER -> score

classify(f) ==
    CASE f.pattern \/ (f.words <= 3 /\ ~f.keyword /\ complexity_score(f) <= 3) -> "direct"
      [] ~f.pattern /\ complexity_score(f) >= 7 -> "multi"
      [] OTHER -> "single"

get_retrieval_params(class) == [retrieve |-> class # "direct"]

\* Without results the prompt gets UNGROUNDED_NOTICE.
Unfounded == [Idle EXCEPT !.pc = "done", !.label = "degraded", !.notice = TRUE]

\* A question is routed (with ADAPTIVE_ROUTING_ENABLED): a direct one is answered at once, without
\* retrieval, sources or notice.  Retrieval is skipped while the process is degraded.
route(adaptive, f, progressive) ==
    LET direct == adaptive /\ ~get_retrieval_params(classify(f)).retrieve IN
    /\ q.pc \in {"idle", "done", "failed"} /\ asked < MaxQuestions
    /\ asked' = asked + 1
    /\ q' = CASE direct -> [Idle EXCEPT !.pc = "done", !.label = "none"]
              [] ~direct /\ (~svc.embedder \/ svc.degraded) ->
                     Unfounded
              [] OTHER -> [Idle EXCEPT !.pc = IF progressive THEN "hyde" ELSE "search"]
    /\ UNCHANGED <<svc, rcache>>

quality_sufficient(hits) == Cardinality({i \in DOMAIN hits : Strong(hits[i])}) >= MIN_STRONG_SOURCES

_dedup_new_only(seen, hits) == SelectSeq(hits, LAMBDA h : h.id \notin Ids(seen))

NextStage == [hyde |-> "direct", direct |-> "expanded", expanded |-> "graph_expanded",
              graph_expanded |-> "filter"]
StageSize == [hyde |-> Stages[1], direct |-> Stages[1], expanded |-> Stages[2],
              graph_expanded |-> Stages[3]]

\* The first search that finds something finds two strong sources, before pruning.
Plenty(raw) == q.results = <<>> /\ Cardinality(StrongIds(raw)) >= MIN_STRONG_SOURCES

\* progressive_retrieve, one stage.  An exception in the HyDE stage is swallowed; in a later one
\* it takes everything found so far with it.
progressive_retrieve(dense, sparse, out) ==
    LET raw == Raw(Filtered(dense), Filtered(sparse), out, StageSize[q.pc])
        all == q.results \o _dedup_new_only(q.results, hybrid_search(raw))
    IN /\ q.pc \in DOMAIN NextStage
       /\ svc' = [svc EXCEPT !.name = _get_dense_vector_name(out)]
       /\ q' = IF out = "error"
               THEN IF q.pc = "hyde" THEN [q EXCEPT !.pc = "direct"]
                    ELSE Unfounded
               ELSE [q EXCEPT !.results = all,
                              !.plenty = @ \/ Plenty(raw),
                              !.pc = IF quality_sufficient(all) THEN "filter" ELSE NextStage[q.pc],
                              !.label = CASE quality_sufficient(all) -> q.pc
                                          [] q.pc = "graph_expanded" -> "insufficient"
                                          [] OTHER -> @]
       /\ UNCHANGED <<rcache, asked>>

\* The single search of a request with its own top_k; the label stays "direct".
single_search(dense, sparse, out) ==
    LET raw == Raw(Filtered(dense), Filtered(sparse), out, Stages[3]) IN
    /\ q.pc = "search"
    /\ svc' = [svc EXCEPT !.name = _get_dense_vector_name(out)]
    /\ q' = IF out = "error" THEN Unfounded
            ELSE [q EXCEPT !.pc = "filter", !.results = hybrid_search(raw),
                           !.plenty = Plenty(raw)]
    /\ UNCHANGED <<rcache, asked>>

filter_chunks ==
    LET kept == SelectSeq(q.results, LAMBDA h : Readable(h.id)) IN
    /\ q.pc = "filter"
    /\ q' = [q EXCEPT !.sources = kept, !.pc = IF kept = <<>> THEN "done" ELSE "rerank",
                      !.notice = kept = <<>>]
    /\ UNCHANGED <<svc, rcache, asked>>

\* _call_reranker_safe: an open breaker scores everything 0.5; another failure is raised.
_call_reranker_safe(out, answer, t) == IF out = "open" THEN 50 ELSE answer[t]

deduplicate_chunks(hits) ==
    LET fresh(i) == \A j \in 1..(i - 1) : TextOf[hits[j].id] # TextOf[hits[i].id]
        keep == SetToSortSeq({i \in DOMAIN hits : fresh(i)}, <)
    IN [i \in DOMAIN keep |-> hits[keep[i]]]

\* rerank_chunks: cached scores, the others computed and cached, the fallback too; then the
\* best are kept and duplicates dropped.  Nothing catches an exception here.
rerank_chunks(out, answer) ==
    LET texts == {TextOf[c] : c \in Ids(q.sources)}
        score(t) == IF rcache[t] # NoScore THEN rcache[t] ELSE _call_reranker_safe(out, answer, t)
        at(i) == score(TextOf[q.sources[i].id])
        order == SetToSortSeq(DOMAIN q.sources,
                     LAMBDA i, j : at(i) > at(j) \/ (at(i) = at(j) /\ i < j))
        best == First(MAX_CHUNKS_AFTER_RERANK, [i \in DOMAIN order |-> q.sources[order[i]]])
        called == \E t \in texts : rcache[t] = NoScore
    IN /\ q.pc = "rerank"
       /\ out = "error" => called
       /\ IF out = "error"
          THEN q' = [q EXCEPT !.pc = "failed"] /\ UNCHANGED rcache
          ELSE /\ rcache' = [t \in Texts |-> IF t \in texts THEN score(t) ELSE rcache[t]]
               /\ q' = [q EXCEPT !.pc = "evaluate", !.sources = deduplicate_chunks(best)]
       /\ UNCHANGED <<svc, asked>>

\* The hour of a cached score is over.
RerankExpires(t) ==
    /\ rcache[t] # NoScore
    /\ rcache' = [rcache EXCEPT ![t] = NoScore]
    /\ UNCHANGED <<svc, q, asked>>

-----------------------------------------------------------------------------
Total(f, S) == FoldSet(LAMBDA i, t : f[i] + t, 0, S)

\* RetrievalEvaluator.evaluate_quality: average, coverage, number and spread of the scores.
evaluate_quality(hits) ==
    LET n == Len(hits)
        avg == Total([i \in DOMAIN hits |-> hits[i].score], DOMAIN hits) \div n
        var == Total([i \in DOMAIN hits |-> (hits[i].score - avg) * (hits[i].score - avg)],
                     DOMAIN hits) \div (100 * n)
        cov == Total([i \in DOMAIN hits |-> CASE hits[i].score > 70 -> 100
                                             [] hits[i].score > 40 -> 50
                                             [] OTHER -> 0], DOMAIN hits) \div n
        count == IF n >= 5 THEN 100 ELSE 20 * n
    IN (40 * avg + 30 * cov + 20 * count + 10 * (10000 \div (100 + var))) \div 100

get_action(c) == CASE c >= 70 -> "USE" [] c >= 40 -> "REWRITE" [] c >= 20 -> "EXPAND"
                   [] OTHER -> "FALLBACK"

\* The corrective search of REWRITE and EXPAND: its results go nowhere, its failure too.
corrective_search(action, out) ==
    IF action \in {"REWRITE", "EXPAND"} THEN _get_dense_vector_name(out) ELSE svc.name

\* Whole parts while they fit, and a truncated one if the rest is worth it.
Fitting(hits, budget) ==
    LET used(n) == Total([i \in 1..n |-> SizeOf[hits[i].id]], 1..n)
        whole == CHOOSE n \in 0..Len(hits) : /\ used(n) <= budget
                                             /\ n < Len(hits) => used(n + 1) > budget
        cutoff == whole < Len(hits) /\ budget - used(whole) > MIN_REMAINDER
    IN [parts |-> First(IF cutoff THEN whole + 1 ELSE whole, hits), truncated |-> cutoff]

\* build_context: the chunks by score (the reordering before the sort has no effect but on ties).
build_context(hits, budget) ==
    Fitting(SetToSortSeq(ToSet(hits), LAMBDA g, h : g.score > h.score
                                         \/ (g.score = h.score /\ g.id < h.id)), budget)

\* _compress_hierarchical: in the order of the reranker.
_compress_hierarchical(hits, budget) == Fitting(hits, budget).parts

\* A truncated part makes the text longer than the budget, so it is compressed instead.
Context(hits, action) ==
    LET raw == build_context(hits, BUDGET) IN
    CASE action = "FALLBACK" -> <<>>
      [] action = "EXPAND" -> raw.parts
      [] raw.truncated /\ action \in {"USE", "REWRITE"} -> _compress_hierarchical(hits, BUDGET)
      [] OTHER -> raw.parts

should_generate_answer(hits) ==
    Cardinality({i \in DOMAIN hits : Strong(hits[i])}) >= MIN_STRONG_SOURCES

\* The rest of process_rag_query up to the prompt: with or without UNGROUNDED_NOTICE.
evaluate_and_act(out) ==
    LET action == get_action(evaluate_quality(q.sources))
        parts == Context(q.sources, action) IN
    /\ q.pc = "evaluate"
    /\ svc' = [svc EXCEPT !.name = corrective_search(action, out)]
    /\ q' = [q EXCEPT !.pc = "done", !.context = [i \in DOMAIN parts |-> parts[i].id],
                      !.notice = ~should_generate_answer(q.sources)]
    /\ UNCHANGED <<rcache, asked>>

\* hybrid_search from the agentic graph or a tool initializes what is missing.
reinitialize(up, emb) ==
    /\ ~svc.client \/ ~svc.embedder
    /\ svc' = [initialize_retrieval(up, emb) EXCEPT !.name = svc.name]
    /\ UNCHANGED <<rcache, q, asked>>

Outcomes == {"ok", "open", "error"}

Next ==
    \/ \E a, p \in BOOLEAN, f \in Features : route(a, f, p)
    \/ \E d, s \in Rankings, out \in Outcomes : progressive_retrieve(d, s, out) \/ single_search(d, s, out)
    \/ filter_chunks
    \/ \E out \in Outcomes, answer \in [Texts -> RerankScores] : rerank_chunks(out, answer)
    \/ \E out \in Outcomes : evaluate_and_act(out)
    \/ \E t \in Texts : RerankExpires(t)
    \/ \E up, emb \in BOOLEAN : reinitialize(up, emb)

Spec == Init /\ [][Next]_vars

-----------------------------------------------------------------------------
(***************************************************************************)
(* What the labels and the missing notice promise.  A stage that is not    *)
(* "insufficient" has two different strong sources, however the searches   *)
(* overlapped; two that the first fruitful search got from the index are   *)
(* not both pruned away; a prompt without UNGROUNDED_NOTICE stands on two  *)
(* different strong texts that the user may read, and on a context that is *)
(* not empty, whatever the reranker, its cache and the budget did.  The    *)
(* exception is a question that was routed as direct: its prompt has       *)
(* neither notice nor sources (main.py:482), and only the chat endpoint,   *)
(* which sees no sources, adds the notice (chat.py:486, 686).              *)
(***************************************************************************)
RoutedDirect == q.label = "none"
GroundedAnswer ==
    q.pc \in {"filter", "rerank", "evaluate", "done"} =>
        /\ q.label \in {"hyde", "expanded", "graph_expanded"} => Cardinality(StrongIds(q.results)) >= 2
        /\ q.plenty => q.label # "insufficient" /\ Cardinality(StrongIds(q.results)) >= 2
        /\ q.pc = "done" /\ ~q.notice /\ ~RoutedDirect =>
                         /\ \E a, b \in ToSet(q.sources) : /\ TextOf[a.id] # TextOf[b.id]
                                                         /\ Strong(a) /\ Strong(b)
                                                         /\ Readable(a.id) /\ Readable(b.id)
                         /\ q.context # <<>>
                         /\ q.label # "insufficient"
=============================================================================

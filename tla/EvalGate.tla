------------------------------- MODULE EvalGate -------------------------------
(***************************************************************************)
(* The gate a model version passes before it is promoted                   *)
(* (model_evolution/eval_gate.py, called by /v1/admin/models/evaluate),    *)
(* and the metrics it is fed: NLI grounding (nli_evaluator.py), RAGAS      *)
(* scores (core/ragas_metrics.py) and the LLM trainer's own evaluation.    *)
(*                                                                         *)
(* A metric is a percentage; a report is a function from the metrics that  *)
(* were measured.  Loading the NLI model is tried once per process: a      *)
(* failure is remembered and claims are then matched by their words.       *)
(***************************************************************************)
EXTENDS Integers, Sequences, FiniteSets

CONSTANTS Thresholds,       \* MetricThresholds: [metric, threshold, comparison, severity]
          TOLERANCE,        \* baseline_regression_tolerance
          REQUIRE_BASELINE, \* require_baseline_comparison
          Reports,          \* metrics a request can carry
          Answers,          \* [claims, context, similarity, words]; a claim is [truth, overlap]
          CACHE_MAX,        \* _CACHE_MAX_SIZE
          MaxResults        \* bound: evaluations

VARIABLES production,  \* metrics of the version in production; the empty function if there is none
          nli,         \* _NLI_MODEL_LOADED and whether there is a model: "new", "loaded", "failed"
          cache,       \* _SCORED_CACHE: answer -> relevancy
          results      \* GateResults

vars == <<production, nli, cache, results>>

NoMetrics == [m \in {} |-> 0]
Init == production \in Reports \cup {NoMetrics} /\ nli = "new" /\ cache = NoMetrics /\ results = <<>>

-----------------------------------------------------------------------------
(* The gate *)

Passes(t, v) ==
    CASE t.comparison = "gt" -> v > t.threshold
      [] t.comparison = "gte" -> v >= t.threshold
      [] t.comparison = "lt" -> v < t.threshold
      [] t.comparison = "lte" -> v <= t.threshold

\* A metric that was not measured is passed over.
Missed(metrics, severity) ==
    {t \in Thresholds : /\ t.severity = severity
                        /\ t.metric \in DOMAIN metrics
                        /\ ~ Passes(t, metrics[t.metric])}

\* Variant: the difference is taken the other way round.
delta_metrics_swapped(metrics, baseline) ==
    [m \in DOMAIN metrics \cap DOMAIN baseline |-> baseline[m] - metrics[m]]

delta_metrics(metrics, baseline) ==
    [m \in DOMAIN metrics \cap DOMAIN baseline |-> metrics[m] - baseline[m]]

\* A hard metric below production's by more than the tolerance; a drop counts, whatever the comparison.
Regressed(metrics, baseline) ==
    LET delta == delta_metrics(metrics, baseline) IN
    {t \in Thresholds : /\ TOLERANCE > 0
                        /\ t.severity = "fail"
                        /\ t.metric \in DOMAIN delta
                        /\ delta[t.metric] < -TOLERANCE}

evaluate(metrics, baseline) ==
    LET failures == Missed(metrics, "fail")
        warns == \/ Missed(metrics, "warn") # {}
                 \/ Regressed(metrics, baseline) # {}
                 \/ REQUIRE_BASELINE /\ DOMAIN baseline = {}
    IN [status |-> IF failures # {} THEN "fail" ELSE IF warns THEN "warn" ELSE "pass",
        metrics |-> metrics, baseline |-> baseline]

-----------------------------------------------------------------------------
(* NLI grounding *)

\* What the model says of a claim is its truth; without it the words decide.
_lightweight_check(c) ==
    IF c.overlap >= 40 THEN "entailment" ELSE IF c.overlap <= 15 THEN "contradiction" ELSE "neutral"

_check_claim_nli(c, model) == IF model = "loaded" THEN c.truth ELSE _lightweight_check(c)

\* Without a context every claim is neutral, and the model is not asked.
Labelled(a, model, label) ==
    {i \in DOMAIN a.claims : label = IF a.context THEN _check_claim_nli(a.claims[i], model) ELSE "neutral"}

Count(answers, model, label) == Cardinality(UNION {{a} \X Labelled(a, model, label) : a \in answers})

evaluate_nli_batch(answers, model) ==
    LET entailed == Count(answers, model, "entailment")
        contradicted == Count(answers, model, "contradiction")
        claims == entailed + contradicted + Count(answers, model, "neutral")
        score == (100 * entailed - 50 * contradicted) \div claims
    IN [nli_entailment_rate |-> IF claims = 0 THEN 0 ELSE (100 * entailed) \div claims,
        nli_overall_score |-> IF claims = 0 \/ score < 0 THEN 0 ELSE IF score > 100 THEN 100 ELSE score]

\* Loaded at the first claim that has a context; whatever happens, it is not tried again.
_load_nli_model(answers) ==
    IF nli = "new" /\ \E a \in answers : a.context /\ a.claims # <<>>
    THEN {"loaded", "failed"} ELSE {nli}

-----------------------------------------------------------------------------
(* RAGAS scores *)

\* No claims is faithful, no context is not.
faithfulness_score(a, model) ==
    IF ~ a.context THEN 0
    ELSE IF a.claims = <<>> THEN 100
    ELSE (100 * Count({a}, model, "entailment")) \div Len(a.claims)

\* By embeddings or, when there is no embedder, by words; the first score is kept while there is room.
answer_relevancy(a) == IF a \in DOMAIN cache THEN {cache[a]} ELSE {a.similarity, a.words}

Remember(a, score) ==
    IF a \in DOMAIN cache \/ Cardinality(DOMAIN cache) >= CACHE_MAX THEN cache
    ELSE [b \in DOMAIN cache \cup {a} |-> IF b = a THEN score ELSE cache[b]]

-----------------------------------------------------------------------------
(* Evaluations *)

Merge(metrics, more) ==
    [m \in DOMAIN metrics \cup DOMAIN more |-> IF m \in DOMAIN more THEN more[m] ELSE metrics[m]]
Full == Len(results) >= MaxResults
Record(metrics) == results' = Append(results, evaluate(metrics, production))

\* /v1/admin/models/evaluate.  The metrics of the request become the version's own: those of the
\* version in production are the baseline of the next request.
admin_models_evaluate(metrics, version) ==
    /\ ~ Full
    /\ Record(metrics)
    /\ production' = IF version = "production" /\ DOMAIN production # {}
                     THEN metrics ELSE production
    /\ UNCHANGED <<nli, cache>>

evaluate_with_nli(metrics, answers) ==
    /\ ~ Full
    /\ \E model \in _load_nli_model(answers) :
          /\ nli' = model
          /\ Record(IF answers = {} THEN metrics ELSE Merge(metrics, evaluate_nli_batch(answers, model)))
    /\ UNCHANGED <<production, cache>>

\* A failure of the scores is passed over, and they are not in the report.
evaluate_with_ragas(metrics, a) ==
    /\ ~ Full
    /\ \E model \in _load_nli_model({a}) :
          /\ nli' = model
          /\ \/ Record(Merge(metrics, evaluate_nli_batch({a}, model))) /\ UNCHANGED cache
             \/ \E r \in answer_relevancy(a) :
                   /\ cache' = Remember(a, r)
                   /\ Record(Merge(Merge(metrics, [ragas_faithfulness |-> faithfulness_score(a, model),
                                                   ragas_relevancy |-> r]),
                                   evaluate_nli_batch({a}, model)))
    /\ UNCHANGED production

\* The registry promotes what it is told to; the metrics become the baseline.
promote(n) ==
    /\ production' = results[n].metrics
    /\ UNCHANGED <<nli, cache, results>>

-----------------------------------------------------------------------------
Next ==
    \/ \E m \in Reports, version \in {"candidate", "production"} : admin_models_evaluate(m, version)
    \/ \E m \in Reports, answers \in SUBSET Answers : evaluate_with_nli(m, answers)
    \/ \E m \in Reports, a \in Answers : evaluate_with_ragas(m, a)
    \/ \E n \in DOMAIN results : promote(n)

Spec == Init /\ [][Next]_vars

-----------------------------------------------------------------------------
(* Properties *)

Better(t, v, w) == IF t.comparison \in {"gt", "gte"} THEN v >= w ELSE v <= w
Rank(status) == CASE status = "pass" -> 0 [] status = "warn" -> 1 [] status = "fail" -> 2

\* A version that is nowhere worse than another, in the metrics the thresholds name, is not judged
\* worse: of two evaluations against the same baseline that measured the same metrics, wherever the
\* metrics came from, the one with the better ones has no lower verdict (eval_gate.py: the thresholds,
\* the differences from the baseline and their tolerance, taken together).
GateMonotone ==
    \A i, j \in DOMAIN results :
        LET a == results[i]  b == results[j] IN
        (/\ a.baseline = b.baseline
         /\ DOMAIN a.metrics = DOMAIN b.metrics
         /\ \A t \in Thresholds : t.metric \in DOMAIN a.metrics =>
                Better(t, a.metrics[t.metric], b.metrics[t.metric]))
            => Rank(a.status) <= Rank(b.status)
==============================================================================

------------------------------- MODULE Scoring -------------------------------
(***************************************************************************)
(* Scoring of answers and of retrieved chunks: core/confidence.py of the   *)
(* proxy.                                                                  *)
(*                                                                         *)
(* A text is known by what the scorers ask of it: the lengths of context   *)
(* and answer, whether the answer hedges, how many claims it splits into,  *)
(* how many of these the context supports by word overlap, and how many    *)
(* the NLI model calls entailed or contradicted; how many sentences it has *)
(* and how many of them the context matches by keyword.  Scores are whole  *)
(* numbers of hundred-thousandths, rounded where the code rounds; sums     *)
(* that a float misses by its last bit are exact here.                     *)
(***************************************************************************)
EXTENDS Integers, Sequences, SequencesExt

CONSTANTS Answers,           \* answers with their contexts
          ChunkScores,       \* sequences of chunk relevances
          Cases,             \* sequences of [score, correct]
          GROUNDING,         \* NLI_GROUNDING_ENABLED or HALLUCINATION_CHECK_ENABLED
          ALERT_CONFIDENCE_THRESHOLD,
          ALERT_ENDPOINT,    \* ADMIN_ALERT_ENDPOINT is set
          CONFIDENCE_THRESHOLD,
          MaxResults         \* bound: results kept

VARIABLES nli_loaded, \* the NLI model could be loaded, which is tried once
          results,   \* what the scorers returned, one kind per behaviour
          posting,   \* alert threads under way
          alerts     \* rag_low_confidence_alerts: logged, dispatched

vars == <<nli_loaded, results, posting, alerts>>

Init ==
    /\ nli_loaded \in BOOLEAN
    /\ results = <<>>
    /\ posting = 0
    /\ alerts = [logged |-> 0, dispatched |-> 0]

least(a, b) == IF a < b THEN a ELSE b
most(a, b) == IF a > b THEN a ELSE b
Rounded(n, unit) == ((n + unit \div 2) \div unit) * unit
Rate(part, total, unit) == unit * ((2 * part * (100000 \div unit) + total) \div (2 * total))

-----------------------------------------------------------------------------
(* Grounding *)

\* evaluate_nli: a contradicted claim takes half of what an entailed one gives.
evaluate_nli(a) ==
    LET twice == 2 * a.entailed - a.contradicted IN
    [score |-> IF twice <= 0 THEN 0 ELSE Rate(twice, 2 * a.claims, 10),
     supported |-> a.entailed, total |-> a.claims]

_compute_nli_lightweight(a) ==
    [score |-> Rate(a.supported, a.claims, 100), supported |-> a.supported, total |-> a.claims]

\* An answer without claims, and one without a context, score 0.
compute_nli_grounding(a) ==
    IF a.context = 0 \/ a.claims = 0 THEN [score |-> 0, supported |-> 0, total |-> a.claims]
    ELSE IF nli_loaded THEN evaluate_nli(a) ELSE _compute_nli_lightweight(a)

\* By word overlap even when the model is there.
verify_answer_claims(a) ==
    [rate |-> IF a.context = 0 \/ a.claims = 0 THEN 0 ELSE Rate(a.supported, a.claims, 100),
     total |-> a.claims]

\* Self-critique matches keywords instead, and passes what it cannot check.
self_critique_answer(a) ==
    LET score == 100000 + 4 * ((a.matched * 100000) \div a.sentences) IN
    IF a.context = 0 \/ a.answer = 0 \/ a.sentences = 0 THEN [valid |-> TRUE, score |-> 500000]
    ELSE [valid |-> score >= 300000, score |-> score]

-----------------------------------------------------------------------------
(* Confidence *)

Penalties(a) ==
    (IF a.context < 20 THEN 40000 ELSE 0)
    + (IF a.context > 0 /\ 2 * a.context < a.answer THEN 20000 ELSE 0)
    + (IF a.hedged THEN 20000 ELSE 0)
    + (IF a.answer < 20 THEN 15000 ELSE 0)

\* Variant: a grounding of 0 is taken for none.
mixed_truthy(base, grounded, nli) == IF grounded /\ nli # 0 THEN (6 * base + 4 * nli) \div 10 ELSE base

mixed(base, grounded, nli) == IF grounded THEN (6 * base + 4 * nli) \div 10 ELSE base

Clamped(n) == most(0, least(100000, n))

compute_confidence(a) ==
    LET grounded == GROUNDING /\ a.answer > 0 /\ a.context > 0
        score == Clamped(mixed(70000 - Penalties(a), grounded, compute_nli_grounding(a).score))
        value == Rounded(score, 1000)
    IN [score |-> value,
        needs_review |-> score < 50000,
        action |-> CASE value >= 60000 -> "USE" [] value >= 40000 /\ value < 60000 -> "REWRITE"
                     [] value < 40000 -> "FALLBACK"]

\* The action is chosen before rounding, and knows EXPAND.
compute_confidence_score(a, nli_given) ==
    LET score == Clamped(mixed(70000 - Penalties(a), nli_given, compute_nli_grounding(a).score))
    IN [score |-> Rounded(score, 1000),
        action |-> CASE score >= 60000 -> "USE" [] score >= 40000 /\ score < 60000 -> "REWRITE"
                     [] score >= 20000 /\ score < 40000 -> "EXPAND" [] score < 20000 -> "FALLBACK"]

-----------------------------------------------------------------------------
(* Chunks *)

evaluate_retrieval_quality(scores) ==
    LET correct == Len(SelectSeq(scores, LAMBDA s : s > 70000))
        incorrect == Len(SelectSeq(scores, LAMBDA s : s < 30000))
    IN [total |-> Len(scores), correct |-> correct, incorrect |-> incorrect,
        classification |-> IF scores = <<>> THEN "Incorrect"
                           ELSE IF 2 * correct >= Len(scores) THEN "Correct"
                           ELSE IF incorrect = Len(scores) THEN "Incorrect" ELSE "Ambiguous"]

-----------------------------------------------------------------------------
(* Calibration *)

\* F1 of a threshold, as a fraction: 2tp / (2tp + fp + fn), 0 when nothing is found.
F1(cases, threshold) ==
    LET tp == Len(SelectSeq(cases, LAMBDA c : c.score >= threshold /\ c.correct))
        fp == Len(SelectSeq(cases, LAMBDA c : c.score >= threshold /\ ~ c.correct))
        fn == Len(SelectSeq(cases, LAMBDA c : c.score < threshold /\ c.correct))
    IN IF tp = 0 THEN <<0, 1>> ELSE <<2 * tp, 2 * tp + fp + fn>>
Above(f, g) == f[1] * g[2] > g[1] * f[2]

\* A higher F1, or the same with a lower threshold.
Better(best, f, t) ==
    IF Above(f, best.f1) THEN [f1 |-> f, t |-> t]
    ELSE IF ~ Above(best.f1, f) /\ t < best.t THEN [best EXCEPT !.t = t] ELSE best

\* First the scores in the order given, then the midpoints of neighbours, which must be better.
calibrate_threshold(cases) ==
    LET start == [f1 |-> <<0, 1>>, t |-> 50000]
        atScores == FoldLeft(LAMBDA b, c : Better(b, F1(cases, c.score), c.score), start, cases)
        sorted == SetToSortSeq({cases[i].score : i \in DOMAIN cases}, LAMBDA x, y : x < y)
        mids == [i \in 1..(Len(sorted) - 1) |-> (sorted[i] + sorted[i + 1]) \div 2]
        final == FoldLeft(LAMBDA b, m : IF Above(F1(cases, m), b.f1) THEN [f1 |-> F1(cases, m), t |-> m] ELSE b,
                          atScores, mids)
    IN IF cases = <<>> THEN CONFIDENCE_THRESHOLD ELSE Rounded(final.t, 100)

-----------------------------------------------------------------------------
(* Actions *)

\* Answers are compared with answers alike but for support and hedging, so only results of these
\* are kept together.
Alike(a, b) == <<a.context, a.answer, a.claims, a.sentences>> = <<b.context, b.answer, b.claims, b.sentences>>
Keep(kind, input, result) ==
    /\ Len(results) < MaxResults
    /\ \A i \in DOMAIN results : kind = "answer" /\ results[i].kind = "answer" /\ Alike(results[i].input, input)
    /\ results' = Append(results, [kind |-> kind, input |-> input, result |-> result])
    /\ UNCHANGED nli_loaded

\* compute_confidence ends by raising the alert; the post is a thread of its own.
Score(a) ==
    LET report == compute_confidence(a) IN
    /\ Keep("answer", a, [report |-> report,
                          domain |-> compute_confidence_score(a, GROUNDING /\ a.answer > 0 /\ a.context > 0),
                          verified |-> verify_answer_claims(a), critique |-> self_critique_answer(a)])
    /\ IF report.score >= ALERT_CONFIDENCE_THRESHOLD THEN UNCHANGED <<posting, alerts>>
       ELSE /\ alerts' = [alerts EXCEPT !.logged = @ + 1]
            /\ posting' = IF ALERT_ENDPOINT THEN posting + 1 ELSE posting

Evaluate(scores) ==
    /\ Keep("chunks", scores, evaluate_retrieval_quality(scores))
    /\ UNCHANGED <<posting, alerts>>

Calibrate(cases) ==
    /\ Keep("threshold", cases, calibrate_threshold(cases))
    /\ UNCHANGED <<posting, alerts>>

\* A post that fails is given up.
_post_alert ==
    /\ posting > 0
    /\ posting' = posting - 1
    /\ \E delivered \in {0, 1} : alerts' = [alerts EXCEPT !.dispatched = @ + delivered]
    /\ UNCHANGED <<nli_loaded, results>>

Next ==
    \/ \E a \in Answers : Score(a)
    \/ \E scores \in ChunkScores : Evaluate(scores)
    \/ \E cases \in Cases : Calibrate(cases)
    \/ _post_alert

Spec == Init /\ [][Next]_vars

-----------------------------------------------------------------------------
(* Properties *)

\* What "find optimal threshold maximizing F1" says of calibrate_threshold: no threshold at all has a
\* higher F1 than the one returned, although only the scores themselves and their midpoints are
\* tried.  The exception is a score with more than three decimals that the rounding of the result
\* passed: it is then within half a thousandth of it.
RoundedPast(cases, threshold) ==
    \E i \in DOMAIN cases : /\ cases[i].score % 100 # 0
                           /\ Rounded(cases[i].score, 100) = threshold
CalibratedOptimal ==
    \A i \in DOMAIN results :
        LET cases == results[i].input IN
        results[i].kind = "threshold" /\ cases # <<>> =>
            \A t \in {0, 100001} \cup UNION {{cases[c].score, cases[c].score + 1} : c \in DOMAIN cases} :
                Above(F1(cases, t), F1(cases, results[i].result)) => RoundedPast(cases, results[i].result)

\* Better support never hurts (confidence.py): of two answers alike, the one with no fewer claims
\* supported and entailed, no more of them contradicted, no fewer sentences matched and no more
\* hedging scores at least as high, by the model and without it, is not the one that needs review
\* alone, and gets no worse an action from either scorer.  More entailed claims alone do not suffice:
\* the model takes half a claim off for each contradicted one.
BetterSupported(a, b) ==
    /\ Alike(a, b)
    /\ a.supported <= b.supported /\ a.entailed <= b.entailed /\ b.contradicted <= a.contradicted
    /\ a.matched <= b.matched
    /\ b.hedged => a.hedged
ActionRank(action) ==
    CASE action = "FALLBACK" -> 0 [] action = "EXPAND" -> 1 [] action = "REWRITE" -> 2 [] action = "USE" -> 3
BetterSupportScoresHigher ==
    \A i, j \in DOMAIN results :
        LET x == results[i].result
            y == results[j].result
        IN results[i].kind = "answer" /\ BetterSupported(results[i].input, results[j].input) =>
           /\ x.report.score <= y.report.score
           /\ y.report.needs_review => x.report.needs_review
           /\ ActionRank(x.report.action) <= ActionRank(y.report.action)
           /\ ActionRank(x.domain.action) <= ActionRank(y.domain.action)
           /\ x.verified.rate <= y.verified.rate
           /\ x.critique.score <= y.critique.score

\* One scorer picks its action after rounding, the other before: they differ by at most one step, an
\* answer reported as usable is never one to be reviewed, and rounding never makes an action worse
\* (but the report has no EXPAND).
ScorersAgree ==
    \A i \in DOMAIN results :
        LET report == results[i].result.report
            domain == results[i].result.domain
        IN results[i].kind = "answer" =>
           /\ report.score = domain.score
           /\ report.action = "USE" => ~ report.needs_review /\ domain.action \in {"USE", "REWRITE"}
           /\ domain.action # "EXPAND" => ActionRank(domain.action) <= ActionRank(report.action)

(***************************************************************************)
(* What the scorers promise: the calibrated threshold is optimal on its    *)
(* cases, better support never lowers a score, and the two scorers agree   *)
(* (confidence.py).                                                        *)
(***************************************************************************)
ScoresSound == CalibratedOptimal /\ BetterSupportScoresHigher /\ ScorersAgree
==============================================================================

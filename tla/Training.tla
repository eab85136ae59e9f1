------------------------------- MODULE Training -------------------------------
(***************************************************************************)
(* From the feedback logs to a trained adapter: the export of six dataset  *)
(* files (scripts/export_training_datasets.py), the pairs the reranker's   *)
(* fine-tuning writes (core/rerank.py), and the three trainers that read   *)
(* them (model_evolution/slm_trainer.py, reranker_trainer.py,              *)
(* llm_trainer.py).                                                        *)
(*                                                                         *)
(* The exporter is a script of its own: a trainer may read one file before *)
(* it is rewritten and the next one after.  A file carries the number of   *)
(* the export that wrote it.  The shuffle is seeded: the same rows are      *)
(* always split the same way.                                              *)
(*                                                                         *)
(* A dataset is a list.  A row is the record it was made from (id: the     *)
(* interaction, and the chunk) with the text that is written; the text     *)
(* carries no id and nothing removes duplicates, so rows of two records    *)
(* may have one text.                                                      *)
(***************************************************************************)
EXTENDS Integers, Sequences, SequencesExt, FiniteSets, FiniteSetsExt

CONSTANTS Interactions,   \* id -> [query, label, response, chunks, hit]; a text is a number, 0 an empty
                          \* one; label is that of the query, hit[a] the first chunk answer a is in (0: none)
          FeedbackChoices,\* records feedback can append: [id, type, corrected], corrected a text
          Fixtures,       \* kind -> FALLBACK_*_DATA, a set of rows
          KEEP,           \* (1 - eval_split), in percent
          MIN_SAMPLES,    \* --min-samples
          FALLBACK,       \* --fallback
          LIBS,           \* transformers, peft, torch and sentence-transformers are installed
          PROD,           \* env_profile is PROD
          MaxFeedback,    \* bound: feedback records
          MaxExports,     \* bound: exports
          MaxJobs         \* bound: training jobs

VARIABLES logged,    \* interactions in the log
          feedback,  \* [active, backups]: feedback.jsonl, and backups[n] is feedback.jsonl.n
          export,    \* export_datasets under way: [at, kind, merged, train, eval]
          exports,   \* number of exports and fine-tunings that wrote files
          files,     \* <<directory, kind, split>> -> [by, rows]; NoFile if there is none
          job,       \* the job under way
          jobs       \* jobs that ended

vars == <<logged, feedback, export, exports, files, job, jobs>>

Kinds == <<"intent", "llm", "reranker">>
Splits == {"train", "eval"}
Files == {"export"} \X Range(Kinds) \X Splits \cup {"ft"} \X {"reranker"} \X Splits
NoFile == [by |-> 0, rows |-> {}]
NoExport == [at |-> "idle", kind |-> 1, merged |-> {}, train |-> {}, eval |-> {}]
Nothing == [trained |-> {}, measured |-> {}, torn |-> FALSE, metric |-> -1]
NoJob == [at |-> "idle", kind |-> "none", dir |-> "none", how |-> "none",
          train |-> NoFile, eval |-> NoFile, done |-> Nothing]
Row(id, text, stratum) == [id |-> id, text |-> text, stratum |-> stratum]

Init ==
    /\ logged = {}
    /\ feedback = [active |-> <<>>, backups |-> <<>>]
    /\ export = NoExport
    /\ exports = 0
    /\ files = [f \in Files |-> NoFile]
    /\ job = NoJob
    /\ jobs = <<>>

-----------------------------------------------------------------------------
(* The logs *)

log_interaction(i) ==
    /\ i \notin logged
    /\ logged' = logged \cup {i}
    /\ UNCHANGED <<feedback, export, exports, files, job, jobs>>

log_feedback(r) ==
    /\ Len(feedback.active) + Len(FlattenSeq(feedback.backups)) < MaxFeedback
    /\ feedback' = [feedback EXCEPT !.active = Append(@, r)]
    /\ UNCHANGED <<logged, export, exports, files, job, jobs>>

\* The active file becomes .1, .1 becomes .2.
rotate ==
    /\ feedback.active # <<>>
    /\ feedback' = [active |-> <<>>, backups |-> <<feedback.active>> \o feedback.backups]
    /\ UNCHANGED <<logged, export, exports, files, job, jobs>>

-----------------------------------------------------------------------------
(* The export *)

\* Backups by increasing suffix, the newest first, and then the active file.
read_jsonl_with_rotations(f) == FlattenSeq(f.backups) \o f.active

\* by_id[i]: the last correction and the last type given for the interaction.  Feedback on one that
\* was not logged makes a record with nothing else in it.
Item(i, ids, fb) ==
    LET given == SelectSeq(fb, LAMBDA r : r.id = i)
        corrections == SelectSeq(given, LAMBDA r : r.corrected # 0)
    IN [id |-> i, known |-> i \in ids,
        corrected |-> IF corrections = <<>> THEN 0 ELSE Last(corrections).corrected,
        type |-> IF given = <<>> THEN "none" ELSE Last(given).type]

\* The rows of the optional database come after the log's.  It is not modelled: the same records.
merge_feedback_into_interactions(ids, fb) ==
    {Item(i, ids, fb) : i \in ids \cup {fb[n].id : n \in DOMAIN fb}}

Asked(m) == m.known /\ Interactions[m.id].query # 0
Answer(m) == IF m.corrected # 0 THEN m.corrected ELSE Interactions[m.id].response

build_intent_dataset(merged) ==
    {Row(m.id, <<Interactions[m.id].query>>, Interactions[m.id].label) :
        m \in {x \in merged : Asked(x) /\ Interactions[x.id].label # "other"}}

\* Corrected or praised, and with an answer.
build_llm_dataset(merged) ==
    {Row(m.id, <<Interactions[m.id].query, Answer(m)>>, "all") :
        m \in {x \in merged : /\ Asked(x)
                              /\ x.corrected # 0 \/ x.type = "positive"
                              /\ Answer(x) # 0}}

\* One row per chunk of the context.  The chunk with the answer is the positive one, else the first.
build_reranker_dataset(merged) ==
    LET Hit(m) == IF Answer(m) = 0 THEN 1
                  ELSE IF Interactions[m.id].hit[Answer(m)] = 0 THEN 1 ELSE Interactions[m.id].hit[Answer(m)]
    IN UNION {{Row(<<m.id, c>>, <<Interactions[m.id].query, Interactions[m.id].chunks[c]>>,
                   IF c = Hit(m) THEN "positive" ELSE "negative") :
                  c \in 1..Len(Interactions[m.id].chunks)} : m \in {x \in merged : Asked(x)}}

Build(kind, merged) ==
    CASE kind = "intent" -> build_intent_dataset(merged)
      [] kind = "llm" -> build_llm_dataset(merged)
      [] kind = "reranker" -> build_reranker_dataset(merged)

Keep(n) == (n * KEEP) \div 100
Pair(train, eval) == [train |-> train, eval |-> eval]

Shuffled(k, data) == CHOOSE T \in kSubset(k, data) : TRUE

_shuffle_split_plain(data) ==
    LET train == Shuffled(Max({1, Keep(Cardinality(data))}), data)
    IN IF Cardinality(data) < 2 THEN Pair(data, data) ELSE Pair(train, data \ train)

\* A group of one is kept for evaluation.
GroupKeep(n) == IF n >= 2 /\ Keep(n) >= n THEN n - 1 ELSE Keep(n)

\* Group by group; if nothing is left for evaluation, one row is moved there.
_shuffle_split_stratified(data) ==
    LET groups == {{r \in data : r.stratum = s} : s \in {r.stratum : r \in data}}
        train == UNION {Shuffled(GroupKeep(Cardinality(g)), g) : g \in groups}
        kept == IF train = data THEN Shuffled(Cardinality(data) - 1, data) ELSE train
    IN IF Cardinality(data) < 2 THEN Pair(data, data) ELSE Pair(kept, data \ kept)

\* Variant: the rows for evaluation are cut one before the training rows end.
split_dataset_overlap(data, kind) ==
    LET s == IF kind = "llm" THEN _shuffle_split_plain(data) ELSE _shuffle_split_stratified(data)
    IN [s EXCEPT !.eval = @ \cup Shuffled(Min({1, Cardinality(s.train)}), s.train)]

split_dataset(data, kind) ==
    IF kind = "llm" THEN _shuffle_split_plain(data) ELSE _shuffle_split_stratified(data)

_needs_fallback(s) == Cardinality(s.train) < MIN_SAMPLES \/ Cardinality(s.eval) < MIN_SAMPLES

\* export_datasets reads the logs once.
export_datasets ==
    /\ export.at = "idle" /\ exports < MaxExports
    /\ exports' = exports + 1
    /\ export' = [NoExport EXCEPT !.at = "split",
                                  !.merged = merge_feedback_into_interactions(logged,
                                                 read_jsonl_with_rotations(feedback))]
    /\ UNCHANGED <<logged, feedback, files, job, jobs>>

\* A dataset is built and split.  Too small, it gives way to the fixtures, or the script exits and
\* the files of the later kinds stay what they were.
export_split ==
    /\ export.at = "split"
    /\ LET kind == Kinds[export.kind]
           data == split_dataset(Build(kind, export.merged), kind)
           Write(s) == [export EXCEPT !.at = "train", !.train = s.train, !.eval = s.eval]
       IN export' = IF ~ _needs_fallback(data) THEN Write(data)
                    ELSE IF FALLBACK THEN Write(split_dataset(Fixtures[kind], kind))
                    ELSE NoExport
    /\ UNCHANGED <<logged, feedback, exports, files, job, jobs>>

_write_json(split) ==
    /\ export.at = split
    /\ files' = [files EXCEPT ![<<"export", Kinds[export.kind], split>>] =
                    [by |-> exports, rows |-> export[split]]]
    /\ export' = IF split = "train" THEN [export EXCEPT !.at = "eval"]
                 ELSE IF export.kind = Len(Kinds) THEN NoExport
                 ELSE [export EXCEPT !.at = "split", !.kind = @ + 1]
    /\ UNCHANGED <<logged, feedback, exports, job, jobs>>

\* The feedback directory: every chunk of an interaction marked good or bad is a pair.
collect_training_pairs ==
    UNION {{Row(<<i, c>>, <<Interactions[i].query, Interactions[i].chunks[c]>>, "pair") :
               c \in 1..Len(Interactions[i].chunks)} : i \in logged}

\* Fine-tuning from the feedback directory: the evaluation pairs are the first fifth of the pairs
\* trained on.  RerankerTrainer is called next, in the same process.
_fine_tune_with_lora ==
    /\ export.at = "idle" /\ exports < MaxExports
    /\ job.at = "idle" /\ Len(jobs) < MaxJobs
    /\ LET pairs == collect_training_pairs
           n == Cardinality(pairs)
       IN /\ pairs # {}
          /\ files' = [files EXCEPT
                ![<<"ft", "reranker", "train">>] = [by |-> exports + 1, rows |-> pairs],
                ![<<"ft", "reranker", "eval">>] = [by |-> exports + 1,
                                                   rows |-> Shuffled(Max({1, n \div 5}), pairs)]]
    /\ exports' = exports + 1
    /\ job' = [NoJob EXCEPT !.at = "train_file", !.kind = "reranker", !.dir = "ft", !.how = "lora"]
    /\ UNCHANGED <<logged, feedback, export, jobs>>

-----------------------------------------------------------------------------
(* The trainers *)

Ended(status, more) ==
    /\ jobs' = Append(jobs, [status |-> status, kind |-> job.kind, dir |-> job.dir, how |-> job.how,
                             done |-> more])
    /\ job' = NoJob

Fails == Ended("failed", Nothing)

\* Which trainer runs how: LoRA needs the libraries, and the reranker falls back to a full
\* fine-tuning without it.  The LLM trainer is a mock without a GPU or in a profile for the CPU.
Ways(kind) ==
    CASE kind = "intent" -> {"lora"}
      [] kind = "reranker" -> IF LIBS THEN {"lora", "full"} ELSE {"full"}
      [] kind = "llm" -> IF PROD /\ LIBS THEN {"gpu", "mock"} ELSE {"mock"}

train(kind) ==
    /\ job.at = "idle" /\ Len(jobs) < MaxJobs
    /\ \E how \in Ways(kind) :
          job' = [NoJob EXCEPT !.at = "train_file", !.kind = kind, !.dir = "export", !.how = how]
    /\ UNCHANGED <<logged, feedback, export, exports, files, jobs>>

Read(split) == files[<<job.dir, job.kind, split>>]

\* Libraries, the base model, the training file: each may be missing.
_load_dataset_train ==
    /\ job.at = "train_file"
    /\ \/ Fails
       \/ /\ LIBS \/ job.how = "mock"
          /\ Read("train").by > 0
          /\ job' = [job EXCEPT !.at = IF job.kind = "llm" THEN "fit" ELSE "eval_file",
                                !.train = Read("train")]
          /\ UNCHANGED jobs
    /\ UNCHANGED <<logged, feedback, export, exports, files>>

_load_dataset_eval ==
    /\ job.at = "eval_file"
    /\ \/ Fails
       \/ /\ Read("eval").by > 0
          /\ job' = [job EXCEPT !.at = "fit", !.eval = Read("eval")]
          /\ UNCHANGED jobs
    /\ UNCHANGED <<logged, feedback, export, exports, files>>

\* The metric of a full fine-tuning: the share of the queries that have a positive chunk, for the
\* pairs are ranked by their own labels.
_evaluate_from_pairs(rows) ==
    LET queries == {r.text[1] : r \in rows}
        found == {r.text[1] : r \in {x \in rows : x.stratum = "positive"}}
    IN IF queries = {} THEN 0 ELSE (100 * Cardinality(found)) \div Cardinality(queries)

\* Trainer.evaluate reports a loss only: accuracy, F1 and MRR default to 0.
_extract_metrics == 0

\* The job is marked completed and then saved; whatever raises makes it a failed one.
Fitted(more) == job' = [job EXCEPT !.at = "save", !.done = more]

save_adapter ==
    /\ job.at = "save"
    /\ Fails \/ Ended("completed", job.done)
    /\ UNCHANGED <<logged, feedback, export, exports, files>>

_train_lora ==
    /\ job.at = "fit" /\ job.how = "lora"
    /\ \/ Fails
       \/ /\ Fitted([trained |-> job.train.rows, measured |-> job.eval.rows,
                     torn |-> job.train.by # job.eval.by, metric |-> _extract_metrics])
          /\ UNCHANGED jobs
    /\ UNCHANGED <<logged, feedback, export, exports, files>>

\* Trained on both files, measured on one.
_train_full ==
    /\ job.at = "fit" /\ job.how = "full"
    /\ LET all == job.train.rows \cup job.eval.rows
           measured == IF job.eval.rows = {} THEN all ELSE job.eval.rows
       IN \/ Fails
          \/ Ended("completed", [trained |-> all, measured |-> measured,
                                 torn |-> job.train.by # job.eval.by,
                                 metric |-> _evaluate_from_pairs(measured)])
    /\ UNCHANGED <<logged, feedback, export, exports, files>>

\* Without an evaluation set Trainer.evaluate may raise.
_train_gpu ==
    /\ job.at = "fit" /\ job.how = "gpu"
    /\ \/ Fails
       \/ /\ job.train.rows # {}
          /\ Ended("completed", [Nothing EXCEPT !.trained = job.train.rows])
    /\ UNCHANGED <<logged, feedback, export, exports, files>>

\* Made-up metrics and an adapter without weights.
_train_mock ==
    /\ job.at = "fit" /\ job.how = "mock"
    /\ IF job.train.rows = {} THEN Fails
       ELSE Fitted([Nothing EXCEPT !.metric = 38]) /\ UNCHANGED jobs
    /\ UNCHANGED <<logged, feedback, export, exports, files>>

-----------------------------------------------------------------------------
Next ==
    \/ \E i \in DOMAIN Interactions : log_interaction(i)
    \/ \E r \in FeedbackChoices : log_feedback(r)
    \/ rotate
    \/ export_datasets \/ export_split
    \/ \E split \in Splits : _write_json(split)
    \/ _fine_tune_with_lora
    \/ \E kind \in Range(Kinds) : train(kind)
    \/ _load_dataset_train \/ _load_dataset_eval
    \/ _train_lora \/ _train_full \/ _train_gpu \/ _train_mock \/ save_adapter

Spec == Init /\ [][Next]_vars

-----------------------------------------------------------------------------
(* Properties *)

\* No record is on both sides: a LoRA job that completes on files of one export was measured on
\* records (an interaction, or a chunk of its context) none of which it was trained on, whatever
\* exports, fallbacks to the fixtures, feedback and jobs came between (export_training_datasets.py
\* splits; slm_trainer.py and reranker_trainer.py read the two files one after the other).  That is
\* less than unseen text: two interactions that asked the same make equal rows, nothing removes
\* duplicates (:263-280, :310-346), and the split may put one on each side.  Also left out: a single
\* row is put on both sides, which only --min-samples below 2 lets through; files of two exports;
\* _train_full and the fine-tuning of rerank.py, which measure what they train on.
HeldOut ==
    \A n \in DOMAIN jobs :
        LET j == jobs[n] IN
        (j.status = "completed" /\ j.how = "lora" /\ j.dir = "export" /\ ~j.done.torn /\ MIN_SAMPLES >= 2)
            => \A a \in j.done.trained, b \in j.done.measured : a.id # b.id
==============================================================================

------------------------------- MODULE Embedding -------------------------------
(***************************************************************************)
(* The clients of the embedding and reranking services: the ETL's          *)
(* RemoteEmbedder (etl/indexer/remote_embedder.py), and the proxy's        *)
(* RemoteEmbeddingClient and RemoteRerankerClient with the singletons that *)
(* hold them (proxy/app/llm/remote_services.py).                           *)
(*                                                                         *)
(* A call is cut into batches; a batch is one request, tried again as long *)
(* as attempts are left.  The service answers with indexed entries in any  *)
(* order, and may leave some out.  A vector is known by the text it is the *)
(* vector of, a score by its pair.                                         *)
(***************************************************************************)
EXTENDS Naturals, Sequences, SequencesExt, FiniteSets, TLC

CONSTANTS Inputs,         \* sequences of texts to encode
          Pairs,          \* sequences of <<query, document>> to score
          Longer,         \* texts longer than the model's limit allows, known by the model's name
          BATCH,          \* max_batch_size
          ATTEMPTS,       \* retry_config.max_attempts
          SEMAPHORE,      \* permits of the semaphore given to encode_async
          EMBEDDER_ENDPOINT, RERANKER_ENDPOINT,              \* BOOLEAN: they are set
          EMBEDDER_FALLBACK_LOCAL, RERANKER_FALLBACK_LOCAL,  \* BOOLEAN
          LOCAL_MODELS,   \* BOOLEAN: sentence-transformers and a model name are there
          MaxCalls        \* bound: calls

VARIABLES instance,  \* "embedder" and "reranker" -> "none", "remote", "local"
          healthy,   \* client -> _healthy
          detected,  \* _max_tokens_detected
          call,      \* the call under way
          returned   \* what calls have returned

vars == <<instance, healthy, detected, call, returned>>

Idle == [mode |-> "idle"]
Clients == {"etl", "embedder", "reranker"}

Init ==
    /\ instance = [s \in {"embedder", "reranker"} |-> "none"]
    /\ healthy = [c \in Clients |-> TRUE]
    /\ detected = FALSE
    /\ call = Idle
    /\ returned = <<>>

-----------------------------------------------------------------------------
(* Singletons *)

\* The model list is asked for, and then a test embedding; only both failures make it unhealthy.
_check_health == {"models", "test", "unreachable"}

create(s, endpoint, fallback) ==
    /\ instance[s] = "none"
    /\ \/ /\ endpoint
          /\ \E probe \in _check_health \ {"unreachable"} :
                instance' = [instance EXCEPT ![s] = "remote"]
       \/ /\ ~ endpoint \/ fallback
          /\ LOCAL_MODELS
          /\ instance' = [instance EXCEPT ![s] = "local"]
    /\ healthy' = [healthy EXCEPT ![s] = TRUE]
    /\ UNCHANGED <<detected, call, returned>>

create_embedder == create("embedder", EMBEDDER_ENDPOINT, EMBEDDER_FALLBACK_LOCAL)
create_reranker == create("reranker", RERANKER_ENDPOINT, RERANKER_FALLBACK_LOCAL)

-----------------------------------------------------------------------------
(* Requests *)

Todo(ps) == [ps |-> ps, attempt |-> 0, at |-> "todo", got |-> <<>>]

\* range(0, n, max_batch_size): positions of the input.
BatchesOf(n) ==
    [b \in 1..((n + BATCH - 1) \div BATCH) |->
        Todo([i \in 1..(IF b * BATCH <= n THEN BATCH ELSE n - (b - 1) * BATCH) |-> (b - 1) * BATCH + i])]

\* One request per distinct query, in the order the queries come up.
query_to_indices(pairs) ==
    LET firsts == SelectSeq([i \in 1..Len(pairs) |-> i],
                            LAMBDA i : \A j \in 1..(i - 1) : pairs[j][1] # pairs[i][1])
    IN [g \in DOMAIN firsts |->
           Todo(SelectSeq([i \in 1..Len(pairs) |-> i],
                          LAMBDA i : pairs[i][1] = pairs[firsts[g]][1]))]

\* A text is cut at the limit the client knows: the default until it has encoded once.  encode_async
\* does not cut.
Cut(t, mode) == t \in Longer /\ detected /\ mode # "async"

\* What a complete or a shortened answer holds: entries in any order.
Answers(ps) ==
    LET Entry(i) == [index |-> i, of |-> ps[i]] IN
    UNION {SetToSeqs({Entry(i) : i \in I}) : I \in SUBSET DOMAIN ps}

\* Variant: the entries are taken in the order they came.
sorted_arrival(answer) == answer

\* sorted(data, key=index)
sorted_by_index(answer) == SortSeq(answer, LAMBDA a, b : a.index < b.index)

Begin(mode, input, batches) ==
    /\ call.mode = "idle" /\ Len(returned) < MaxCalls
    /\ call' = [mode |-> mode, input |-> input, batches |-> batches, short |-> FALSE]
    /\ UNCHANGED <<instance, healthy, detected, returned>>

encode(input) == Begin("sync", input, BatchesOf(Len(input)))
encode_async(input) == Begin("async", input, BatchesOf(Len(input)))
encode_batch(input) == Begin("batch", input, <<Todo([i \in 1..Len(input) |-> i])>>)
encode_remote(input) ==
    /\ instance["embedder"] = "remote"
    /\ Begin("embedder", input, <<Todo([i \in 1..Len(input) |-> i])>>)
predict(pairs) ==
    /\ instance["reranker"] = "remote"
    /\ Begin("reranker", pairs, query_to_indices(pairs))

\* One after the other, or as many at once as the semaphore lets.
Due(b) ==
    /\ call.batches[b].at = "todo"
    /\ call.mode = "async" \/ \A a \in 1..(b - 1) : call.batches[a].at = "done"

post(b) ==
    /\ call.mode # "idle" /\ b \in DOMAIN call.batches
    /\ Due(b)
    /\ Cardinality({a \in DOMAIN call.batches : call.batches[a].at = "sent"}) < SEMAPHORE
    /\ call' = [call EXCEPT !.batches[b].at = "sent", !.batches[b].attempt = @ + 1]
    /\ UNCHANGED <<instance, healthy, detected, returned>>

_call_api_sync(b, answer) ==
    /\ call' = [call EXCEPT !.batches[b].at = "done",
                            !.batches[b].got = IF call.mode = "reranker" THEN answer
                                               ELSE sorted_by_index(answer),
                            !.short = @ \/ Len(answer) < Len(call.batches[b].ps)]
    /\ UNCHANGED <<instance, healthy, detected, returned>>

\* The proxy's clients try once; encode_batch leaves _healthy alone.
Tries == IF call.mode \in {"embedder", "reranker"} THEN 1 ELSE ATTEMPTS
Client == IF call.mode \in {"embedder", "reranker"} THEN call.mode ELSE "etl"
Raise ==
    /\ healthy' = IF call.mode = "batch" THEN healthy ELSE [healthy EXCEPT ![Client] = FALSE]
    /\ call' = Idle
    /\ UNCHANGED <<instance, detected, returned>>

\* Whatever is raised is retried.  A sequential call raises at once; encode_async waits for the rest.
_call_api_with_retry(b) ==
    IF call.batches[b].attempt < Tries
    THEN /\ call' = [call EXCEPT !.batches[b].at = "todo"]
         /\ UNCHANGED <<instance, healthy, detected, returned>>
    ELSE IF call.mode = "async"
    THEN /\ call' = [call EXCEPT !.batches[b].at = "failed"]
         /\ UNCHANGED <<instance, healthy, detected, returned>>
    ELSE Raise

reply(b) ==
    /\ call.mode # "idle" /\ b \in DOMAIN call.batches
    /\ call.batches[b].at = "sent"
    /\ \/ \E answer \in Answers(call.batches[b].ps) : _call_api_sync(b, answer)
       \/ _call_api_with_retry(b)

-----------------------------------------------------------------------------
(* What a call returns *)

\* The batches' vectors one after the other, in the order of the batches.
Vectors ==
    FlattenSeq([b \in DOMAIN call.batches |->
        [e \in DOMAIN call.batches[b].got |->
            [of |-> call.input[call.batches[b].got[e].of],
             cut |-> Cut(call.input[call.batches[b].got[e].of], call.mode)]]])

\* scores[indices[index]]; a pair the service left out keeps its 0.
NoScore == [of |-> <<>>, cut |-> FALSE]
Scores ==
    [i \in DOMAIN call.input |->
        LET given == {e \in UNION {Range(call.batches[b].got) : b \in DOMAIN call.batches} : e.of = i}
        IN IF given = {} THEN NoScore ELSE [of |-> call.input[i], cut |-> FALSE]]

Settled == \A b \in DOMAIN call.batches : call.batches[b].at \in {"done", "failed"}

return ==
    /\ call.mode # "idle" /\ Settled
    /\ IF \E b \in DOMAIN call.batches : call.batches[b].at = "failed" THEN Raise
       ELSE /\ returned' = Append(returned, [mode |-> call.mode, input |-> call.input, short |-> call.short,
                                             vecs |-> IF call.mode = "reranker" THEN Scores ELSE Vectors])
            /\ detected' = (detected \/ call.mode \in {"sync", "async", "batch"})
            /\ call' = Idle
            /\ UNCHANGED <<instance, healthy>>

-----------------------------------------------------------------------------
Next ==
    \/ create_embedder \/ create_reranker
    \/ \E input \in Inputs :
          \/ encode(input) \/ encode_async(input) \/ encode_batch(input) \/ encode_remote(input)
    \/ \E pairs \in Pairs : predict(pairs)
    \/ call.mode # "idle" /\ \E b \in DOMAIN call.batches : post(b) \/ reply(b)
    \/ return

Spec == Init /\ [][Next]_vars

-----------------------------------------------------------------------------
(* Properties *)

\* Vectors and scores stay with what they are of: whatever order entries, batches and retries come
\* in, position i of what a call returns is about position i of its input (remote_embedder.py sorts
\* the entries and joins the batches; remote_services.py writes a score where its pair was).  An
\* answer that leaves a text out shifts the vectors after it, so an embedding call with a short
\* answer is excepted; a score that is missing is 0 and shifts nothing.
InPlace ==
    \A n \in DOMAIN returned :
        LET r == returned[n] IN
        (r.mode = "reranker" \/ ~ r.short) =>
            /\ Len(r.vecs) = Len(r.input)
            /\ \A i \in DOMAIN r.input : (r.mode = "reranker" /\ r.vecs[i] = NoScore) \/ r.vecs[i].of = r.input[i]
==============================================================================

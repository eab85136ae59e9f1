---------------------------- MODULE ChatService ----------------------------
(***************************************************************************)
(* The chat completions API of the proxy (proxy/app/api/chat.py) with the  *)
(* pipeline behind it (process_rag_query in main.py), its two response     *)
(* caches (shared/cache.py), the conversation store                        *)
(* (shared/memory_manager.py) and the request tracker (shared/audit.py).   *)
(* Requests are coroutines of one event loop: a step ends where the code   *)
(* awaits.  A text is the request it was generated for, and whether at     *)
(* least two strong sources were in its prompt.                            *)
(***************************************************************************)
EXTENDS Naturals, Sequences, FiniteSets, SequencesExt

CONSTANTS
  Configurations,    \* the settings to start with, see Init
  NRequests,         \* bound: requests are 1..NRequests, in order of arrival
  Asks,              \* what clients send: session, question, mode, refresh
  NSessions,         \* sessions are 1..NSessions, in the order of their names
  Anonymous,         \* the sessions of clients without a login
  Questions, Alike,  \* user messages, and the pairs the embedder finds similar
  SummaryThreshold,  \* CONVERSATION_SUMMARY_THRESHOLD_TOKENS, a turn being one token
  KeepRecent,        \* CONVERSATION_MAX_TURNS // 2
  MaxTurns,          \* max_turns_stored, 100 in the code
  MaxStore,          \* _store_max_entries, 1000 in the code
  BucketSize,        \* _SEMANTIC_CACHE_BUCKET_SIZE, 50 in the code
  MaxFaults,         \* bound on failing calls, lost clients and clock jumps
  NoText

ASSUME LimitsAssumption ==
  /\ NRequests \in Nat /\ NSessions \in Nat \ {0} /\ Questions # {}
  /\ SummaryThreshold \in Nat /\ KeepRecent \in Nat \ {0}
  /\ MaxTurns \in Nat \ {0} /\ MaxStore \in Nat \ {0}
  /\ BucketSize \in Nat \ {0} /\ MaxFaults \in Nat
ASSUME InputsAssumption ==
  /\ Configurations \subseteq [semantic : BOOLEAN, ungrounded : BOOLEAN,
                               graph : BOOLEAN, retriever : BOOLEAN]
  /\ Asks \subseteq [session : 1..NSessions, question : Questions, refresh : BOOLEAN,
                     mode : {"plain", "stream", "skip", "pass"}]
ASSUME AlikeAssumption == \A q \in Questions : <<q, q>> \in Alike

VARIABLES
  settings,  \* what the configuration and start-up decided
  pc,        \* per request, where its coroutine is
  job,       \* per request, its locals
  reply,     \* per request, what its client has got
  active,    \* RequestTracker._active
  heap,      \* the ConversationMemory objects ever created
  store,     \* _conversation_store: per session its object, 0 if none
  stale,     \* sessions created more than SESSION_TTL ago
  cache,     \* CacheManager: pairs of rag: key and text
  entries,   \* sem_cache:entry: pairs of query and text
  bucket,    \* sem_cache:bucket: the listed entries, newest first
  stopping,  \* shutdown: "no", "signalled", "cancelled"
  faults,    \* bound
  generated  \* history: the answers generated, with user, question and context

memVars   == <<heap, store, stale>>
cacheVars == <<cache, entries, bucket>>
vars == <<settings, pc, job, reply, active, memVars, cacheVars, stopping,
          faults, generated>>

Requests == 1..NRequests
Sessions == 1..NSessions
Modes == {"plain", "stream", "skip", "pass"}
Similar(p, q) == <<p, q>> \in Alike

\* cache_key and query: the conversation is part of the (enriched) question.
UserOf(s) == IF s \in Anonymous THEN 0 ELSE s
Topic(j) == [user |-> UserOf(j.session), question |-> j.question, ctx |-> j.ctx]
\* Variant: the key leaves out the user.
rag_key_shared(j) == [question |-> j.question, ctx |-> j.ctx]
rag_key(j) == Topic(j)
_entry_key(j) == [question |-> j.question, ctx |-> j.ctx]

NoReply == [status |-> "none", text |-> NoText, notice |-> FALSE]
Idle == [session |-> 1, question |-> CHOOSE q \in Questions : TRUE, ctx |-> <<>>,
         mode |-> "plain", refresh |-> FALSE, conv |-> 0, src |-> "absent",
         text |-> NoText, listed |-> <<>>]

Fails == faults < MaxFaults /\ faults' = faults + 1

\* A dict keyed by strings, as a set of pairs.
Put(d, k, v) == {e \in d : e[1] # k} \cup {<<k, v>>}
Find(d, k) == {e[2] : e \in {x \in d : x[1] = k}}

\* lifespan: the response caches, the retriever (whose failure is not retried
\* on this path) and the agentic graph, or their absence, are fixed at start-up.
Init ==
  /\ settings \in Configurations
  /\ pc = [r \in Requests |-> "new"]
  /\ job = [r \in Requests |-> Idle]
  /\ reply = [r \in Requests |-> NoReply]
  /\ active = {}
  /\ heap = <<>> /\ store = [s \in Sessions |-> 0] /\ stale = {}
  /\ cache = {} /\ entries = {} /\ bucket = <<>>
  /\ stopping = "no" /\ faults = 0 /\ generated = {}

-----------------------------------------------------------------------------
(* Conversation memory.                                                    *)

ConversationMemory == [turns |-> <<>>, total |-> 0, summaries |-> 0]

Turn(role, r, content) == [role |-> role, req |-> r, content |-> content]

\* Variant: a turn that repeats a stored one is not added.
add_turn_distinct(m, t) ==
  IF \E i \in DOMAIN m.turns : m.turns[i].content = t.content THEN m
  ELSE [m EXCEPT !.turns = Append(@, t), !.total = @ + 1]

add_turn(m, t) ==
  LET ts == Append(m.turns, t)
  IN  [m EXCEPT !.turns = SubSeq(ts, IF Len(ts) > MaxTurns THEN Len(ts) - MaxTurns + 1 ELSE 1,
                                 Len(ts)),
                !.total = @ + 1]

needs_summarization(m) == m.total + m.summaries > SummaryThreshold

summarize_older_turns(m) ==
  IF Len(m.turns) <= KeepRecent THEN m
  ELSE [turns |-> SubSeq(m.turns, Len(m.turns) - KeepRecent + 1, Len(m.turns)),
        total |-> KeepRecent,
        summaries |-> IF m.summaries < 3 THEN m.summaries + 1 ELSE 3]

Summarized(m) == IF needs_summarization(m) THEN summarize_older_turns(m) ELSE m

\* Both turns of a finished request.
Said(m, r, text) ==
  add_turn(add_turn(m, Turn("user", r, job[r].question)), Turn("assistant", r, text))

\* What enrich_query_with_context adds to a question: the last two turns.
enrich_query_with_context(m) ==
  [i \in 1..(IF Len(m.turns) < 2 THEN Len(m.turns) ELSE 2) |->
     m.turns[Len(m.turns) - i + 1].content]

\* Sessions are dropped in the order of their names, the new one included.
_prune_store(st) ==
  LET keys == SetToSortSeq({s \in Sessions : st[s] # 0}, <)
  IN  IF Len(keys) <= MaxStore THEN st
      ELSE [s \in Sessions |->
              IF \E i \in 1..(Len(keys) - MaxStore \div 2) : keys[i] = s THEN 0 ELSE st[s]]

\* get_conversation and the query it enriches; conv = 0 stands for a KeyError.
get_conversation(r, j) ==
  IF store[j.session] # 0 /\ j.session \notin stale
  THEN /\ job' = [job EXCEPT ![r] = [j EXCEPT !.conv = store[j.session],
                   !.ctx = enrich_query_with_context(heap[store[j.session]])]]
       /\ UNCHANGED memVars
  ELSE /\ heap' = Append(heap, ConversationMemory)
       /\ stale' = stale \ {j.session}
       /\ store' = _prune_store([store EXCEPT ![j.session] = Len(heap) + 1])
       /\ job' = [job EXCEPT ![r] = [j EXCEPT !.conv = store'[j.session]]]

\* Time passes: the session's creation is now SESSION_TTL ago.
Age(s) ==
  /\ store[s] # 0 /\ s \notin stale
  /\ Fails
  /\ stale' = stale \cup {s}
  /\ UNCHANGED <<settings, pc, job, reply, active, heap, store, cacheVars, stopping,
                 generated>>

prune_expired_sessions ==
  /\ stale # {}
  /\ store' = [s \in Sessions |-> IF s \in stale THEN 0 ELSE store[s]]
  /\ stale' = {}
  /\ UNCHANGED <<settings, pc, job, reply, active, heap, cacheVars, stopping, faults,
                 generated>>
-----------------------------------------------------------------------------
(* chat_completions up to its first await.                                 *)

End(r, status, text, notice) ==
  /\ pc' = [pc EXCEPT ![r] = "done"]
  /\ reply' = [reply EXCEPT ![r] = [status |-> status, text |-> text, notice |-> notice]]

Goto(r, p) == pc' = [pc EXCEPT ![r] = p] /\ UNCHANGED reply

\* Ids are given on arrival.
generate_request_id(r) == pc[r] = "new" /\ \A o \in 1..(r - 1) : pc[o] # "new"

\* 400: no user message, or no model name.
reject(r) ==
  /\ generate_request_id(r) /\ stopping # "cancelled"
  /\ Fails
  /\ End(r, "failed", NoText, FALSE)
  /\ UNCHANGED <<settings, job, active, memVars, cacheVars, stopping, generated>>

\* Everything but a stream of the plain pipeline starts within the handler.
chat_completions(r, a) ==
  LET m == a.mode
      j == [Idle EXCEPT !.session = a.session, !.question = a.question, !.mode = m,
                        !.refresh = a.refresh]
      converses == m = "plain" /\ ~settings.graph
  IN  /\ generate_request_id(r) /\ stopping # "cancelled"
      /\ active' = active \cup {r}
      /\ IF converses THEN get_conversation(r, j)
         ELSE job' = [job EXCEPT ![r] = j] /\ UNCHANGED memVars
      /\ IF converses /\ job'[r].conv = 0 THEN End(r, "failed", NoText, FALSE)
         ELSE Goto(r, CASE m = "pass" -> "pass"
                        [] m \in {"plain", "stream"} /\ settings.graph -> "graph"
                        [] m = "stream" /\ ~settings.graph -> "open"
                        [] OTHER -> "semantic_get")
      /\ UNCHANGED <<settings, cacheVars, stopping, faults, generated>>

\* The generator of a streamed response starts after the handler returned it.
event_generator(r) ==
  /\ pc[r] = "open"
  /\ get_conversation(r, job[r])
  /\ IF job'[r].conv = 0 THEN End(r, "failed", NoText, FALSE) ELSE Goto(r, "semantic_get")
  /\ UNCHANGED <<settings, active, cacheVars, stopping, faults, generated>>

-----------------------------------------------------------------------------
(* process_rag_query.                                                      *)

Text(r, strong) == [by |-> r, kind |-> IF strong THEN "grounded" ELSE "bare"]
Made(r) == generated \cup {[topic |-> Topic(job[r]), by |-> r]}

\* A cache hit gives the text and no sources and no messages.
Hit(r, text) ==
  /\ job' = [job EXCEPT ![r].text = text, ![r].src = "absent"]
  /\ Goto(r, "resume")

\* The bucket and its entries; whether two contexts are similar is left open.
SemanticCache_get(r) ==
  /\ pc[r] = "semantic_get"
  /\ \/ /\ settings.semantic /\ ~job[r].refresh
        /\ \E k \in ToSet(bucket) :
             /\ Similar(k.question, job[r].question)
             /\ \E t \in Find(entries, k) : Hit(r, t)
     \/ Goto(r, "get") /\ UNCHANGED job
  /\ UNCHANGED <<settings, active, memVars, cacheVars, stopping, faults, generated>>

\* Variant: a miss waits for the request that already works on the same key.
cache_get_coalesced(r) ==
  /\ pc[r] = "get"
  /\ \A o \in active \ {r} : rag_key(job[o]) # rag_key(job[r])
  /\ Goto(r, "retrieve")
  /\ UNCHANGED <<settings, job, active, memVars, cacheVars, stopping, faults, generated>>

cache_get(r) ==
  /\ pc[r] = "get"
  /\ LET found == IF job[r].refresh THEN {} ELSE Find(cache, rag_key(job[r]))
     IN  \/ found = {} /\ Goto(r, "retrieve") /\ UNCHANGED job
         \/ \E t \in found : Hit(r, t)
  /\ UNCHANGED <<settings, active, memVars, cacheVars, stopping, faults, generated>>

\* Adaptive routing: a greeting is answered without retrieval.
route_direct(r) ==
  /\ pc[r] = "retrieve"
  /\ Goto(r, "direct")
  /\ UNCHANGED <<settings, job, active, memVars, cacheVars, stopping, faults, generated>>

answer_direct(r) ==
  /\ pc[r] = "direct"
  /\ job' = [job EXCEPT ![r].text = Text(r, FALSE), ![r].src = "absent"]
  /\ generated' = Made(r)
  /\ Goto(r, "resume")
  /\ UNCHANGED <<settings, active, memVars, cacheVars, stopping, faults>>

\* Search, access filter, reranking, deduplication and prompt, in one go: no
\* sources, some, or at least two strong ones.  A retriever that could not be
\* set up, an open breaker and any error give no sources.
retrieve(r) ==
  /\ pc[r] = "retrieve"
  /\ \E src \in {"absent", "weak", "strong"} :
       /\ ~settings.retriever => src = "absent"
       /\ job' = [job EXCEPT ![r].src = src]
  /\ Goto(r, IF job[r].mode = "plain" THEN "generate" ELSE "resume")
  /\ UNCHANGED <<settings, active, memVars, cacheVars, stopping, faults, generated>>

\* A failing LLM is answered with an apology, which is treated like an answer.
generate(r) ==
  /\ pc[r] = "generate"
  /\ \/ job' = [job EXCEPT ![r].text = Text(r, job[r].src = "strong")] /\ UNCHANGED faults
     \/ job' = [job EXCEPT ![r].text = [by |-> r, kind |-> "apology"]] /\ Fails
  /\ generated' = Made(r)
  /\ Goto(r, "set")
  /\ UNCHANGED <<settings, active, memVars, cacheVars, stopping>>

cache_set(r) ==
  /\ pc[r] = "set"
  /\ cache' = IF job[r].refresh THEN cache ELSE Put(cache, rag_key(job[r]), job[r].text)
  /\ Goto(r, IF settings.semantic /\ ~job[r].refresh THEN "semantic_set" ELSE "resume")
  /\ UNCHANGED <<settings, job, active, memVars, entries, bucket, stopping, faults, generated>>

SemanticCache_set(r) ==
  /\ pc[r] = "semantic_set"
  /\ entries' = Put(entries, _entry_key(job[r]), job[r].text)
  /\ Goto(r, "bucket_get")
  /\ UNCHANGED <<settings, job, active, memVars, cache, bucket, stopping, faults, generated>>

bucket_get(r) ==
  /\ pc[r] = "bucket_get"
  /\ job' = [job EXCEPT ![r].listed = bucket]
  /\ Goto(r, "bucket_set")
  /\ UNCHANGED <<settings, active, memVars, cacheVars, stopping, faults, generated>>

bucket_set(r) ==
  LET k == _entry_key(job[r])
      ks == <<k>> \o job[r].listed
  IN  /\ pc[r] = "bucket_set"
      /\ bucket' = IF k \in ToSet(job[r].listed) THEN bucket
                   ELSE SubSeq(ks, 1, IF Len(ks) > BucketSize THEN BucketSize ELSE Len(ks))
      /\ Goto(r, "resume")
      /\ UNCHANGED <<settings, job, active, memVars, cache, entries, stopping, faults, generated>>

\* An entry or a response reaches its time to live.
CacheExpires ==
  /\ Fails
  /\ \/ \E e \in cache : cache' = cache \ {e} /\ UNCHANGED <<entries, bucket>>
     \/ \E e \in entries : entries' = entries \ {e} /\ UNCHANGED <<cache, bucket>>
     \/ bucket # <<>> /\ bucket' = <<>> /\ UNCHANGED <<cache, entries>>
  /\ UNCHANGED <<settings, pc, job, reply, active, memVars, stopping, generated>>

-----------------------------------------------------------------------------
(* What the handler does with the pipeline's result.                       *)

\* The notice is prepended when there are no sources.
finish_plain(r) ==
  LET c == job[r].conv
  IN  /\ pc[r] = "resume" /\ job[r].mode = "plain"
      /\ heap' = [heap EXCEPT ![c] = Said(Summarized(@), r, job[r].text)]
      /\ active' = active \ {r}
      /\ Goto(r, "log")
      /\ UNCHANGED <<settings, job, store, stale, cacheVars, stopping, faults, generated>>

\* log_interaction writes to a file, then the response is returned.
respond(r) ==
  /\ pc[r] = "log"
  /\ End(r, "answered", job[r].text, job[r].conv # 0 /\ job[r].src = "absent")
  /\ UNCHANGED <<settings, job, active, memVars, cacheVars, stopping, faults, generated>>

\* rag_skip_generation: only the sources are returned.
finish_skip(r) ==
  /\ pc[r] = "resume" /\ job[r].mode = "skip"
  /\ End(r, "listed", NoText, FALSE)
  /\ active' = active \ {r}
  /\ UNCHANGED <<settings, job, memVars, cacheVars, stopping, faults, generated>>

\* A cached or direct answer comes without messages: it is streamed as a refusal,
\* or generated anew without context where that is allowed.
resume_stream(r) ==
  LET c == job[r].conv
      refused == job[r].text # NoText /\ ~settings.ungrounded
  IN  /\ pc[r] = "resume" /\ job[r].mode = "stream"
      /\ heap' = [heap EXCEPT ![c] = IF refused THEN Said(Summarized(@), r, job[r].text)
                                     ELSE Summarized(@)]
      /\ IF refused THEN End(r, "refused", job[r].text, FALSE) ELSE Goto(r, "chunks")
      /\ UNCHANGED <<settings, job, active, store, stale, cacheVars, stopping, faults,
                     generated>>

stream_completion(r) ==
  /\ pc[r] = "chunks"
  /\ LET text == Text(r, job[r].src = "strong")
     IN  /\ heap' = [heap EXCEPT ![job[r].conv] = Said(@, r, text)]
         /\ End(r, "answered", text, FALSE)
  /\ generated' = Made(r)
  /\ active' = active \ {r}
  /\ UNCHANGED <<settings, job, store, stale, cacheVars, stopping, faults>>

\* No RAG: straight to the LLM, and the tracker is not told of the end.
passthrough(r) ==
  /\ pc[r] = "pass"
  /\ End(r, "answered", Text(r, FALSE), FALSE)
  /\ generated' = Made(r)
  /\ UNCHANGED <<settings, job, active, memVars, cacheVars, stopping, faults>>

\* The agentic graph; a StreamingResponse over its result dict sends its keys.
orchestrator_ainvoke(r) ==
  /\ pc[r] = "graph"
  /\ IF job[r].mode = "stream"
     THEN End(r, "garbled", NoText, FALSE) /\ UNCHANGED <<job, active, generated>>
     ELSE /\ \E strong \in BOOLEAN : job' = [job EXCEPT ![r].text = Text(r, strong)]
          /\ generated' = Made(r)
          /\ active' = active \ {r}
          /\ Goto(r, "log")
  /\ UNCHANGED <<settings, memVars, cacheVars, stopping, faults>>

\* An error of Redis or the LLM, or a lost client: a 500, a 503, an error event
\* or nothing at all.  Only the retrieval and the generation catch their own.
Fallible == {"semantic_get", "get", "direct", "set", "semantic_set", "bucket_get",
             "bucket_set", "pass", "graph", "chunks", "log"}
rag_unavailable(r) ==
  /\ pc[r] \in Fallible
  /\ Fails
  /\ End(r, "failed", NoText, FALSE)
  /\ UNCHANGED <<settings, job, active, memVars, cacheVars, stopping, generated>>
-----------------------------------------------------------------------------
(* Shutdown: nothing fills _active_requests, so nothing is waited for.     *)

_initiate_shutdown ==
  /\ stopping = "no"
  /\ stopping' = "signalled"
  /\ UNCHANGED <<settings, pc, job, reply, active, memVars, cacheVars, faults, generated>>

cancel_all ==
  /\ stopping = "signalled"
  /\ stopping' = "cancelled"
  /\ pc' = [r \in Requests |-> IF pc[r] = "new" THEN "new" ELSE "done"]
  /\ reply' = [r \in Requests |-> IF pc[r] \in {"new", "done"} THEN reply[r]
                                  ELSE [NoReply EXCEPT !.status = "failed"]]
  /\ UNCHANGED <<settings, job, active, memVars, cacheVars, faults, generated>>

Arrives(r) ==
  \/ \E a \in Asks : chat_completions(r, a)
  \/ reject(r)

Runs(r) ==
  \/ event_generator(r) \/ SemanticCache_get(r) \/ cache_get(r)
  \/ route_direct(r) \/ answer_direct(r) \/ retrieve(r) \/ generate(r)
  \/ cache_set(r) \/ SemanticCache_set(r) \/ bucket_get(r) \/ bucket_set(r)
  \/ finish_plain(r) \/ respond(r) \/ finish_skip(r) \/ resume_stream(r)
  \/ stream_completion(r) \/ passthrough(r) \/ orchestrator_ainvoke(r)

Next ==
  \/ \E r \in Requests : Arrives(r) \/ Runs(r) \/ rag_unavailable(r)
  \/ \E s \in Sessions : Age(s)
  \/ prune_expired_sessions
  \/ CacheExpires
  \/ _initiate_shutdown
  \/ cancel_all

\* The event loop runs every coroutine that can go on; awaited calls end.
Fairness == \A r \in Requests : WF_vars(Runs(r))

Spec == Init /\ [][Next]_vars /\ Fairness
-----------------------------------------------------------------------------
\* Every variable has its shape, and a request refers to an existing conversation.
TypeOK ==
  /\ \A r \in Requests :
       /\ pc[r] \in {"new", "done", "open", "retrieve", "generate", "resume"} \cup Fallible
       /\ job[r].mode \in Modes /\ job[r].session \in Sessions
       /\ job[r].conv \in 0..Len(heap) /\ Len(job[r].ctx) <= 2
       /\ reply[r].status \in {"none", "answered", "listed", "refused", "garbled", "failed"}
  /\ active \subseteq Requests
  /\ store \in [Sessions -> 0..Len(heap)]
  /\ Len(bucket) <= BucketSize
  /\ faults \in 0..MaxFaults

\* Concurrent requests of one session share its conversation: an answer always
\* follows the question it answers, whatever was summarised or cut in between.
AnswersFollowQuestions ==
  \A c \in DOMAIN heap : LET ts == heap[c].turns IN
    \A i \in 2..Len(ts) : ts[i].role = "assistant" =>
      ts[i - 1].role = "user" /\ ts[i - 1].req = ts[i].req

Started(r) == pc[r] \notin {"new", "open"}

\* The service implements what it promises its clients: an answer, from the model
\* or from a cache, belongs to a request like the one it is given to.
A == INSTANCE AnswerService WITH
  semantic <- settings.semantic,
  topic <- [r \in Requests |-> Topic(IF Started(r) THEN job[r] ELSE Idle)],
  phase <- [r \in Requests |-> IF pc[r] = "done" THEN "closed"
                               ELSE IF Started(r) THEN "open" ELSE "idle"],
  given <- [r \in Requests |-> reply[r].text],
  known <- generated
ImplementsAnswers == A!Spec

\* Every request the handler has begun is ended: by an answer, an error or a
\* cancellation, whatever fails.
EveryRequestEnds == \A r \in Requests : pc[r] # "new" ~> pc[r] = "done"
=============================================================================

------------------------- MODULE ChatServiceProofs -------------------------
(***************************************************************************)
(* Proofs about ChatService, for any number of requests, sessions and      *)
(* failures, and any settings and limits: it implements AnswerService, and *)
(* conversations keep question and answer together.                        *)
(***************************************************************************)
EXTENDS ChatService, SequenceTheorems, TLAPS

-----------------------------------------------------------------------------
(* Types *)

Labels == {"new", "done", "open", "retrieve", "generate", "resume"} \cup Fallible

Texts    == {NoText} \cup [by : Requests, kind : {"grounded", "bare", "apology"}]
Contents == Questions \cup Texts
Contexts == Seq(Contents)
Keys     == [question : Questions, ctx : Contexts]
Listings == Seq(Keys)
Jobs     == [session : Sessions, question : Questions, ctx : Contexts, mode : Modes,
             refresh : BOOLEAN, conv : Nat, src : {"absent", "weak", "strong"},
             text : Texts, listed : Listings]
Turns    == [role : {"user", "assistant"}, req : Requests, content : Contents]
Dialogs  == Seq(Turns)
Memories == [turns : Dialogs, total : Nat, summaries : Nat]
Replies  == [status : {"none", "answered", "listed", "refused", "garbled", "failed"},
             text : Texts, notice : BOOLEAN]

Typed ==
  /\ settings \in Configurations
  /\ pc \in [Requests -> Labels] /\ job \in [Requests -> Jobs]
  /\ reply \in [Requests -> Replies]
  /\ heap \in Seq(Memories) /\ store \in [Sessions -> 0..Len(heap)]
  /\ bucket \in Listings
  /\ \A e \in cache \cup entries : e[2] \in Texts

-----------------------------------------------------------------------------
(* The inductive invariant of the refinement *)

\* Among the answers in G is one to a request on topic t, or a matching one.
Vouched(G, text, t) == \E k \in G : k.by = text.by /\ A!Matches(k.topic, t)

\* The text a request holds is vouched for: its own was generated for it, a
\* cached one for the request that stored it.
Justified ==
  /\ \A r \in Requests :
       /\ job[r].text = NoText \/ Vouched(generated, job[r].text, Topic(job[r]))
       /\ pc[r] \in {"new", "open"} => job[r].text = NoText
       /\ pc[r] \in {"set", "semantic_set"} =>
            [topic |-> Topic(job[r]), by |-> job[r].text.by] \in generated
  /\ \A e \in cache : [topic |-> e[1], by |-> e[2].by] \in generated
  /\ \A e \in entries : \E k \in generated : k.by = e[2].by /\ k.topic.question = e[1].question

-----------------------------------------------------------------------------
(* Operators *)

LEMMA IdleJob == Idle \in Jobs /\ Idle.text = NoText
<1>1. <<>> \in Contexts /\ <<>> \in Listings
  BY DEF Contexts, Listings
<1>2. (CHOOSE q \in Questions : TRUE) \in Questions
  BY LimitsAssumption
<1>3. 1 \in Sessions /\ NoText \in Texts
  BY LimitsAssumption DEF Sessions, Texts
<1> QED BY <1>1, <1>2, <1>3 DEF Idle, Jobs, Modes

\* What a request writes to its locals keeps their type and its topic.
LEMMA JobEdits ==
  ASSUME NEW j \in Jobs
  PROVE  /\ \A t \in Texts : [j EXCEPT !.text = t] \in Jobs
                             /\ [j EXCEPT !.text = t].text = t
                             /\ Topic([j EXCEPT !.text = t]) = Topic(j)
         /\ \A x \in {"absent", "weak", "strong"} :
              /\ [j EXCEPT !.src = x] \in Jobs /\ [j EXCEPT !.src = x].text = j.text
              /\ Topic([j EXCEPT !.src = x]) = Topic(j)
         /\ \A l \in Listings :
              /\ [j EXCEPT !.listed = l] \in Jobs /\ [j EXCEPT !.listed = l].text = j.text
              /\ Topic([j EXCEPT !.listed = l]) = Topic(j)
  BY DEF Jobs, Topic

LEMMA JobBegins ==
  ASSUME NEW j \in Jobs, NEW n \in Nat, NEW x \in Contexts
  PROVE  /\ [j EXCEPT !.conv = n] \in Jobs /\ [j EXCEPT !.conv = n].text = j.text
         /\ [j EXCEPT !.conv = n, !.ctx = x] \in Jobs
         /\ [j EXCEPT !.conv = n, !.ctx = x].text = j.text
  BY DEF Jobs

LEMMA AskJob ==
  ASSUME NEW a \in Asks
  PROVE  LET j == [Idle EXCEPT !.session = a.session, !.question = a.question,
                               !.mode = a.mode, !.refresh = a.refresh]
         IN  j \in Jobs /\ j.text = NoText
  BY IdleJob, InputsAssumption DEF Jobs, Sessions, Modes

LEMMA TextTyped ==
  ASSUME NEW r \in Requests
  PROVE  /\ \A strong \in BOOLEAN : Text(r, strong) \in Texts /\ Text(r, strong).by = r
         /\ [by |-> r, kind |-> "apology"] \in Texts
  BY DEF Text, Texts

LEMMA InitTyped == Init => Typed
<1> SUFFICES ASSUME Init PROVE Typed
  OBVIOUS
<1>1. NoReply \in Replies
  BY DEF NoReply, Replies, Texts
<1>2. <<>> \in Seq(Memories) /\ <<>> \in Listings /\ Len(<<>>) = 0
  BY DEF Listings
<1> QED BY <1>1, <1>2, IdleJob DEF Init, Typed, Labels

-----------------------------------------------------------------------------
(* Conversation memory *)

\* An answer in a dialog directly follows the question of the same request.
Paired(ts) ==
  \A i \in 2..Len(ts) : ts[i].role = "assistant" =>
    ts[i - 1].role = "user" /\ ts[i - 1].req = ts[i].req

\* A dialog cut at the front.
LEMMA SuffixPaired ==
  ASSUME NEW ts \in Dialogs, NEW n \in 1..Len(ts)
  PROVE  LET u == SubSeq(ts, n, Len(ts))
         IN  /\ u \in Dialogs /\ Len(u) = Len(ts) - n + 1 /\ u[Len(u)] = ts[Len(ts)]
             /\ Paired(ts) => Paired(u)
<1> DEFINE u == SubSeq(ts, n, Len(ts))
<1>1. Len(ts) \in Nat /\ n \in Nat /\ 1 <= n /\ n <= Len(ts)
  BY LenProperties DEF Dialogs
<1>2. /\ u \in Dialogs /\ Len(u) = Len(ts) - n + 1
      /\ \A i \in 1..Len(u) : u[i] = ts[n + i - 1]
  BY <1>1, SubSeqProperties DEF Dialogs
<1> HIDE DEF u
<1>3. u[Len(u)] = ts[Len(ts)]
  <2>1. Len(u) \in 1..Len(u) /\ n + Len(u) - 1 = Len(ts)
    BY <1>1, <1>2
  <2> QED BY <1>2, <2>1
<1>4. ASSUME Paired(ts), NEW i \in 2..Len(u), u[i].role = "assistant"
      PROVE  u[i - 1].role = "user" /\ u[i - 1].req = u[i].req
  <2>1. i \in 1..Len(u) /\ i - 1 \in 1..Len(u) /\ n + i - 1 \in 2..Len(ts) /\ n + (i - 1) - 1 = (n + i - 1) - 1
    BY <1>1, <1>2
  <2>2. u[i] = ts[n + i - 1] /\ u[i - 1] = ts[(n + i - 1) - 1]
    BY <1>2, <2>1
  <2> QED BY <2>1, <2>2, <1>4 DEF Paired
<1>5. Paired(ts) => Paired(u)
  BY <1>4 DEF Paired
<1> QED BY <1>2, <1>3, <1>5 DEF u

\* add_turn keeps the pairs when an answer comes right after its question, and
\* never drops the turn it adds.
LEMMA AddTurn ==
  ASSUME NEW m \in Memories, NEW t \in Turns
  PROVE  LET a == add_turn(m, t)
         IN  /\ a \in Memories /\ Len(a.turns) \in Nat \ {0} /\ a.turns[Len(a.turns)] = t
             /\ /\ Paired(m.turns)
                /\ t.role = "assistant" =>
                     /\ Len(m.turns) # 0
                     /\ m.turns[Len(m.turns)].role = "user"
                     /\ m.turns[Len(m.turns)].req = t.req
                => Paired(a.turns)
<1> DEFINE ts == Append(m.turns, t)
           n == IF Len(ts) > MaxTurns THEN Len(ts) - MaxTurns + 1 ELSE 1
           u == SubSeq(ts, n, Len(ts))
           a == add_turn(m, t)
<1>1. m.turns \in Dialogs /\ m.total \in Nat /\ m.summaries \in Nat
  BY DEF Memories
<1>2. /\ Len(m.turns) \in Nat /\ ts \in Dialogs /\ Len(ts) = Len(m.turns) + 1 /\ ts[Len(m.turns) + 1] = t
      /\ \A i \in 1..Len(m.turns) : ts[i] = m.turns[i]
  BY <1>1, AppendProperties, LenProperties DEF Dialogs
<1>3. n \in 1..Len(ts)
  BY <1>2, LimitsAssumption
<1>4. a = [m EXCEPT !.turns = u, !.total = m.total + 1]
  BY DEF add_turn
<1> HIDE DEF ts, n
<1>5. /\ u \in Dialogs /\ Len(u) = Len(ts) - n + 1 /\ u[Len(u)] = ts[Len(ts)]
      /\ Paired(ts) => Paired(u)
  BY <1>2, <1>3, SuffixPaired
<1> HIDE DEF u, a
<1>6. a.turns = u /\ a \in Memories
  <2>1. \A x \in Dialogs, k \in Nat : /\ [m EXCEPT !.turns = x, !.total = k] \in Memories
                                     /\ [m EXCEPT !.turns = x, !.total = k].turns = x
    BY DEF Memories
  <2>2. m.total + 1 \in Nat
    BY <1>1
  <2> QED BY <1>4, <1>5, <2>1, <2>2
<1>7. Len(a.turns) \in Nat \ {0} /\ a.turns[Len(a.turns)] = t
  BY <1>2, <1>3, <1>5, <1>6
<1>8. ASSUME Paired(m.turns),
             t.role = "assistant" => /\ Len(m.turns) # 0
                                     /\ m.turns[Len(m.turns)].role = "user"
                                     /\ m.turns[Len(m.turns)].req = t.req
      PROVE  Paired(a.turns)
  <2>1. ASSUME NEW i \in 2..Len(ts), ts[i].role = "assistant"
        PROVE  ts[i - 1].role = "user" /\ ts[i - 1].req = ts[i].req
    <3>1. CASE i = Len(ts)
      <4>1. ts[i] = t /\ i - 1 = Len(m.turns) /\ i - 1 \in 1..Len(m.turns)
        BY <3>1, <1>2
      <4> QED BY <4>1, <2>1, <1>2, <1>8
    <3>2. CASE i # Len(ts)
      <4>1. i \in 2..Len(m.turns) /\ i \in 1..Len(m.turns) /\ i - 1 \in 1..Len(m.turns)
        BY <3>2, <1>2
      <4>2. ts[i] = m.turns[i] /\ ts[i - 1] = m.turns[i - 1]
        BY <4>1, <1>2
      <4> QED BY <4>1, <4>2, <2>1, <1>8 DEF Paired
    <3> QED BY <3>1, <3>2
  <2>2. Paired(ts)
    BY <2>1 DEF Paired
  <2> QED BY <2>2, <1>5, <1>6
<1> QED BY <1>6, <1>7, <1>8 DEF a

\* Summarising drops the oldest turns.
LEMMA SummarizedPaired ==
  ASSUME NEW m \in Memories
  PROVE  Summarized(m) \in Memories /\ (Paired(m.turns) => Paired(Summarized(m).turns))
<1>1. m.turns \in Dialogs /\ m.summaries \in Nat /\ Len(m.turns) \in Nat
  BY LenProperties DEF Memories, Dialogs
<1>2. CASE Summarized(m) = m
  BY <1>2
<1>3. CASE Summarized(m) # m
  <2> DEFINE n == Len(m.turns) - KeepRecent + 1
             u == SubSeq(m.turns, n, Len(m.turns))
  <2>1. /\ ~(Len(m.turns) <= KeepRecent)
        /\ Summarized(m) = [turns |-> u, total |-> KeepRecent,
                            summaries |-> IF m.summaries < 3 THEN m.summaries + 1 ELSE 3]
    BY <1>3 DEF Summarized, summarize_older_turns
  <2>2. n \in 1..Len(m.turns)
    BY <2>1, <1>1, LimitsAssumption
  <2> HIDE DEF n
  <2>3. u \in Dialogs /\ (Paired(m.turns) => Paired(u))
    BY <1>1, <2>2, SuffixPaired
  <2> HIDE DEF u
  <2>4. KeepRecent \in Nat /\ (IF m.summaries < 3 THEN m.summaries + 1 ELSE 3) \in Nat
    BY <1>1, LimitsAssumption
  <2>5. Summarized(m).turns = u /\ Summarized(m) \in Memories
    BY <2>1, <2>3, <2>4 DEF Memories
  <2> QED BY <2>3, <2>5
<1> QED BY <1>2, <1>3

\* Both turns of a request are added in one step.
LEMMA SaidPaired ==
  ASSUME Typed, NEW m \in Memories, NEW r \in Requests, NEW text \in Texts
  PROVE  Said(m, r, text) \in Memories /\ (Paired(m.turns) => Paired(Said(m, r, text).turns))
<1> DEFINE q == Turn("user", r, job[r].question)
           t == Turn("assistant", r, text)
           m1 == add_turn(m, q)
<1>1. job[r].question \in Contents /\ text \in Contents
  BY DEF Typed, Jobs, Contents
<1>2. q \in Turns /\ q.role = "user" /\ q.req = r
  BY <1>1 DEF Turn, Turns
<1>3. t \in Turns /\ t.role = "assistant" /\ t.req = r
  BY <1>1 DEF Turn, Turns
<1>4. Said(m, r, text) = add_turn(m1, t)
  BY DEF Said
<1> HIDE DEF q, t
<1>5. /\ m1 \in Memories /\ Len(m1.turns) # 0 /\ m1.turns[Len(m1.turns)] = q
      /\ Paired(m.turns) => Paired(m1.turns)
  BY <1>2, AddTurn
<1> HIDE DEF m1
<1> QED BY <1>2, <1>3, <1>4, <1>5, AddTurn

Pairs == \A c \in 1..Len(heap) : Paired(heap[c].turns)

\* A step that rewrites one conversation, if it exists at all.
LEMMA HeapEdit ==
  ASSUME Typed, Pairs, NEW c, NEW m, heap' = [heap EXCEPT ![c] = m],
         c \in 1..Len(heap) => m \in Memories /\ (Paired(heap[c].turns) => Paired(m.turns))
  PROVE  heap' \in Seq(Memories) /\ Len(heap') = Len(heap) /\ Pairs'
<1>1. heap \in Seq(Memories) /\ Len(heap) \in Nat
  BY LenProperties DEF Typed
<1>2. CASE c \in 1..Len(heap)
  <2>1. /\ heap' \in Seq(Memories) /\ Len(heap') = Len(heap)
        /\ \A d \in 1..Len(heap) : heap'[d] = IF d = c THEN m ELSE heap[d]
    BY <1>1, <1>2, ExceptSeq
  <2> QED BY <2>1, <1>2 DEF Pairs
<1>3. CASE c \notin 1..Len(heap)
  <2>1. heap' = heap
    BY <1>1, <1>3
  <2> QED BY <2>1, <1>1 DEF Pairs
<1> QED BY <1>2, <1>3

\* What a new or continued conversation gives the request.
LEMMA Enriched ==
  ASSUME NEW m \in Memories PROVE enrich_query_with_context(m) \in Contexts
<1> DEFINE n == IF Len(m.turns) < 2 THEN Len(m.turns) ELSE 2
<1>1. m.turns \in Seq(Turns) /\ Len(m.turns) \in Nat
  BY LenProperties DEF Memories, Dialogs
<1>2. n \in Nat /\ n <= Len(m.turns)
  BY <1>1
<1>3. \A i \in 1..n : m.turns[Len(m.turns) - i + 1].content \in Contents
  <2> TAKE i \in 1..n
  <2>1. Len(m.turns) - i + 1 \in 1..Len(m.turns)
    BY <1>1, <1>2
  <2>2. m.turns[Len(m.turns) - i + 1] \in Turns
    BY <1>1, <2>1, ElementOfSeq
  <2> QED BY <2>2 DEF Turns
<1>4. enrich_query_with_context(m) = [i \in 1..n |-> m.turns[Len(m.turns) - i + 1].content]
  BY DEF enrich_query_with_context
<1> HIDE DEF n
<1>5. enrich_query_with_context(m) \in [1..n -> Contents]
  BY <1>3, <1>4
<1> QED BY <1>2, <1>5, SeqDef DEF Contexts

\* Pruning forgets sessions and changes nothing else.
LEMMA PrunedStore ==
  ASSUME NEW n \in Nat, NEW st \in [Sessions -> 0..n]
  PROVE  _prune_store(st) \in [Sessions -> 0..n]
<1> DEFINE keys == SetToSortSeq({s \in Sessions : st[s] # 0}, <)
           dropped(s) == \E i \in 1..(Len(keys) - MaxStore \div 2) : keys[i] = s
<1>1. _prune_store(st) = IF Len(keys) <= MaxStore THEN st
                         ELSE [s \in Sessions |-> IF dropped(s) THEN 0 ELSE st[s]]
  BY DEF _prune_store
<1> HIDE DEF keys, dropped
<1>2. [s \in Sessions |-> IF dropped(s) THEN 0 ELSE st[s]] \in [Sessions -> 0..n]
  OBVIOUS
<1> QED BY <1>1, <1>2

LEMMA GotConversation ==
  ASSUME Typed, Pairs, NEW r \in Requests, NEW j \in Jobs, get_conversation(r, j)
  PROVE  /\ heap' \in Seq(Memories) /\ store' \in [Sessions -> 0..Len(heap')] /\ Pairs'
         /\ \E n \in Jobs : job' = [job EXCEPT ![r] = n] /\ n.text = j.text
<1>1. heap \in Seq(Memories) /\ Len(heap) \in Nat /\ j.session \in Sessions /\ store \in [Sessions -> 0..Len(heap)]
  BY LenProperties DEF Typed, Jobs
<1>2. CASE store[j.session] # 0 /\ j.session \notin stale
  <2> DEFINE c == store[j.session]
             n == [j EXCEPT !.conv = c, !.ctx = enrich_query_with_context(heap[c])]
  <2>1. c \in 1..Len(heap) /\ c \in Nat
    BY <1>1, <1>2
  <2>2. heap[c] \in Memories
    BY <1>1, <2>1, ElementOfSeq
  <2>3. n \in Jobs /\ n.text = j.text
    BY <2>1, <2>2, Enriched, JobBegins
  <2>4. job' = [job EXCEPT ![r] = n] /\ heap' = heap /\ store' = store
    BY <1>2 DEF get_conversation, memVars
  <2>5. Pairs'
    BY <2>4 DEF Pairs
  <2> HIDE DEF n
  <2> QED BY <1>1, <2>3, <2>4, <2>5
<1>3. CASE ~(store[j.session] # 0 /\ j.session \notin stale)
  <2> DEFINE st == [store EXCEPT ![j.session] = Len(heap) + 1]
             n == [j EXCEPT !.conv = store'[j.session]]
  <2>1. /\ heap' = Append(heap, ConversationMemory) /\ store' = _prune_store(st)
        /\ job' = [job EXCEPT ![r] = n]
    BY <1>3 DEF get_conversation
  <2>2. ConversationMemory \in Memories /\ Len(ConversationMemory.turns) = 0
    <3>1. <<>> \in Dialogs /\ Len(<<>>) = 0
      BY DEF Dialogs
    <3> QED BY <3>1 DEF ConversationMemory, Memories
  <2>3. /\ heap' \in Seq(Memories) /\ Len(heap') = Len(heap) + 1
        /\ \A d \in 1..Len(heap) : heap'[d] = heap[d]
        /\ heap'[Len(heap) + 1] = ConversationMemory
    BY <1>1, <2>1, <2>2, AppendProperties
  <2>4. Pairs'
    <3>1. Paired(ConversationMemory.turns)
      BY <2>2 DEF Paired
    <3>2. \A d \in 1..(Len(heap) + 1) : d \in 1..Len(heap) \/ d = Len(heap) + 1
      BY <1>1
    <3> QED
      BY <1>1, <2>3, <3>1, <3>2 DEF Pairs
  <2>5. st \in [Sessions -> 0..Len(heap')]
    BY <1>1, <2>3
  <2> HIDE DEF st
  <2>6. store' \in [Sessions -> 0..Len(heap')]
    <3>1. Len(heap') \in Nat
      BY <1>1, <2>3
    <3> QED BY <2>1, <2>5, <3>1, PrunedStore
  <2>7. n \in Jobs /\ n.text = j.text
    <3>1. store'[j.session] \in Nat
      BY <2>6, <1>1, <2>3
    <3>2. <<>> \in Contexts
      BY DEF Contexts
    <3> QED BY <3>1, <3>2, JobBegins
  <2> HIDE DEF n
  <2> QED BY <2>1, <2>3, <2>4, <2>6, <2>7
<1> QED BY <1>2, <1>3

-----------------------------------------------------------------------------
(* Types and pairs are kept *)

Statuses == {"none", "answered", "listed", "refused", "garbled", "failed"}

Sound == Typed /\ Pairs

\* A step of a request, given that the conversations stay as they should be.
LEMMA RequestStep ==
  ASSUME Sound, NEW r \in Requests, UNCHANGED settings,
         heap' \in Seq(Memories), store' \in [Sessions -> 0..Len(heap')], Pairs',
         \/ \E p \in Labels : Goto(r, p)
         \/ \E st \in Statuses, t \in Texts, b \in BOOLEAN : End(r, st, t, b),
         \E n \in Jobs : job' = [job EXCEPT ![r] = n],
         bucket' \in Listings,
         \A e \in cache' \cup entries' : e[2] \in Texts
  PROVE  Sound'
<1>1. pc' \in [Requests -> Labels]
  BY DEF Sound, Typed, Goto, End, Labels
<1>2. reply' \in [Requests -> Replies]
  <2>1. \A st \in Statuses, t \in Texts, b \in BOOLEAN :
          [status |-> st, text |-> t, notice |-> b] \in Replies
    BY DEF Replies, Statuses
  <2>2. reply \in [Requests -> Replies]
    BY DEF Sound, Typed
  <2>3. CASE \E p \in Labels : Goto(r, p)
    BY <2>2, <2>3 DEF Goto
  <2>4. CASE \E st \in Statuses, t \in Texts, b \in BOOLEAN : End(r, st, t, b)
    BY <2>1, <2>2, <2>4 DEF End
  <2> QED BY <2>3, <2>4
<1>3. job' \in [Requests -> Jobs]
  BY DEF Sound, Typed
<1> QED BY <1>1, <1>2, <1>3 DEF Sound, Typed

\* In most steps nothing happens to them.
LEMMA ConversationsKept ==
  ASSUME Sound, UNCHANGED <<heap, store>>
  PROVE  heap' \in Seq(Memories) /\ store' \in [Sessions -> 0..Len(heap')] /\ Pairs'
  BY DEF Sound, Typed, Pairs

LEMMA FoundTexts ==
  ASSUME Typed
  PROVE  \A k : \A t \in Find(cache, k) \cup Find(entries, k) : t \in Texts
  BY DEF Typed, Find

\* What each step of the pipeline writes to the locals of its request.
Writes(r, t) ==
  \E n \in Jobs : job' = [job EXCEPT ![r] = n] /\ n.text = t /\ Topic(n) = Topic(job[r])

LEMMA HitStep ==
  ASSUME Typed, NEW r \in Requests, NEW t \in Texts, Hit(r, t)
  PROVE  Goto(r, "resume") /\ Writes(r, t)
<1> DEFINE j == [job[r] EXCEPT !.text = t]
           n == [j EXCEPT !.src = "absent"]
<1>1. job[r] \in Jobs
  BY DEF Typed
<1>2. j \in Jobs /\ j.text = t /\ Topic(j) = Topic(job[r])
  BY <1>1, JobEdits
<1>3. n \in Jobs /\ n.text = t /\ Topic(n) = Topic(job[r])
  <2> HIDE DEF j
  <2> QED BY <1>2, JobEdits
<1>4. job' = [job EXCEPT ![r] = n] /\ Goto(r, "resume")
  BY DEF Hit, Typed
<1> HIDE DEF n
<1> QED BY <1>3, <1>4 DEF Writes

LEMMA TextWritten ==
  ASSUME Typed, NEW r \in Requests, NEW t \in Texts, job' = [job EXCEPT ![r].text = t]
  PROVE  Writes(r, t)
<1>1. job[r] \in Jobs BY DEF Typed
<1> QED BY <1>1, JobEdits DEF Writes

LEMMA NothingWritten ==
  ASSUME Typed, NEW r \in Requests,
         \/ job' = job
         \/ \E x \in {"absent", "weak", "strong"} : job' = [job EXCEPT ![r].src = x]
         \/ job' = [job EXCEPT ![r].listed = bucket]
  PROVE  Writes(r, job[r].text)
<1>1. job[r] \in Jobs /\ bucket \in Listings BY DEF Typed
<1>2. CASE job' = job
  <2>1. job = [job EXCEPT ![r] = job[r]]
    BY DEF Typed
  <2> QED BY <1>1, <1>2, <2>1 DEF Writes
<1>3. ASSUME NEW x \in {"absent", "weak", "strong"}, job' = [job EXCEPT ![r].src = x]
      PROVE  Writes(r, job[r].text)
  BY <1>1, <1>3, JobEdits DEF Writes
<1>4. CASE job' = [job EXCEPT ![r].listed = bucket]
  <2>1. PICK n : n = [job[r] EXCEPT !.listed = bucket]
    OBVIOUS
  <2>2. n \in Jobs /\ n.text = job[r].text /\ Topic(n) = Topic(job[r])
    BY <1>1, <2>1, JobEdits
  <2>3. job' = [job EXCEPT ![r] = n]
    BY <1>4, <2>1 DEF Typed
  <2> QED
    BY <2>2, <2>3 DEF Writes
<1> QED BY <1>2, <1>3, <1>4

-----------------------------------------------------------------------------
(* How a step looks from outside *)

\* The abstract state: what a client sees of each request.
TopicMap == [r \in Requests |-> Topic(IF Started(r) THEN job[r] ELSE Idle)]
PhaseMap == [r \in Requests |-> IF pc[r] = "done" THEN "closed"
                                ELSE IF Started(r) THEN "open" ELSE "idle"]
GivenMap == [r \in Requests |-> reply[r].text]

\* The invariant's part about the caches, for the answers in G.
CachesVouched(G, c, es) ==
  /\ \A e \in c : [topic |-> e[1], by |-> e[2].by] \in G
  /\ \A e \in es : \E k \in G : k.by = e[2].by /\ k.topic.question = e[1].question

LEMMA VouchedLater ==
  ASSUME Justified, generated \subseteq generated', settings' = settings,
         NEW o \in Requests, job'[o] = job[o], pc'[o] = pc[o] \/ pc'[o] = "done"
  PROVE  /\ job'[o].text = NoText \/ Vouched(generated, job[o].text, Topic(job[o]))'
         /\ pc'[o] \in {"new", "open"} => job'[o].text = NoText
         /\ pc'[o] \in {"set", "semantic_set"} =>
              [topic |-> Topic(job[o]), by |-> job[o].text.by]' \in generated'
  BY DEF Justified, Vouched, A!Matches, Topic

\* A request that goes on: nothing, or a new answer, is seen.
LEMMA Moves ==
  ASSUME Sound, Justified, NEW r \in Requests,
         NEW p \in Labels \ {"new", "open", "done"}, pc[r] \notin {"new", "open", "done"},
         pc' = [pc EXCEPT ![r] = p], reply' = reply, settings' = settings,
         NEW t, Writes(r, t),
         generated' = generated \/ generated' = Made(r),
         t = NoText \/ Vouched(generated', t, Topic(job[r])),
         p \in {"set", "semantic_set"} => [topic |-> Topic(job[r]), by |-> t.by] \in generated',
         CachesVouched(generated', cache', entries')
  PROVE  Justified' /\ [A!Next]_(A!vars)
<1>1. PICK n \in Jobs : job' = [job EXCEPT ![r] = n] /\ n.text = t /\ Topic(n) = Topic(job[r])
  BY DEF Writes
<1>2. /\ job \in [Requests -> Jobs] /\ pc \in [Requests -> Labels]
      /\ job'[r] = n /\ pc'[r] = p
      /\ \A o \in Requests \ {r} : job'[o] = job[o] /\ pc'[o] = pc[o]
  BY <1>1 DEF Sound, Typed
<1>3. generated \subseteq generated'
  BY DEF Made
<1>4. Justified'
  <2>1. \A o \in Requests \ {r} :
          /\ job'[o].text = NoText \/ Vouched(generated, job[o].text, Topic(job[o]))'
          /\ pc'[o] \in {"new", "open"} => job'[o].text = NoText
          /\ pc'[o] \in {"set", "semantic_set"} =>
               [topic |-> Topic(job[o]), by |-> job[o].text.by]' \in generated'
    BY <1>2, <1>3, VouchedLater
  <2>2. Topic(job[r])' = Topic(job[r]) /\ job'[r].text = t
    BY <1>1, <1>2 DEF Topic
  <2>3. /\ job'[r].text = NoText \/ Vouched(generated, job[r].text, Topic(job[r]))'
        /\ pc'[r] \in {"set", "semantic_set"} =>
             [topic |-> Topic(job[r]), by |-> job[r].text.by]' \in generated'
    BY <2>2, <1>2 DEF Vouched, A!Matches
  <2> QED BY <2>1, <2>3, <1>2 DEF Justified, CachesVouched
<1>5. TopicMap' = TopicMap
  <2>1. ASSUME NEW o \in Requests
        PROVE  Topic(IF Started(o) THEN job[o] ELSE Idle)' = Topic(IF Started(o) THEN job[o] ELSE Idle)
    <3>1. CASE o = r
      BY <3>1, <1>1, <1>2 DEF Started, Topic
    <3>2. CASE o # r
      BY <3>2, <1>2 DEF Started, Topic
    <3> QED BY <3>1, <3>2
  <2> QED BY <2>1 DEF TopicMap
<1>6. PhaseMap' = PhaseMap /\ PhaseMap[r] = "open" /\ GivenMap' = GivenMap /\ TopicMap[r] = Topic(job[r])
  BY <1>2 DEF PhaseMap, Started, GivenMap, TopicMap
<1>7. CASE generated' = generated
  BY <1>4, <1>5, <1>6, <1>7 DEF A!vars, TopicMap, PhaseMap, GivenMap
<1>8. CASE generated' = Made(r)
  <2>1. A!Generate(r)
    BY <1>5, <1>6, <1>8 DEF A!Generate, TopicMap, PhaseMap, GivenMap, Made
  <2> QED BY <1>4, <2>1 DEF A!Next
<1> QED BY <1>7, <1>8

\* A request that starts: it is not seen yet, or it is seen to be asked.
LEMMA Begins ==
  ASSUME Sound, Justified, NEW r \in Requests,
         NEW p \in Labels \ {"new", "done", "set", "semantic_set"},
         pc[r] \in {"new", "open"}, pc' = [pc EXCEPT ![r] = p], reply' = reply,
         UNCHANGED <<settings, generated, cache, entries>>,
         NEW n \in Jobs, job' = [job EXCEPT ![r] = n], n.text = NoText
  PROVE  Justified' /\ [A!Next]_(A!vars)
<1>2. /\ job'[r] = n /\ pc'[r] = p
      /\ \A o \in Requests \ {r} : job'[o] = job[o] /\ pc'[o] = pc[o]
  BY DEF Sound, Typed
<1>4. Justified'
  <2>1. \A o \in Requests \ {r} :
          /\ job'[o].text = NoText \/ Vouched(generated, job[o].text, Topic(job[o]))'
          /\ pc'[o] \in {"new", "open"} => job'[o].text = NoText
          /\ pc'[o] \in {"set", "semantic_set"} =>
               [topic |-> Topic(job[o]), by |-> job[o].text.by]' \in generated'
    BY <1>2, VouchedLater
  <2> QED BY <2>1, <1>2 DEF Justified
<1>5. ASSUME NEW o \in Requests, o # r \/ p = "open"
      PROVE  Topic(IF Started(o) THEN job[o] ELSE Idle)' = Topic(IF Started(o) THEN job[o] ELSE Idle)
  <2>1. CASE o # r
    BY <2>1, <1>2 DEF Started, Topic
  <2>2. CASE o = r /\ p = "open"
    BY <2>2, <1>2 DEF Started, Topic
  <2> QED BY <1>5, <2>1, <2>2
<1>6. PhaseMap[r] = "idle" /\ GivenMap' = GivenMap
  BY DEF PhaseMap, Started, GivenMap
<1>7. CASE p = "open"
  <2>1. TopicMap' = TopicMap /\ PhaseMap' = PhaseMap
    BY <1>2, <1>5, <1>7 DEF TopicMap, PhaseMap, Started
  <2> QED BY <1>4, <1>6, <2>1 DEF A!vars, TopicMap, PhaseMap, GivenMap
<1>8. CASE p # "open"
  <2>1. PhaseMap' = [PhaseMap EXCEPT ![r] = "open"]
    BY <1>2, <1>8 DEF PhaseMap, Started
  <2>2. \A o \in Requests \ {r} : TopicMap'[o] = TopicMap[o]
    BY <1>5 DEF TopicMap
  <2>3. A!Ask(r)
    BY <1>6, <2>1, <2>2 DEF A!Ask, TopicMap, PhaseMap, GivenMap
  <2> QED BY <1>4, <2>3 DEF A!Next
<1> QED BY <1>7, <1>8

\* A request that ends, with no text or with one that is vouched for.
LEMMA Finishes ==
  ASSUME Sound, Justified, NEW r \in Requests, pc[r] # "done",
         NEW st, NEW text \in Texts, NEW b, End(r, st, text, b),
         settings' = settings, UNCHANGED <<cache, entries>>,
         NEW n \in Jobs, job' = [job EXCEPT ![r] = n],
         n = job[r] \/ n.text = NoText,
         generated' \in {generated, generated \cup {[topic |-> Topic(n), by |-> r]}},
         text = NoText \/ Vouched(generated', text, Topic(n))
  PROVE  Justified' /\ [A!Next]_(A!vars)
<1>1. /\ pc' = [pc EXCEPT ![r] = "done"]
      /\ reply' = [reply EXCEPT ![r] = [status |-> st, text |-> text, notice |-> b]]
  BY DEF End
<1>2. /\ job'[r] = n /\ pc'[r] = "done" /\ reply'[r].text = text
      /\ \A o \in Requests \ {r} : job'[o] = job[o] /\ pc'[o] = pc[o] /\ reply'[o] = reply[o]
  BY <1>1 DEF Sound, Typed
<1>3. generated \subseteq generated'
  OBVIOUS
<1>4. Justified'
  <2>1. \A o \in Requests :
          job'[o] = job[o] =>
          /\ job'[o].text = NoText \/ Vouched(generated, job[o].text, Topic(job[o]))'
          /\ pc'[o] \in {"new", "open"} => job'[o].text = NoText
          /\ pc'[o] \in {"set", "semantic_set"} =>
               [topic |-> Topic(job[o]), by |-> job[o].text.by]' \in generated'
    BY <1>2, <1>3, VouchedLater
  <2> QED BY <2>1, <1>2, <1>3 DEF Justified
<1>5. \A o \in Requests \ {r} : TopicMap'[o] = TopicMap[o] /\ GivenMap'[o] = GivenMap[o]
  <2>1. ASSUME NEW o \in Requests \ {r}
        PROVE  Topic(IF Started(o) THEN job[o] ELSE Idle)' = Topic(IF Started(o) THEN job[o] ELSE Idle)
    BY <1>2 DEF Started, Topic
  <2> QED BY <2>1, <1>2 DEF TopicMap, GivenMap
<1>6. /\ PhaseMap' = [o \in Requests |-> IF o \in {r} THEN "closed" ELSE PhaseMap[o]]
      /\ PhaseMap[r] # "closed"
  BY <1>2 DEF PhaseMap, Started
<1>7. TopicMap'[r] = Topic(n) /\ GivenMap'[r] = text
  BY <1>2 DEF TopicMap, GivenMap, Started, Topic
<1>8. generated' \in {generated, generated \cup {[topic |-> TopicMap'[o], by |-> o] : o \in {r}}}
  BY <1>7
<1>9. \A o \in Requests :
        IF o \notin {r} THEN GivenMap'[o] = GivenMap[o] /\ TopicMap'[o] = TopicMap[o]
        ELSE \/ GivenMap'[o] = NoText
             \/ \E k \in generated' : k.by = GivenMap'[o].by /\ A!Matches(k.topic, TopicMap'[o])
  BY <1>5, <1>7 DEF Vouched
<1>10. A!Close({r})
  BY <1>6, <1>8, <1>9 DEF A!Close, TopicMap, PhaseMap, GivenMap
<1> QED BY <1>4, <1>10 DEF A!Next

-----------------------------------------------------------------------------
(* The steps of a request *)

\* What has to be shown of every step.
Keeps == Sound' /\ Justified' /\ [A!Next]_(A!vars)

\* An answer generated for a topic is an answer to it.
LEMMA OwnAnswer ==
  ASSUME NEW j \in Jobs, NEW text, NEW G, [topic |-> Topic(j), by |-> text.by] \in G
  PROVE  Vouched(G, text, Topic(j))
<1>1. Topic(j).question = j.question /\ j.question \in Questions
  BY DEF Topic, Jobs
<1>2. A!Matches(Topic(j), Topic(j))
  BY <1>1, AlikeAssumption DEF A!Matches, Similar
<1> QED BY <1>2 DEF Vouched

\* Both kinds of step, together with the types.
LEMMA MovesKeeps ==
  ASSUME Sound, Justified, NEW r \in Requests, NEW p \in Labels \ {"new", "open", "done"},
         pc[r] \notin {"new", "open", "done"}, Goto(r, p),
         UNCHANGED <<settings, heap, store>>, bucket' \in Listings,
         \A e \in cache' \cup entries' : e[2] \in Texts,
         NEW t, Writes(r, t),
         generated' = generated \/ generated' = Made(r),
         t = NoText \/ Vouched(generated', t, Topic(job[r])),
         p \in {"set", "semantic_set"} => [topic |-> Topic(job[r]), by |-> t.by] \in generated',
         CachesVouched(generated', cache', entries')
  PROVE  Keeps
<1>1. Sound'
  BY RequestStep, ConversationsKept DEF Writes
<1>2. Justified' /\ [A!Next]_(A!vars)
  BY Moves DEF Goto
<1> QED BY <1>1, <1>2 DEF Keeps

\* As long as the caches are as they were, later answers do not matter to them.
LEMMA CachesKept ==
  ASSUME Sound, Justified, generated \subseteq generated', UNCHANGED <<cache, entries, bucket>>
  PROVE  /\ CachesVouched(generated', cache', entries')
         /\ bucket' \in Listings /\ \A e \in cache' \cup entries' : e[2] \in Texts
  BY DEF Sound, Typed, Justified, CachesVouched

LEMMA CacheReads ==
  ASSUME Sound, Justified, NEW r \in Requests, SemanticCache_get(r) \/ cache_get(r)
  PROVE  Keeps
<1>1. /\ job[r] \in Jobs /\ pc[r] \in {"semantic_get", "get"}
      /\ UNCHANGED <<settings, heap, store, cache, entries, bucket, generated>>
  BY DEF Sound, Typed, SemanticCache_get, cache_get, memVars, cacheVars
<1>2. \/ \E p \in {"get", "retrieve"} : Goto(r, p) /\ job' = job
      \/ \E t \in Texts : Hit(r, t) /\ Vouched(generated, t, Topic(job[r]))
  <2>1. CASE cache_get(r)
    <3>1. \/ Goto(r, "retrieve") /\ job' = job
          \/ \E t \in Find(cache, Topic(job[r])) : Hit(r, t)
      BY <2>1 DEF cache_get, rag_key
    <3>2. ASSUME NEW t \in Find(cache, Topic(job[r])) PROVE t \in Texts /\ Vouched(generated, t, Topic(job[r]))
      <4>1. [topic |-> Topic(job[r]), by |-> t.by] \in generated
        BY <3>2 DEF Find, Justified
      <4> QED BY <4>1, <1>1, OwnAnswer, FoundTexts DEF Sound
    <3> QED BY <3>1, <3>2
  <2>2. CASE SemanticCache_get(r)
    <3>1. CASE Goto(r, "get") /\ UNCHANGED job
      BY <3>1
    <3>2. CASE ~(Goto(r, "get") /\ UNCHANGED job)
      <4>1. PICK k : settings.semantic /\ Similar(k.question, job[r].question)
                     /\ \E t \in Find(entries, k) : Hit(r, t)
        BY <2>2, <3>2 DEF SemanticCache_get
      <4>2. PICK t \in Find(entries, k) : Hit(r, t)
        BY <4>1
      <4>3. \E g \in generated : g.by = t.by /\ g.topic.question = k.question
        BY <4>2 DEF Find, Justified
      <4>4. Topic(job[r]).question = job[r].question
        BY DEF Topic
      <4>5. Vouched(generated, t, Topic(job[r]))
        BY <4>1, <4>3, <4>4 DEF Vouched, A!Matches
      <4> QED BY <4>2, <4>5, FoundTexts DEF Sound
    <3> QED BY <3>1, <3>2
  <2> QED BY <2>1, <2>2
<1>3. /\ CachesVouched(generated', cache', entries')
      /\ bucket' \in Listings /\ \A e \in cache' \cup entries' : e[2] \in Texts
  BY <1>1, CachesKept
<1>4. ASSUME NEW p \in {"get", "retrieve"}, Goto(r, p), job' = job PROVE Keeps
  <2>1. Writes(r, job[r].text)
    BY <1>4, NothingWritten DEF Sound
  <2>2. job[r].text = NoText \/ Vouched(generated', job[r].text, Topic(job[r]))
    BY <1>1 DEF Justified
  <2> QED BY <1>1, <1>3, <1>4, <2>1, <2>2, MovesKeeps DEF Labels, Fallible
<1>5. ASSUME NEW t \in Texts, Hit(r, t), Vouched(generated, t, Topic(job[r])) PROVE Keeps
  <2>1. Goto(r, "resume") /\ Writes(r, t)
    BY <1>5, HitStep DEF Sound
  <2>2. "resume" \in Labels \ {"new", "open", "done"} /\ "resume" \notin {"set", "semantic_set"}
    BY DEF Labels
  <2>3. pc[r] \notin {"new", "open", "done"} /\ Vouched(generated', t, Topic(job[r]))
    BY <1>1, <1>5
  <2> QED BY <1>1, <1>3, <2>1, <2>2, <2>3, MovesKeeps
<1> QED BY <1>2, <1>4, <1>5

\* Steps that neither generate nor store.
LEMMA QuietSteps ==
  ASSUME Sound, Justified, NEW r \in Requests, route_direct(r) \/ retrieve(r) \/ bucket_get(r)
  PROVE  Keeps
<1>1. /\ pc[r] \in {"retrieve", "bucket_get"}
      /\ UNCHANGED <<settings, heap, store, cache, entries, bucket, generated>>
  BY DEF route_direct, retrieve, bucket_get, memVars, cacheVars
<1>2. PICK p \in {"direct", "generate", "resume", "bucket_set"} : Goto(r, p)
  BY DEF route_direct, retrieve, bucket_get
<1>3. Writes(r, job[r].text)
  BY NothingWritten DEF Sound, route_direct, retrieve, bucket_get
<1>4. job[r].text = NoText \/ Vouched(generated', job[r].text, Topic(job[r]))
  BY <1>1 DEF Justified
<1>5. /\ CachesVouched(generated', cache', entries')
      /\ bucket' \in Listings /\ \A e \in cache' \cup entries' : e[2] \in Texts
  BY <1>1, CachesKept
<1> QED BY <1>1, <1>2, <1>3, <1>4, <1>5, MovesKeeps DEF Labels, Fallible

\* Steps that generate the answer of the request itself.
LEMMA GeneratingSteps ==
  ASSUME Sound, Justified, NEW r \in Requests,
         answer_direct(r) \/ generate(r) \/ (orchestrator_ainvoke(r) /\ job[r].mode # "stream")
  PROVE  Keeps
<1>1. /\ pc[r] \in {"direct", "generate", "graph"} /\ job[r] \in Jobs
      /\ UNCHANGED <<settings, heap, store, cache, entries, bucket>> /\ generated' = Made(r)
  BY DEF Sound, Typed, answer_direct, generate, orchestrator_ainvoke, memVars, cacheVars
<1>2. PICK p \in {"resume", "set", "log"} : Goto(r, p)
  BY DEF answer_direct, generate, orchestrator_ainvoke
<1>3. PICK t \in Texts : t.by = r /\ Writes(r, t)
  <2>1. CASE answer_direct(r)
    <3>1. Hit(r, Text(r, FALSE))
      BY <2>1 DEF answer_direct, Hit
    <3> QED BY <3>1, HitStep, TextTyped DEF Sound
  <2>2. CASE generate(r)
    <3>1. \/ job' = [job EXCEPT ![r].text = Text(r, job[r].src = "strong")]
          \/ job' = [job EXCEPT ![r].text = [by |-> r, kind |-> "apology"]]
      BY <2>2 DEF generate
    <3>2. Text(r, job[r].src = "strong") \in Texts /\ Text(r, job[r].src = "strong").by = r
      BY TextTyped
    <3> QED BY <3>1, <3>2, TextWritten, TextTyped DEF Sound
  <2>3. CASE orchestrator_ainvoke(r) /\ job[r].mode # "stream"
    BY <2>3, TextWritten, TextTyped DEF Sound, orchestrator_ainvoke
  <2> QED BY <2>1, <2>2, <2>3
<1>4. [topic |-> Topic(job[r]), by |-> t.by] \in generated'
  BY <1>1, <1>3 DEF Made
<1>5. Vouched(generated', t, Topic(job[r]))
  BY <1>1, <1>4, OwnAnswer
<1>6. /\ CachesVouched(generated', cache', entries')
      /\ bucket' \in Listings /\ \A e \in cache' \cup entries' : e[2] \in Texts
  BY <1>1, CachesKept DEF Made
<1> QED BY <1>1, <1>2, <1>3, <1>4, <1>5, <1>6, MovesKeeps DEF Labels, Fallible

\* Steps that store the answer.
LEMMA StoringSteps ==
  ASSUME Sound, Justified, NEW r \in Requests,
         cache_set(r) \/ SemanticCache_set(r) \/ bucket_set(r)
  PROVE  Keeps
<1> DEFINE text == job[r].text
<1>1. /\ pc[r] \in {"set", "semantic_set", "bucket_set"} /\ job[r] \in Jobs /\ text \in Texts
      /\ UNCHANGED <<settings, heap, store, job, generated>>
  BY DEF Sound, Typed, Jobs, cache_set, SemanticCache_set, bucket_set, memVars
<1>2. PICK p \in {"semantic_set", "resume", "bucket_get"} :
        /\ Goto(r, p)
        /\ p = "semantic_set" => pc[r] = "set"
  BY DEF cache_set, SemanticCache_set, bucket_set
<1>3. Writes(r, text)
  BY <1>1, NothingWritten DEF Sound
<1>4. pc[r] \in {"set", "semantic_set"} => [topic |-> Topic(job[r]), by |-> text.by] \in generated
  BY DEF Justified
<1>5. text = NoText \/ Vouched(generated', text, Topic(job[r]))
  BY <1>1 DEF Justified
<1>6. bucket' \in Listings
  <2>1. bucket \in Listings /\ job[r].listed \in Listings /\ _entry_key(job[r]) \in Keys
    BY <1>1 DEF Sound, Typed, Jobs, _entry_key, Keys
  <2>2. CASE bucket' = bucket
    BY <2>1, <2>2
  <2>3. CASE bucket' # bucket
    <3> DEFINE ks == <<_entry_key(job[r])>> \o job[r].listed
               n == IF Len(ks) > BucketSize THEN BucketSize ELSE Len(ks)
    <3>1. bucket' = SubSeq(ks, 1, n)
      BY <2>3 DEF bucket_set, cache_set, SemanticCache_set
    <3>2. ks \in Seq(Keys) /\ Len(ks) \in Nat
      BY <2>1, ConcatProperties, LenProperties DEF Listings
    <3> HIDE DEF ks
    <3>3. n \in Int /\ \A i \in 1..n : ks[i] \in Keys
      BY <3>2, LimitsAssumption, ElementOfSeq
    <3> HIDE DEF n
    <3> QED BY <3>1, <3>3, SubSeqProperties DEF Listings
  <2> QED BY <2>2, <2>3
<1>7. CachesVouched(generated, cache, entries) /\ \A e \in cache \cup entries : e[2] \in Texts
  BY DEF Sound, Typed, Justified, CachesVouched
<1>8. CachesVouched(generated', cache', entries') /\ \A e \in cache' \cup entries' : e[2] \in Texts
  <2>1. CASE cache_set(r)
    <3>1. cache' \subseteq cache \cup {<<Topic(job[r]), text>>} /\ entries' = entries
      BY <2>1 DEF cache_set, Put, rag_key
    <3> QED BY <3>1, <2>1, <1>1, <1>4, <1>7 DEF CachesVouched, cache_set
  <2>2. CASE SemanticCache_set(r)
    <3>1. entries' \subseteq entries \cup {<<_entry_key(job[r]), text>>} /\ cache' = cache
      BY <2>2 DEF SemanticCache_set, Put
    <3>2. [topic |-> Topic(job[r]), by |-> text.by] \in generated
      BY <2>2, <1>4 DEF SemanticCache_set
    <3>3. \E k \in generated : k.by = text.by /\ k.topic.question = _entry_key(job[r]).question
      <4>1. Topic(job[r]).question = _entry_key(job[r]).question
        BY DEF Topic, _entry_key
      <4> QED BY <3>2, <4>1
    <3> QED BY <3>1, <3>3, <1>1, <1>7 DEF CachesVouched
  <2>3. CASE bucket_set(r)
    BY <2>3, <1>1, <1>7 DEF CachesVouched, bucket_set
  <2> QED BY <2>1, <2>2, <2>3
<1> HIDE DEF text
<1>9. p \in Labels \ {"new", "open", "done"}
  BY DEF Labels, Fallible
<1> QED BY <1>1, <1>2, <1>3, <1>4, <1>5, <1>6, <1>8, <1>9, MovesKeeps

\* A step that ends the request and leaves the conversations alone.
LEMMA FinishesKeeps ==
  ASSUME Sound, Justified, NEW r \in Requests, pc[r] # "done",
         NEW st \in Statuses, NEW text \in Texts, NEW b \in BOOLEAN, End(r, st, text, b),
         UNCHANGED <<settings, heap, store, cache, entries, bucket, job>>,
         generated' \in {generated, Made(r)},
         text = NoText \/ Vouched(generated', text, Topic(job[r]))
  PROVE  Keeps
<1>1. job[r] \in Jobs /\ job' = [job EXCEPT ![r] = job[r]]
  BY DEF Sound, Typed
<1>2. Sound'
  <2>1. bucket' \in Listings /\ \A e \in cache' \cup entries' : e[2] \in Texts
    BY DEF Sound, Typed
  <2>2. \E n \in Jobs : job' = [job EXCEPT ![r] = n]
    BY <1>1
  <2>3. heap' \in Seq(Memories) /\ store' \in [Sessions -> 0..Len(heap')] /\ Pairs'
    BY ConversationsKept
  <2>4. settings' = settings /\ \E x \in Statuses, t \in Texts, y \in BOOLEAN : End(r, x, t, y)
    OBVIOUS
  <2> QED BY <2>1, <2>2, <2>3, <2>4, RequestStep
<1>3. Justified' /\ [A!Next]_(A!vars)
  BY <1>1, Finishes DEF Made
<1> QED BY <1>2, <1>3 DEF Keeps

LEMMA EndingSteps ==
  ASSUME Sound, Justified, NEW r \in Requests,
         \/ reject(r) \/ respond(r) \/ finish_skip(r) \/ passthrough(r) \/ rag_unavailable(r)
         \/ (orchestrator_ainvoke(r) /\ job[r].mode = "stream")
  PROVE  Keeps
<1>1. /\ pc[r] # "done" /\ job[r] \in Jobs /\ job[r].text \in Texts
      /\ UNCHANGED <<settings, heap, store, cache, entries, bucket, job>>
  BY DEF Sound, Typed, Jobs, reject, respond, finish_skip, passthrough, rag_unavailable,
         orchestrator_ainvoke, memVars, cacheVars, Fallible, generate_request_id
<1>2. NoText \in Texts
  BY DEF Texts
<1>3. CASE respond(r)
  <2>1. End(r, "answered", job[r].text, job[r].conv # 0 /\ job[r].src = "absent") /\ generated' = generated
    BY <1>3 DEF respond
  <2>2. job[r].text = NoText \/ Vouched(generated', job[r].text, Topic(job[r]))
    BY <2>1 DEF Justified
  <2>3. "answered" \in Statuses /\ (job[r].conv # 0 /\ job[r].src = "absent") \in BOOLEAN
    BY DEF Statuses
  <2> QED BY <1>1, <2>1, <2>2, <2>3, FinishesKeeps
<1>4. CASE passthrough(r)
  <2>1. End(r, "answered", Text(r, FALSE), FALSE) /\ generated' = Made(r)
    BY <1>4 DEF passthrough
  <2>2. Text(r, FALSE) \in Texts /\ Text(r, FALSE).by = r
    BY TextTyped
  <2>3. Vouched(generated', Text(r, FALSE), Topic(job[r]))
    BY <1>1, <2>1, <2>2, OwnAnswer DEF Made
  <2> QED BY <1>1, <2>1, <2>2, <2>3, FinishesKeeps DEF Statuses
<1>5. CASE ~respond(r) /\ ~passthrough(r)
  <2>1. PICK st \in {"failed", "listed", "garbled"} : End(r, st, NoText, FALSE) /\ generated' = generated
    BY <1>5 DEF reject, finish_skip, rag_unavailable, orchestrator_ainvoke
  <2>2. st \in Statuses
    BY DEF Statuses
  <2> QED BY <1>1, <1>2, <2>1, <2>2, FinishesKeeps
<1> QED BY <1>3, <1>4, <1>5

\* The conversation of a request after its turns, or only a summary, were added.
LEMMA Talked ==
  ASSUME Sound, NEW r \in Requests, NEW text \in Texts, NEW c, store' = store,
         \/ heap' = [heap EXCEPT ![c] = Said(Summarized(heap[c]), r, text)]
         \/ heap' = [heap EXCEPT ![c] = Summarized(heap[c])]
         \/ heap' = [heap EXCEPT ![c] = Said(heap[c], r, text)]
  PROVE  heap' \in Seq(Memories) /\ store' \in [Sessions -> 0..Len(heap')] /\ Pairs'
<1>1. Typed /\ Pairs
  BY DEF Sound
<1>2. ASSUME c \in 1..Len(heap)
      PROVE  \A m \in {Said(Summarized(heap[c]), r, text), Summarized(heap[c]), Said(heap[c], r, text)} :
               m \in Memories /\ (Paired(heap[c].turns) => Paired(m.turns))
  <2>1. heap[c] \in Memories
    BY <1>1, <1>2, ElementOfSeq DEF Typed
  <2>2. Summarized(heap[c]) \in Memories /\ (Paired(heap[c].turns) => Paired(Summarized(heap[c]).turns))
    BY <2>1, SummarizedPaired
  <2>3. /\ Said(Summarized(heap[c]), r, text) \in Memories
        /\ Paired(Summarized(heap[c]).turns) => Paired(Said(Summarized(heap[c]), r, text).turns)
    BY <1>1, <2>2, SaidPaired
  <2>4. Said(heap[c], r, text) \in Memories /\ (Paired(heap[c].turns) => Paired(Said(heap[c], r, text).turns))
    BY <1>1, <2>1, SaidPaired
  <2> QED BY <2>2, <2>3, <2>4
<1>3. PICK m \in {Said(Summarized(heap[c]), r, text), Summarized(heap[c]), Said(heap[c], r, text)} :
        heap' = [heap EXCEPT ![c] = m]
  OBVIOUS
<1>4. heap' \in Seq(Memories) /\ Len(heap') = Len(heap) /\ Pairs'
  BY <1>1, <1>2, <1>3, HeapEdit
<1> QED BY <1>1, <1>4 DEF Typed

LEMMA TalkingSteps ==
  ASSUME Sound, Justified, NEW r \in Requests,
         finish_plain(r) \/ resume_stream(r) \/ stream_completion(r)
  PROVE  Keeps
<1> DEFINE c == job[r].conv
           said == Text(r, job[r].src = "strong")
<1>1. /\ pc[r] \in {"resume", "chunks"} /\ job[r] \in Jobs /\ job[r].text \in Texts
      /\ UNCHANGED <<settings, store, cache, entries, bucket, job>>
  BY DEF Sound, Typed, Jobs, finish_plain, resume_stream, stream_completion, cacheVars
<1>2. said \in Texts /\ said.by = r
  BY TextTyped
<1> HIDE DEF said
<1>3. heap' \in Seq(Memories) /\ store' \in [Sessions -> 0..Len(heap')] /\ Pairs'
  <2>1. PICK text \in {job[r].text, said} :
          \/ heap' = [heap EXCEPT ![c] = Said(Summarized(heap[c]), r, text)]
          \/ heap' = [heap EXCEPT ![c] = Summarized(heap[c])]
          \/ heap' = [heap EXCEPT ![c] = Said(heap[c], r, text)]
    <3>1. CASE finish_plain(r)
      BY <3>1 DEF finish_plain
    <3>2. CASE resume_stream(r)
      BY <3>2 DEF resume_stream
    <3>3. CASE stream_completion(r)
      BY <3>3 DEF stream_completion, said
    <3> QED BY <3>1, <3>2, <3>3
  <2>2. text \in Texts
    BY <1>1, <1>2
  <2> HIDE DEF c
  <2> QED BY <1>1, <2>1, <2>2, Talked
<1>4. /\ bucket' \in Listings /\ \A e \in cache' \cup entries' : e[2] \in Texts
      /\ CachesVouched(generated, cache', entries')
  BY <1>1 DEF Sound, Typed, Justified, CachesVouched
<1>5. /\ job' = [job EXCEPT ![r] = job[r]] /\ Writes(r, job[r].text)
      /\ job[r].text = NoText \/ Vouched(generated, job[r].text, Topic(job[r]))
  BY <1>1, NothingWritten DEF Sound, Typed, Justified
<1>6. ASSUME NEW p \in {"log", "chunks"}, Goto(r, p), generated' = generated PROVE Keeps
  <2>1. p \in Labels \ {"new", "open", "done"} /\ p \notin {"set", "semantic_set"}
    BY DEF Labels, Fallible
  <2>2. Sound'
    BY <1>1, <1>3, <1>4, <1>5, <1>6, <2>1, RequestStep
  <2>3. Justified' /\ [A!Next]_(A!vars)
    BY <1>1, <1>4, <1>5, <1>6, <2>1, Moves DEF Goto
  <2> QED BY <2>2, <2>3 DEF Keeps
<1>7. ASSUME NEW st \in {"refused", "answered"}, NEW text \in Texts, End(r, st, text, FALSE),
             generated' \in {generated, Made(r)}, Vouched(generated', text, Topic(job[r])) \/ text = NoText
      PROVE  Keeps
  <2>1. st \in Statuses
    BY DEF Statuses
  <2>2. Sound'
    BY <1>1, <1>3, <1>4, <1>5, <1>7, <2>1, RequestStep
  <2>3. Justified' /\ [A!Next]_(A!vars)
    BY <1>1, <1>5, <1>7, Finishes DEF Made
  <2> QED BY <2>2, <2>3 DEF Keeps
<1>8. CASE finish_plain(r)
  BY <1>8, <1>6 DEF finish_plain
<1>9. CASE resume_stream(r)
  <2>1. generated' = generated /\ (Goto(r, "chunks") \/ End(r, "refused", job[r].text, FALSE))
    BY <1>9 DEF resume_stream
  <2> QED BY <2>1, <1>1, <1>5, <1>6, <1>7
<1>10. CASE stream_completion(r)
  <2>1. generated' = Made(r) /\ End(r, "answered", said, FALSE)
    BY <1>10 DEF stream_completion, said
  <2>2. Vouched(generated', said, Topic(job[r]))
    BY <1>1, <1>2, <2>1, OwnAnswer DEF Made
  <2> QED BY <2>1, <2>2, <1>2, <1>7
<1> QED BY <1>8, <1>9, <1>10

\* The first steps of a request, with or without a conversation.
LEMMA StartsKeeps ==
  ASSUME Sound, Justified, NEW r \in Requests, pc[r] \in {"new", "open"},
         NEW n \in Jobs, job' = [job EXCEPT ![r] = n], n.text = NoText,
         heap' \in Seq(Memories), store' \in [Sessions -> 0..Len(heap')], Pairs',
         UNCHANGED <<settings, cache, entries, bucket, generated>>,
         \/ \E p \in {"pass", "graph", "open", "semantic_get"} : Goto(r, p)
         \/ End(r, "failed", NoText, FALSE)
  PROVE  Keeps
<1>1. bucket' \in Listings /\ \A e \in cache' \cup entries' : e[2] \in Texts
  BY DEF Sound, Typed
<1>2. NoText \in Texts /\ "failed" \in Statuses
  BY DEF Texts, Statuses
<1>3. \A p \in {"pass", "graph", "open", "semantic_get"} :
        p \in Labels \ {"new", "done", "set", "semantic_set"}
  BY DEF Labels, Fallible
<1>4. Sound'
  <2>1. \/ \E p \in Labels : Goto(r, p)
        \/ \E st \in Statuses, t \in Texts, b \in BOOLEAN : End(r, st, t, b)
    BY <1>2, <1>3
  <2>2. settings' = settings /\ \E k \in Jobs : job' = [job EXCEPT ![r] = k]
    OBVIOUS
  <2> QED BY <1>1, <2>1, <2>2, RequestStep
<1>5. Justified' /\ [A!Next]_(A!vars)
  <2>1. ASSUME NEW p \in {"pass", "graph", "open", "semantic_get"}, Goto(r, p)
        PROVE  Justified' /\ [A!Next]_(A!vars)
    BY <2>1, <1>3, Begins DEF Goto
  <2>2. CASE End(r, "failed", NoText, FALSE)
    BY <2>2, <1>2, Finishes
  <2> QED BY <2>1, <2>2
<1> QED BY <1>4, <1>5 DEF Keeps

LEMMA StartingSteps ==
  ASSUME Sound, Justified, NEW r \in Requests,
         event_generator(r) \/ \E a \in Asks : chat_completions(r, a)
  PROVE  Keeps
<1>0. Typed /\ Pairs
  BY DEF Sound
<1>1. CASE event_generator(r)
  <2>1. /\ pc[r] = "open" /\ get_conversation(r, job[r]) /\ job[r] \in Jobs /\ job[r].text = NoText
        /\ UNCHANGED <<settings, cache, entries, bucket, generated>>
        /\ Goto(r, "semantic_get") \/ End(r, "failed", NoText, FALSE)
    BY <1>0, <1>1 DEF Typed, Justified, event_generator, cacheVars
  <2>2. /\ heap' \in Seq(Memories) /\ store' \in [Sessions -> 0..Len(heap')] /\ Pairs'
        /\ \E n \in Jobs : job' = [job EXCEPT ![r] = n] /\ n.text = NoText
    BY <1>0, <2>1, GotConversation
  <2>3. PICK n \in Jobs : job' = [job EXCEPT ![r] = n] /\ n.text = NoText
    BY <2>2
  <2> QED BY <2>1, <2>2, <2>3, StartsKeeps
<1>2. ASSUME NEW a \in Asks, chat_completions(r, a) PROVE Keeps
  <2> DEFINE j == [Idle EXCEPT !.session = a.session, !.question = a.question, !.mode = a.mode,
                               !.refresh = a.refresh]
  <2>1. j \in Jobs /\ j.text = NoText
    BY AskJob
  <2>2. /\ pc[r] = "new"
        /\ get_conversation(r, j) \/ (job' = [job EXCEPT ![r] = j] /\ UNCHANGED memVars)
        /\ UNCHANGED <<settings, cache, entries, bucket, generated>>
    BY <1>2 DEF chat_completions, cacheVars, generate_request_id
  <2>3. \/ \E p \in {"pass", "graph", "open", "semantic_get"} : Goto(r, p)
        \/ End(r, "failed", NoText, FALSE)
    <3> DEFINE goal == CASE a.mode = "pass" -> "pass"
                        [] a.mode \in {"plain", "stream"} /\ settings.graph -> "graph"
                        [] a.mode = "stream" /\ ~settings.graph -> "open"
                        [] OTHER -> "semantic_get"
    <3>1. Goto(r, goal) \/ End(r, "failed", NoText, FALSE)
      BY <1>2 DEF chat_completions
    <3>2. goal \in {"pass", "graph", "open", "semantic_get"}
      OBVIOUS
    <3> HIDE DEF goal
    <3> QED BY <3>1, <3>2
  <2> HIDE DEF j
  <2>4. /\ heap' \in Seq(Memories) /\ store' \in [Sessions -> 0..Len(heap')] /\ Pairs'
        /\ \E n \in Jobs : job' = [job EXCEPT ![r] = n] /\ n.text = NoText
    <3>1. CASE get_conversation(r, j)
      BY <3>1, <1>0, <2>1, GotConversation
    <3>2. CASE job' = [job EXCEPT ![r] = j] /\ UNCHANGED memVars
      BY <3>2, <2>1, ConversationsKept DEF memVars
    <3> QED BY <2>2, <3>1, <3>2
  <2>5. PICK n \in Jobs : job' = [job EXCEPT ![r] = n] /\ n.text = NoText
    BY <2>4
  <2> QED BY <2>2, <2>3, <2>4, <2>5, StartsKeeps
<1> QED BY <1>1, <1>2

-----------------------------------------------------------------------------
(* What happens around the requests *)

LEMMA QuietKeeps ==
  ASSUME Sound, Justified, UNCHANGED <<settings, pc, job, reply, heap, generated>>,
         store' \in [Sessions -> 0..Len(heap)], bucket' \in Listings,
         cache' \subseteq cache, entries' \subseteq entries
  PROVE  Keeps
<1>1. Sound'
  BY DEF Sound, Typed, Pairs
<1>2. Justified'
  BY DEF Justified, Vouched, A!Matches, Topic
<1>3. UNCHANGED A!vars
  <2>1. \A r \in Requests :
          Topic(IF Started(r) THEN job[r] ELSE Idle)' = Topic(IF Started(r) THEN job[r] ELSE Idle)
    BY DEF Started, Topic
  <2>2. TopicMap' = TopicMap
    BY <2>1 DEF TopicMap
  <2>3. PhaseMap' = PhaseMap /\ GivenMap' = GivenMap
    BY DEF PhaseMap, GivenMap, Started
  <2> QED BY <2>2, <2>3 DEF A!vars, TopicMap, PhaseMap, GivenMap
<1> QED BY <1>1, <1>2, <1>3 DEF Keeps

LEMMA AroundSteps ==
  ASSUME Sound, Justified,
         \/ \E s \in Sessions : Age(s)
         \/ prune_expired_sessions \/ CacheExpires \/ _initiate_shutdown \/ UNCHANGED vars
  PROVE  Keeps
<1>1. UNCHANGED <<settings, pc, job, reply, heap, generated>>
  BY DEF Age, prune_expired_sessions, CacheExpires, _initiate_shutdown, vars, memVars, cacheVars
<1>2. store' \in [Sessions -> 0..Len(heap)]
  <2>1. store \in [Sessions -> 0..Len(heap)] /\ Len(heap) \in Nat
    BY LenProperties DEF Sound, Typed
  <2>2. store' = store \/ store' = [s \in Sessions |-> IF s \in stale THEN 0 ELSE store[s]]
    BY DEF Age, prune_expired_sessions, CacheExpires, _initiate_shutdown, vars, memVars
  <2> QED BY <2>1, <2>2
<1>3. bucket' \in Listings
  <2>1. bucket' = bucket \/ bucket' = <<>>
    BY DEF Age, prune_expired_sessions, CacheExpires, _initiate_shutdown, vars, cacheVars
  <2>2. bucket \in Listings
    BY DEF Sound, Typed
  <2>3. <<>> \in Listings
    BY DEF Listings
  <2> QED BY <2>1, <2>2, <2>3
<1>4. cache' \subseteq cache /\ entries' \subseteq entries
  BY DEF Age, prune_expired_sessions, CacheExpires, _initiate_shutdown, vars, cacheVars
<1> QED BY <1>1, <1>2, <1>3, <1>4, QuietKeeps

\* Shutdown closes at once, and without an answer, what has begun.
LEMMA CancelKeeps ==
  ASSUME Sound, Justified, cancel_all PROVE Keeps
<1> DEFINE R == {r \in Requests : pc[r] \notin {"new", "done"}}
<1>1. /\ pc \in [Requests -> Labels] /\ reply \in [Requests -> Replies]
      /\ pc' = [r \in Requests |-> IF pc[r] = "new" THEN "new" ELSE "done"]
      /\ reply' = [r \in Requests |-> IF pc[r] \in {"new", "done"} THEN reply[r]
                                      ELSE [NoReply EXCEPT !.status = "failed"]]
      /\ UNCHANGED <<settings, job, heap, store, cache, entries, bucket, generated>>
  BY DEF Sound, Typed, cancel_all, memVars, cacheVars
<1>2. [NoReply EXCEPT !.status = "failed"] \in Replies /\ [NoReply EXCEPT !.status = "failed"].text = NoText
  BY DEF NoReply, Replies, Texts
<1>3. Sound'
  <2>1. pc' \in [Requests -> Labels] /\ reply' \in [Requests -> Replies]
    BY <1>1, <1>2 DEF Labels
  <2> QED BY <1>1, <2>1 DEF Sound, Typed, Pairs
<1>4. Justified'
  <2>1. \A o \in Requests :
          /\ job'[o].text = NoText \/ Vouched(generated, job[o].text, Topic(job[o]))'
          /\ pc'[o] \in {"new", "open"} => job'[o].text = NoText
          /\ pc'[o] \in {"set", "semantic_set"} =>
               [topic |-> Topic(job[o]), by |-> job[o].text.by]' \in generated'
    BY <1>1, VouchedLater
  <2> QED BY <2>1, <1>1 DEF Justified
<1>5. /\ \A o \in Requests \ R : pc'[o] = pc[o] /\ reply'[o] = reply[o]
      /\ \A o \in R : pc'[o] = "done" /\ reply'[o].text = NoText
  BY <1>1, <1>2
<1>6. \A o \in Requests \ R : TopicMap'[o] = TopicMap[o] /\ GivenMap'[o] = GivenMap[o]
  <2>1. ASSUME NEW o \in Requests \ R
        PROVE  Topic(IF Started(o) THEN job[o] ELSE Idle)' = Topic(IF Started(o) THEN job[o] ELSE Idle)
    BY <1>1, <1>5 DEF Started, Topic
  <2> QED BY <2>1, <1>5 DEF TopicMap, GivenMap
<1>7. /\ PhaseMap' = [o \in Requests |-> IF o \in R THEN "closed" ELSE PhaseMap[o]]
      /\ \A o \in R : PhaseMap[o] # "closed"
      /\ \A o \in R : GivenMap'[o] = NoText
  BY <1>5 DEF PhaseMap, GivenMap, Started
<1>8. CASE R = {}
  <2>1. TopicMap' = TopicMap /\ GivenMap' = GivenMap /\ PhaseMap' = PhaseMap
    BY <1>6, <1>7, <1>8 DEF TopicMap, GivenMap, PhaseMap
  <2> QED BY <1>1, <1>3, <1>4, <2>1 DEF Keeps, A!vars, TopicMap, PhaseMap, GivenMap
<1>9. CASE R # {}
  <2>1. PICK Q \in SUBSET Requests : Q = R
    OBVIOUS
  <2> HIDE DEF R
  <2>2. \A o \in Requests :
          IF o \notin Q THEN GivenMap'[o] = GivenMap[o] /\ TopicMap'[o] = TopicMap[o]
          ELSE \/ GivenMap'[o] = NoText
               \/ \E k \in generated' : k.by = GivenMap'[o].by /\ A!Matches(k.topic, TopicMap'[o])
    BY <1>6, <1>7, <2>1
  <2>3. A!Close(Q)
    BY <1>1, <1>7, <1>9, <2>1, <2>2 DEF A!Close, TopicMap, PhaseMap, GivenMap
  <2>4. A!Next
    BY <2>3 DEF A!Next
  <2> QED BY <1>3, <1>4, <2>4 DEF Keeps
<1> QED BY <1>8, <1>9

-----------------------------------------------------------------------------
(* Theorems *)

LEMMA InitSound == Init => Sound /\ Justified /\ A!Init
<1> SUFFICES ASSUME Init PROVE Sound /\ Justified /\ A!Init
  OBVIOUS
<1>1. Sound
  BY InitTyped DEF Sound, Pairs, Init
<1>2. Justified
  BY IdleJob DEF Init, Justified
<1>3. A!Init
  BY DEF Init, A!Init, NoReply, Started
<1> QED BY <1>1, <1>2, <1>3

LEMMA NextKeeps == Sound /\ Justified /\ [Next]_vars => Keeps
<1> SUFFICES ASSUME Sound, Justified, [Next]_vars PROVE Keeps
  OBVIOUS
<1>1. ASSUME NEW r \in Requests, Runs(r) PROVE Keeps
  BY <1>1, CacheReads, QuietSteps, GeneratingSteps, StoringSteps, EndingSteps, TalkingSteps,
     StartingSteps DEF Runs
<1>2. ASSUME NEW r \in Requests, Arrives(r) \/ rag_unavailable(r) PROVE Keeps
  BY <1>2, StartingSteps, EndingSteps DEF Arrives
<1> QED BY <1>1, <1>2, AroundSteps, CancelKeeps DEF Next

LEMMA Invariance == Spec => [](Sound /\ Justified)
<1>1. Sound /\ Justified /\ [Next]_vars => (Sound /\ Justified)'
  BY NextKeeps DEF Keeps
<1> QED BY InitSound, <1>1, PTL DEF Spec

\* Concurrent requests, summaries and pruning may interleave as they like: in
\* every conversation each answer directly follows the question of its request.
THEOREM AnswersPaired == Spec => []AnswersFollowQuestions
<1>1. Sound => AnswersFollowQuestions
  BY DEF Sound, Typed, Pairs, Paired, AnswersFollowQuestions
<1> QED BY Invariance, <1>1, PTL

\* The chat API, with its pipeline, both response caches, the conversation
\* store, failures, lost clients and shutdown, implements AnswerService: each
\* request is closed once, and with no answer but its own or one generated for
\* a matching request.
THEOREM Refinement == Spec => ImplementsAnswers
<1>1. Sound /\ Justified /\ [Next]_vars => [A!Next]_(A!vars)
  BY NextKeeps DEF Keeps
<1> QED BY InitSound, Invariance, <1>1, PTL DEF Spec, ImplementsAnswers, A!Spec
=============================================================================

------------------------------ MODULE RagGraph ------------------------------
(***************************************************************************)
(* The agentic RAG state graph (proxy/app/core/orchestrator).              *)
(*                                                                         *)
(* One behaviour is one RAGOrchestrator.invoke: the graph starts at        *)
(* "rewrite", every step runs one node to completion, merges the dict the  *)
(* node returns into the state, and follows the node's edge.  What the     *)
(* LLM, the SLM, Qdrant and the confidence scorer answer is chosen         *)
(* nondeterministically; texts are abstracted to what the guards tell      *)
(* apart.                                                                  *)
(***************************************************************************)
EXTENDS Integers

CONSTANTS
  MaxRetrievalLoops,   \* MAX_RETRIEVAL_LOOPS, 3 by default
  MaxVerifyLoops,      \* MAX_VERIFY_LOOPS, 2 by default
  MaxRewrites,         \* state.get("max_rewrites", 2) in self_critique
  ReflectionDepth,     \* REFLECTION_DEPTH, 2 by default
  MaxToolLoops,        \* max_tool_loops in _route_after_generate, 5
  ReflectionEnabled, HallucinationCheckEnabled, SelfCritiqueEnabled

ASSUME BoundsAssumption ==
  /\ MaxRetrievalLoops \in Nat
  /\ MaxVerifyLoops \in Nat
  /\ MaxRewrites \in Nat
  /\ ReflectionDepth \in Nat
  /\ MaxToolLoops \in Nat

ASSUME SwitchesAssumption ==
  /\ ReflectionEnabled \in BOOLEAN
  /\ HallucinationCheckEnabled \in BOOLEAN
  /\ SelfCritiqueEnabled \in BOOLEAN

VARIABLES
  carryUndeclared, \* does the runtime's merge keep keys outside RAGState?
  node,            \* the node about to run, or "end" / "error"
  rewriteCount,    \* rewrite_count
  chunks,          \* retrieved_chunks: none, average score < 0.6, or >= 0.6
  answer,          \* answer: not there or "", only blanks, or text
  toolCalls,       \* is tool_calls non-empty?
  toolLoopCount,   \* tool_loop_count
  reflectionCount, \* reflection_count           (not declared by RAGState)
  critiqueCount,   \* self_critique_count        (not declared by RAGState)
  needsReflection, needsEscalation, needsSelfCritique, needsRewrite,
                   \* routing flags              (not declared by RAGState)
  generations      \* history: how often generate called the LLM

loopVars  == <<rewriteCount, toolLoopCount, reflectionCount, critiqueCount>>
flagVars  == <<needsReflection, needsEscalation, needsSelfCritique, needsRewrite>>
vars == <<carryUndeclared, node, chunks, answer, toolCalls, loopVars, flagVars, generations>>

Nodes == {"rewrite", "retrieve", "check_sufficiency", "rerank", "graph_expand",
          "build_context", "generate", "call_tools", "self_reflection",
          "check_confidence", "self_critique"}
Final == {"end", "error"}
Quality == {"none", "low", "good"}
Texts   == {"none", "blank", "text"}

\* The merge of a node's update for a key outside RAGState.
Merge(old, new) == IF carryUndeclared THEN new ELSE old

\* The caller gives the query; only a caller can put tool calls in the state.
Init ==
  /\ carryUndeclared \in BOOLEAN
  /\ node = "rewrite"
  /\ chunks = "none"
  /\ answer = "none"
  /\ toolCalls \in BOOLEAN
  /\ rewriteCount = 0 /\ toolLoopCount = 0
  /\ reflectionCount = 0 /\ critiqueCount = 0
  /\ needsReflection = FALSE /\ needsEscalation = FALSE
  /\ needsSelfCritique = FALSE /\ needsRewrite = FALSE
  /\ generations = 0

-----------------------------------------------------------------------------
(* Nodes.  An exception inside rewrite and retrieve is caught and gives    *)
(* the same update as an answer, so it needs no case of its own.           *)

rewrite_query ==
  /\ node = "rewrite"
  /\ rewriteCount' = IF rewriteCount >= MaxRetrievalLoops
                     THEN rewriteCount ELSE rewriteCount + 1
  /\ node' = "retrieve"
  /\ UNCHANGED <<chunks, answer, toolCalls, toolLoopCount, reflectionCount,
                 critiqueCount, flagVars, generations>>

retrieve ==
  /\ node = "retrieve"
  /\ chunks' \in Quality
  /\ node' = "check_sufficiency"
  /\ UNCHANGED <<answer, toolCalls, loopVars, flagVars, generations>>

\* Variant: low scores always ask for another rewrite.
check_sufficiency_unbounded ==
  /\ node = "check_sufficiency"
  /\ node' = IF chunks \in {"none", "low"} THEN "rewrite" ELSE "rerank"
  /\ UNCHANGED <<chunks, answer, toolCalls, loopVars, flagVars, generations>>

check_sufficiency ==
  /\ node = "check_sufficiency"
  /\ node' = IF \/ chunks = "none"
                \/ chunks = "low" /\ rewriteCount < MaxRetrievalLoops
             THEN "rewrite" ELSE "rerank"
  /\ UNCHANGED <<chunks, answer, toolCalls, loopVars, flagVars, generations>>

\* rerank, graph_expand and build_context change only texts.
PassOn(from, to) ==
  /\ node = from
  /\ node' = to
  /\ UNCHANGED <<chunks, answer, toolCalls, loopVars, flagVars, generations>>

rerank             == PassOn("rerank", "graph_expand")
graph_expand       == PassOn("graph_expand", "build_context")
build_context_node == PassOn("build_context", "generate")

\* Code outside the nodes' try blocks may raise (time decay, the reranker, the
\* context builder, the confidence scorer): that ends the invocation.
node_raises ==
  /\ \/ node \in {"retrieve", "rerank", "build_context"}
     \/ node = "check_confidence" /\ answer # "none" /\ HallucinationCheckEnabled
  /\ node' = "error"
  /\ UNCHANGED <<chunks, answer, toolCalls, loopVars, flagVars, generations>>

_route_after_generate ==
  IF toolCalls /\ toolLoopCount < MaxToolLoops THEN "call_tools"
  ELSE "self_reflection"

generate ==
  /\ node = "generate"
  /\ answer' \in Texts
  /\ generations' = generations + 1
  /\ node' = _route_after_generate
  /\ UNCHANGED <<chunks, toolCalls, loopVars, flagVars>>

\* The LLM call is not guarded: its exception leaves the graph.
generate_fails ==
  /\ node = "generate"
  /\ generations' = generations + 1
  /\ node' = "error"
  /\ UNCHANGED <<chunks, answer, toolCalls, loopVars, flagVars>>

call_tools ==
  /\ node = "call_tools"
  /\ toolCalls' = FALSE
  /\ toolLoopCount' = toolLoopCount + 1
  /\ node' = "generate"
  /\ UNCHANGED <<chunks, answer, rewriteCount, reflectionCount, critiqueCount,
                 flagVars, generations>>

\* Variant: an unsupported answer does not count as a cycle.
self_reflection_uncounted ==
  /\ node = "self_reflection"
  /\ \E supported \in BOOLEAN :
       LET asks == /\ ReflectionEnabled
                   /\ answer = "text"
                   /\ reflectionCount < ReflectionDepth
       IN  /\ needsReflection' = Merge(needsReflection, asks /\ ~supported)
           /\ reflectionCount' = Merge(reflectionCount,
                IF asks /\ supported THEN reflectionCount + 1 ELSE reflectionCount)
  /\ node' = IF needsReflection' THEN "retrieve" ELSE "check_confidence"
  /\ UNCHANGED <<chunks, answer, toolCalls, rewriteCount, toolLoopCount,
                 critiqueCount, needsEscalation, needsSelfCritique,
                 needsRewrite, generations>>

\* supported: the SLM's verdict; a failed SLM call accepts the answer too.
self_reflection ==
  /\ node = "self_reflection"
  /\ \E supported \in BOOLEAN :
       LET asks == /\ ReflectionEnabled
                   /\ answer = "text"
                   /\ reflectionCount < ReflectionDepth
       IN  /\ needsReflection' = Merge(needsReflection, asks /\ ~supported)
           /\ reflectionCount' = Merge(reflectionCount,
                IF asks THEN reflectionCount + 1 ELSE reflectionCount)
  /\ node' = IF needsReflection' THEN "retrieve" ELSE "check_confidence"
  /\ UNCHANGED <<chunks, answer, toolCalls, rewriteCount, toolLoopCount,
                 critiqueCount, needsEscalation, needsSelfCritique,
                 needsRewrite, generations>>

check_confidence ==
  /\ node = "check_confidence"
  /\ \E confident \in BOOLEAN :
       LET scored   == answer # "none" /\ HallucinationCheckEnabled
           escalate == /\ scored
                       /\ ~confident
                       /\ rewriteCount < MaxVerifyLoops
           critique == /\ scored
                       /\ SelfCritiqueEnabled
                       /\ answer = "text"
                       /\ ~escalate
                       /\ critiqueCount < 1
       IN  /\ needsEscalation'   = Merge(needsEscalation, escalate)
           /\ needsSelfCritique' = Merge(needsSelfCritique, critique)
  /\ node' = IF needsEscalation' THEN "rewrite"
             ELSE IF needsSelfCritique' THEN "self_critique" ELSE "end"
  /\ UNCHANGED <<chunks, answer, toolCalls, loopVars, needsReflection,
                 needsRewrite, generations>>

\* useful: the SLM scored the answer 3 or more; a failed call counts as 3.
self_critique ==
  /\ node = "self_critique"
  /\ \E useful \in BOOLEAN :
       LET asks == answer = "text" /\ rewriteCount < MaxRewrites
       IN  /\ needsRewrite' = Merge(needsRewrite, asks /\ ~useful)
           /\ critiqueCount' = Merge(critiqueCount,
                IF asks THEN critiqueCount + 1 ELSE critiqueCount)
  /\ node' = IF needsRewrite' THEN "rewrite" ELSE "end"
  /\ UNCHANGED <<chunks, answer, toolCalls, rewriteCount, toolLoopCount,
                 reflectionCount, needsReflection, needsEscalation,
                 needsSelfCritique, generations>>

\* ainvoke has returned or raised: nothing runs any more.
Done == node \in Final /\ UNCHANGED vars

Step ==
  /\ UNCHANGED carryUndeclared
  /\ \/ rewrite_query \/ retrieve \/ check_sufficiency
     \/ rerank \/ node_raises \/ graph_expand \/ build_context_node
     \/ generate \/ generate_fails \/ call_tools
     \/ self_reflection \/ check_confidence \/ self_critique

Next == Step \/ Done
Spec == Init /\ [][Next]_vars

\* The graph runtime keeps running nodes until the graph ends.
FairSpec == Spec /\ WF_vars(Step)

-----------------------------------------------------------------------------
(* Properties. *)

TypeOK ==
  /\ carryUndeclared \in BOOLEAN
  /\ node \in Nodes \cup Final
  /\ rewriteCount \in 0..MaxRetrievalLoops
  /\ toolLoopCount \in 0..MaxToolLoops
  /\ reflectionCount \in 0..ReflectionDepth
  /\ critiqueCount \in 0..1
  /\ chunks \in Quality
  /\ answer \in Texts
  /\ toolCalls \in BOOLEAN
  /\ needsReflection \in BOOLEAN
  /\ needsEscalation \in BOOLEAN
  /\ needsSelfCritique \in BOOLEAN
  /\ needsRewrite \in BOOLEAN
  /\ generations \in Nat

\* The configured bounds are consistent, as they are by default (2, 2 and 3):
\* rewrite_query then counts every rewrite the later checks ask for.
LoopBoundsOrdered ==
  MaxVerifyLoops <= MaxRetrievalLoops /\ MaxRewrites <= MaxRetrievalLoops

\* How many rewrites after the first one a bound on rewrite_count allows.
Extra(bound) == IF bound = 0 THEN 0 ELSE bound - 1

LoopLimit == IF MaxVerifyLoops > MaxRewrites THEN MaxVerifyLoops ELSE MaxRewrites

\* The cost of one invocation.  generate is reached along four loops (tools,
\* reflection, escalation, critique), each with a counter of its own that the
\* other loops do not touch; together they still allow only one answer, one
\* more after the caller's tool calls, REFLECTION_DEPTH more after reflection
\* and LoopLimit - 1 more after rewrites, not the product of the bounds.
GenerationBudget ==
  LoopBoundsOrdered =>
    generations <= 2 + ReflectionDepth + Extra(LoopLimit)

\* When the merge drops the keys that RAGState does not declare, needs_* and
\* the loop counters never arrive at the routing functions: reflection,
\* escalation and self-critique are inert whatever the switches say.
UndeclaredLoopsInert ==
  ~carryUndeclared => generations <= 1 + toolLoopCount

\* Every invocation ends: the graph has no endless path.
Terminates == <>(node \in Final)

\* Every invocation ends provided that, from some point on, retrieval returns
\* something: low scores, unsupported answers, low confidence and poor
\* critique scores alone cannot keep the graph running.
TerminatesWhenFound ==
  <>[](node = "check_sufficiency" => chunks # "none") => Terminates
=============================================================================

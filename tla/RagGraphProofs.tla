--------------------------- MODULE RagGraphProofs ---------------------------
(***************************************************************************)
(* Proofs about RagGraph, for every choice of the loop bounds and of the   *)
(* feature switches: the counters stay in range, and the number of answers *)
(* generated in one invocation is bounded by the sum of the loop bounds.   *)
(***************************************************************************)
EXTENDS RagGraph, TLAPS

\* Nodes from which generate is still to come before the next routing choice.
Owing == {"rewrite", "retrieve", "check_sufficiency", "rerank",
          "graph_expand", "build_context", "generate"}

Debt == IF node \in Owing THEN 1 ELSE 0

\* Rewrites after the first that can have led to another answer.
Credit(r) == IF r = 0 \/ LoopLimit = 0 THEN 0
             ELSE IF r < LoopLimit THEN r - 1 ELSE LoopLimit - 1

\* A rewrite that was asked for and that rewrite_query is about to count.
Advance == IF node = "rewrite" /\ rewriteCount >= 1 /\ rewriteCount < LoopLimit
           THEN 1 ELSE 0

\* Dropped flags never become true.
FlagsInv ==
  ~carryUndeclared => /\ ~needsReflection /\ ~needsEscalation
                      /\ ~needsSelfCritique /\ ~needsRewrite

\* Without the flags only tool calls lead back to generate.
InertInv == ~carryUndeclared => generations + Debt <= 1 + toolLoopCount

\* The caller's tool calls are served at most once.
ToolInv ==
  /\ toolLoopCount <= 1
  /\ toolCalls => toolLoopCount = 0
  /\ node = "call_tools" => toolCalls /\ toolLoopCount < MaxToolLoops

CritiqueInv == node = "self_critique" => critiqueCount = 0

RewriteInv == node # "rewrite" => rewriteCount >= 1 \/ MaxRetrievalLoops = 0

\* Every answer is paid for by exactly one counter.
LedgerInv ==
  LoopBoundsOrdered =>
    generations + Debt <= 1 + toolLoopCount + reflectionCount
                            + Credit(rewriteCount) + Advance

\* The inductive invariant.
IInv == /\ TypeOK
        /\ FlagsInv
        /\ InertInv
        /\ ToolInv
        /\ CritiqueInv
        /\ RewriteInv
        /\ LedgerInv

-----------------------------------------------------------------------------
USE BoundsAssumption, SwitchesAssumption

\* LoopLimit is one of the two configured bounds.
LEMMA LoopLimitType ==
  /\ LoopLimit \in Nat
  /\ MaxVerifyLoops <= LoopLimit
  /\ MaxRewrites <= LoopLimit
  /\ LoopBoundsOrdered => LoopLimit <= MaxRetrievalLoops
BY DEF LoopLimit, LoopBoundsOrdered

\* The initial state of an invocation satisfies the inductive invariant.
LEMMA InitIInv == Init => IInv
<1> SUFFICES ASSUME Init PROVE IInv
  OBVIOUS
<1> USE DEF Init
<1>1. TypeOK
  <2>1. /\ rewriteCount \in 0..MaxRetrievalLoops
        /\ toolLoopCount \in 0..MaxToolLoops
        /\ reflectionCount \in 0..ReflectionDepth
        /\ critiqueCount \in 0..1
        /\ generations \in Nat
    OBVIOUS
  <2> QED
    BY <2>1, Zenon DEF TypeOK, Nodes, Final, Quality, Texts
<1>2. FlagsInv /\ InertInv /\ ToolInv /\ CritiqueInv /\ RewriteInv
  BY DEF FlagsInv, InertInv, Debt, Owing, ToolInv, CritiqueInv, RewriteInv
<1>3. LedgerInv
  BY LoopLimitType DEF LedgerInv, Debt, Owing, Credit, Advance
<1> QED
  BY <1>1, <1>2, <1>3 DEF IInv

\* Every node of the graph preserves the inductive invariant.
LEMMA StepIInv == IInv /\ [Next]_vars => IInv'
<1> SUFFICES ASSUME IInv, [Next]_vars PROVE IInv'
  OBVIOUS
<1> USE LoopLimitType
    DEF IInv, TypeOK, FlagsInv, InertInv, ToolInv, CritiqueInv, RewriteInv, LedgerInv,
        Debt, Owing, Credit, Advance, Nodes, Final, Quality, Texts,
        loopVars, flagVars
<1>0. carryUndeclared' = carryUndeclared
  BY DEF Next, Step, Done, vars
<1> USE <1>0
<1>1. CASE rewrite_query
  BY <1>1 DEF rewrite_query, LoopBoundsOrdered
<1>2. CASE retrieve
  BY <1>2 DEF retrieve
<1>3. CASE check_sufficiency
  BY <1>3 DEF check_sufficiency
<1>4. CASE rerank \/ graph_expand \/ build_context_node
  BY <1>4 DEF rerank, graph_expand, build_context_node, PassOn
<1>5. CASE node_raises
  BY <1>5 DEF node_raises
<1>6. CASE generate
  BY <1>6 DEF generate, _route_after_generate
<1>7. CASE generate_fails
  BY <1>7 DEF generate_fails
<1>8. CASE call_tools
  <2>1. toolLoopCount' \in 0..MaxToolLoops
    BY <1>8 DEF call_tools
  <2>10. TypeOK'
    BY <1>8, <2>1, Zenon DEF call_tools
  <2>11. FlagsInv' /\ InertInv' /\ ToolInv' /\ CritiqueInv' /\ RewriteInv'
    BY <1>8 DEF call_tools
  <2>12. LedgerInv'
    BY <1>8 DEF call_tools
  <2> QED
    BY <2>10, <2>11, <2>12
<1>9. CASE self_reflection
  <2>1. PICK supported \in BOOLEAN, asks \in BOOLEAN :
          /\ asks => reflectionCount < ReflectionDepth
          /\ needsReflection' = Merge(needsReflection, asks /\ ~supported)
          /\ reflectionCount' = Merge(reflectionCount,
               IF asks THEN reflectionCount + 1 ELSE reflectionCount)
    BY <1>9 DEF self_reflection
  <2>2. /\ needsReflection' \in BOOLEAN
        /\ ~carryUndeclared => ~needsReflection'
        /\ reflectionCount' \in 0..ReflectionDepth
        /\ needsReflection' => reflectionCount' = reflectionCount + 1
        /\ reflectionCount' >= reflectionCount
    <3>1. CASE carryUndeclared
      <4>1. needsReflection' = (asks /\ ~supported)
        BY <2>1, <3>1, Zenon DEF Merge
      <4>2. reflectionCount' = IF asks THEN reflectionCount + 1 ELSE reflectionCount
        BY <2>1, <3>1, Zenon DEF Merge
      <4>3. needsReflection' \in BOOLEAN /\ (needsReflection' => asks)
        BY <4>1, Zenon
      <4> QED
        BY <2>1, <3>1, <4>2, <4>3
    <3>2. CASE ~carryUndeclared
      BY <2>1, <3>2 DEF Merge
    <3> QED
      BY <3>1, <3>2
  <2>10. TypeOK'
    BY <1>9, <2>2 DEF self_reflection
  <2>11. FlagsInv' /\ InertInv' /\ ToolInv' /\ CritiqueInv' /\ RewriteInv'
    BY <1>9, <2>2 DEF self_reflection
  <2>12. LedgerInv'
    BY <1>9, <2>2 DEF self_reflection
  <2> QED
    BY <2>10, <2>11, <2>12
<1>10. CASE check_confidence
  <2>1. PICK escalate \in BOOLEAN, critique \in BOOLEAN :
          /\ escalate => rewriteCount < MaxVerifyLoops
          /\ critique => critiqueCount < 1
          /\ needsEscalation'   = Merge(needsEscalation, escalate)
          /\ needsSelfCritique' = Merge(needsSelfCritique, critique)
    BY <1>10 DEF check_confidence
  <2>2. /\ needsEscalation' \in BOOLEAN
        /\ needsSelfCritique' \in BOOLEAN
        /\ ~carryUndeclared => ~needsEscalation' /\ ~needsSelfCritique'
        /\ needsEscalation' => rewriteCount < MaxVerifyLoops
        /\ needsSelfCritique' => critiqueCount = 0
    BY <2>1 DEF Merge
  <2>10. TypeOK'
    BY <1>10, <2>2 DEF check_confidence, LoopBoundsOrdered
  <2>11. FlagsInv' /\ InertInv' /\ ToolInv' /\ CritiqueInv' /\ RewriteInv'
    BY <1>10, <2>2 DEF check_confidence, LoopBoundsOrdered
  <2>12. LedgerInv'
    <3>1. CASE needsEscalation'
      <4>1. node' = "rewrite" /\ node = "check_confidence"
        BY <1>10, <3>1 DEF check_confidence
      <4>2. LoopBoundsOrdered => rewriteCount >= 1 /\ rewriteCount < LoopLimit
        BY <2>2, <3>1, <4>1 DEF LoopBoundsOrdered
      <4>3. LoopBoundsOrdered => generations <= 1 + toolLoopCount
              + reflectionCount + Credit(rewriteCount)
        BY <4>1
      <4>4. Debt' = 1 /\ (LoopBoundsOrdered => Advance' = 1)
        BY <1>10, <4>1, <4>2 DEF check_confidence
      <4>5. Credit(rewriteCount) \in Int
        OBVIOUS
      <4> HIDE DEF Credit, Debt, Advance
      <4> QED
        BY <1>10, <4>2, <4>3, <4>4, <4>5 DEF check_confidence
    <3>2. CASE ~needsEscalation'
      <4>1. node' \in {"self_critique", "end"} /\ node = "check_confidence"
        BY <1>10, <3>2 DEF check_confidence
      <4> QED
        BY <1>10, <2>2, <3>2, <4>1 DEF check_confidence
    <3> QED
      BY <3>1, <3>2
  <2> QED
    BY <2>10, <2>11, <2>12
<1>11. CASE self_critique
  <2>1. PICK useful \in BOOLEAN, asks \in BOOLEAN :
          /\ asks => rewriteCount < MaxRewrites
          /\ needsRewrite' = Merge(needsRewrite, asks /\ ~useful)
          /\ critiqueCount' = Merge(critiqueCount,
               IF asks THEN critiqueCount + 1 ELSE critiqueCount)
    BY <1>11 DEF self_critique
  <2>2. /\ needsRewrite' \in BOOLEAN
        /\ ~carryUndeclared => ~needsRewrite'
        /\ needsRewrite' => rewriteCount < MaxRewrites
        /\ critiqueCount' \in 0..1
    <3>1. CASE carryUndeclared
      <4>1. needsRewrite' = (asks /\ ~useful)
        BY <2>1, <3>1, Zenon DEF Merge
      <4>2. critiqueCount' = IF asks THEN critiqueCount + 1 ELSE critiqueCount
        BY <2>1, <3>1, Zenon DEF Merge
      <4>3. needsRewrite' \in BOOLEAN /\ (needsRewrite' => asks)
        BY <4>1, Zenon
      <4> QED
        BY <1>11, <2>1, <3>1, <4>2, <4>3 DEF self_critique
    <3>2. CASE ~carryUndeclared
      BY <2>1, <3>2 DEF Merge
    <3> QED
      BY <3>1, <3>2
  <2>10. TypeOK'
    BY <1>11, <2>2 DEF self_critique, LoopBoundsOrdered
  <2>11. FlagsInv' /\ InertInv' /\ ToolInv' /\ CritiqueInv' /\ RewriteInv'
    BY <1>11, <2>2 DEF self_critique, LoopBoundsOrdered
  <2>12. LedgerInv'
    BY <1>11, <2>2 DEF self_critique, LoopBoundsOrdered
  <2> QED
    BY <2>10, <2>11, <2>12
<1>12. CASE Done \/ UNCHANGED vars
  BY <1>12 DEF Done, vars
<1> QED
  BY <1>1, <1>2, <1>3, <1>4, <1>5, <1>6, <1>7, <1>8, <1>9, <1>10, <1>11, <1>12
     DEF Next, Step

\* The strengthening implies the properties the model checker runs check.
LEMMA IInvImplies == IInv => GenerationBudget /\ UndeclaredLoopsInert
<1>1. IInv => GenerationBudget
  BY LoopLimitType
     DEF IInv, TypeOK, ToolInv, LedgerInv, GenerationBudget, Debt, Credit,
         Advance, Extra
<1>2. IInv => UndeclaredLoopsInert
  BY DEF IInv, TypeOK, InertInv, UndeclaredLoopsInert, Debt
<1> QED
  BY <1>1, <1>2

\* Every reachable state satisfies the inductive invariant.
THEOREM Invariance == Spec => []IInv
BY InitIInv, StepIInv, PTL DEF Spec

\* The loop counters of rewrite_query, call_tools, self_reflection and
\* self_critique never leave their configured ranges.
THEOREM TypeCorrect == Spec => []TypeOK
<1>1. IInv => TypeOK
  BY DEF IInv
<1> QED
  BY <1>1, Invariance, PTL

\* One invocation calls the LLM for an answer at most
\* 2 + REFLECTION_DEPTH + (max(MAX_VERIFY_LOOPS, max_rewrites) - 1) times.
THEOREM BoundedGenerations == Spec => []GenerationBudget
BY Invariance, IInvImplies, PTL

\* When the runtime drops the keys RAGState does not declare, reflection,
\* escalation and self-critique never lead to another answer.
THEOREM LoopsInert == Spec => []UndeclaredLoopsInert
BY Invariance, IInvImplies, PTL
=============================================================================

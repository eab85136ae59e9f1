------------------------ MODULE CircuitBreakerProofs ------------------------
(***************************************************************************)
(* Proofs about CircuitBreaker, for any finite set of callers and any      *)
(* limits.                                                                 *)
(***************************************************************************)
EXTENDS CircuitBreaker, FiniteSetTheorems, TLAPS

\* The running calls of the half-open period each hold a slot.
SlotInv == cb = "half_open" => Cardinality(round \cap Guarded) <= halfOpenCalls

\* The inductive invariant.
IInv == TypeOK /\ CountMatchesState /\ SlotInv

-----------------------------------------------------------------------------
USE CallersAssumption, LimitsAssumption

\* Adding one caller to a set of callers adds at most one to its size, and a
\* smaller set is not larger.
LEMMA GuardedCard ==
  ASSUME NEW S \in SUBSET Callers
  PROVE  /\ Cardinality(S \cap Guarded) \in Nat
         /\ \A c \in Callers \ S :
              Cardinality((S \cup {c}) \cap Guarded) <= Cardinality(S \cap Guarded) + 1
         /\ \A c \in Callers \ Guarded :
              Cardinality((S \cup {c}) \cap Guarded) = Cardinality(S \cap Guarded)
         /\ \A T \in SUBSET S :
              Cardinality(T \cap Guarded) <= Cardinality(S \cap Guarded)
<1>1. IsFiniteSet(S \cap Guarded)
  BY FS_Subset DEF Callers
<1>2. Cardinality(S \cap Guarded) \in Nat
  BY <1>1, FS_CardinalityType
<1>3. ASSUME NEW c \in Callers \ S
      PROVE  Cardinality((S \cup {c}) \cap Guarded) <= Cardinality(S \cap Guarded) + 1
  <2>1. CASE c \in Guarded
    <3>1. (S \cup {c}) \cap Guarded = (S \cap Guarded) \cup {c}
      BY <2>1
    <3>2. Cardinality((S \cap Guarded) \cup {c}) = Cardinality(S \cap Guarded) + 1
      BY <1>1, <1>3, FS_AddElement
    <3>3. Cardinality((S \cup {c}) \cap Guarded) = Cardinality(S \cap Guarded) + 1
      BY <3>1, <3>2, Zenon
    <3> QED
      BY <1>2, <3>3
  <2>2. CASE c \notin Guarded
    <3>1. (S \cup {c}) \cap Guarded = S \cap Guarded
      BY <2>2
    <3>2. Cardinality((S \cup {c}) \cap Guarded) = Cardinality(S \cap Guarded)
      BY <3>1, Zenon
    <3> QED
      BY <1>2, <3>2
  <2> QED
    BY <2>1, <2>2
<1>4. ASSUME NEW c \in Callers \ Guarded
      PROVE  Cardinality((S \cup {c}) \cap Guarded) = Cardinality(S \cap Guarded)
  <2>1. (S \cup {c}) \cap Guarded = S \cap Guarded
    OBVIOUS
  <2> QED
    BY <2>1
<1>5. ASSUME NEW T \in SUBSET S
      PROVE  Cardinality(T \cap Guarded) <= Cardinality(S \cap Guarded)
  <2>1. T \cap Guarded \subseteq S \cap Guarded
    OBVIOUS
  <2> QED
    BY <1>1, <2>1, FS_Subset
<1> QED
  BY <1>2, <1>3, <1>4, <1>5

\* No caller is running in the empty period.
LEMMA NoneRunning == Cardinality({} \cap Guarded) = 0
<1>1. {} \cap Guarded = {}
  OBVIOUS
<1> QED
  BY <1>1, FS_EmptySet

\* A new breaker satisfies the invariant.
LEMMA InitIInv == Init => IInv
<1> SUFFICES ASSUME Init PROVE IInv
  OBVIOUS
<1>1. TypeOK
  <2>1. /\ failureCount \in 0..CountCap
        /\ halfOpenCalls \in 0..HalfOpenMax
        /\ attempt \in [Callers -> 0..MaxRetries]
    BY DEF Init
  <2> QED
    BY <2>1, Zenon DEF Init, TypeOK, States
<1>2. CountMatchesState /\ SlotInv
  BY DEF Init, CountMatchesState, SlotInv
<1> QED
  BY <1>1, <1>2 DEF IInv

\* Recording a success keeps the breaker's part of the invariant.
LEMMA SuccessKeeps ==
  ASSUME TypeOK, success
  PROVE  /\ cb' = "closed" /\ failureCount' = 0
         /\ halfOpenCalls' = halfOpenCalls /\ cooled' = cooled
BY DEF success

\* Recording a failure keeps the count and the state together, and leaves
\* no half-open period running.
LEMMA FailureKeeps ==
  ASSUME TypeOK, CountMatchesState, failure
  PROVE  /\ cb' \in {"closed", "open"}
         /\ failureCount' \in 0..CountCap
         /\ halfOpenCalls' = halfOpenCalls
         /\ cooled' \in BOOLEAN
         /\ CountMatchesState'
<1>1. failureCount' \in 0..CountCap /\ halfOpenCalls' = halfOpenCalls
  BY DEF TypeOK, failure
<1>2. failureCount >= Threshold => failureCount' >= Threshold
  BY DEF TypeOK, failure
<1>3. CASE cb = "half_open" \/ (cb = "closed" /\ failureCount' >= Threshold)
  <2>1. cb' = "open" /\ cooled' = FALSE
    BY <1>3 DEF failure
  <2>2. failureCount' >= Threshold
    BY <1>2, <1>3 DEF CountMatchesState, TypeOK
  <2>3. CountMatchesState'
    BY <1>1, <2>1, <2>2 DEF CountMatchesState
  <2> QED
    BY <1>1, <2>1, <2>3, Zenon
<1>4. CASE ~(cb = "half_open" \/ (cb = "closed" /\ failureCount' >= Threshold))
  <2>1. cb' = cb /\ cooled' = cooled
    BY <1>4 DEF failure
  <2>2. cb' \in {"closed", "open"} /\ cooled' \in BOOLEAN
    BY <1>4, <2>1 DEF TypeOK, States
  <2>3. CountMatchesState'
    BY <1>1, <1>2, <1>4, <2>1 DEF CountMatchesState, TypeOK, States
  <2> QED
    BY <1>1, <2>2, <2>3
<1> QED
  BY <1>3, <1>4

\* Every operation of the breaker and every outcome of a request preserves
\* the invariant.
LEMMA StepIInv == IInv /\ [Next]_vars => IInv'
<1> SUFFICES ASSUME IInv, [Next]_vars PROVE IInv'
  OBVIOUS
<1>0. TypeOK /\ CountMatchesState /\ SlotInv
  BY DEF IInv
<1>r. round \in SUBSET Callers
  BY <1>0 DEF TypeOK
<1>1. ASSUME NEW c \in Callers, call(c) PROVE IInv'
  <2>1. c \notin round /\ c \in Callers \ {}
    BY <1>0, <1>1 DEF TypeOK, call
  <2>2. TypeOK'
    BY <1>0, <1>1 DEF TypeOK, call, _check_and_enter, Seen, SeenCalls, SeenRound,
       Recovering, States
  <2>3. CountMatchesState'
    BY <1>0, <1>1 DEF CountMatchesState, TypeOK, call, _check_and_enter, Seen,
       Recovering, States
  <2>4. SlotInv'
    <3>1. CASE Recovering
      <4>1. round' = {} \cup {c} /\ halfOpenCalls' = 1
        BY <1>1, <3>1 DEF call, _check_and_enter, Seen, SeenCalls, SeenRound
      <4>2. Cardinality(({} \cup {c}) \cap Guarded) <= Cardinality({} \cap Guarded) + 1
        BY <2>1, GuardedCard, Zenon
      <4>3. Cardinality(round' \cap Guarded) <= 0 + 1
        BY <4>1, <4>2, NoneRunning
      <4> QED
        BY <4>1, <4>3 DEF SlotInv
    <3>2. CASE ~Recovering /\ cb = "half_open"
      <4>1. round' = round \cup {c} /\ halfOpenCalls' = halfOpenCalls + 1
        BY <1>1, <3>2 DEF call, _check_and_enter, Seen, SeenCalls, SeenRound
      <4>2. Cardinality((round \cup {c}) \cap Guarded) <= Cardinality(round \cap Guarded) + 1
        BY <1>r, <2>1, GuardedCard
      <4>3. Cardinality(round \cap Guarded) \in Nat
        BY <1>r, GuardedCard
      <4>4. Cardinality((round \cup {c}) \cap Guarded) \in Nat
        BY <1>r, GuardedCard
      <4> QED
        BY <1>0, <3>2, <4>1, <4>2, <4>3, <4>4 DEF SlotInv, TypeOK
    <3>3. CASE ~Recovering /\ cb # "half_open"
      <4>1. cb' # "half_open"
        BY <1>1, <3>3 DEF call, _check_and_enter, Seen
      <4> QED
        BY <4>1 DEF SlotInv
    <3> QED
      BY <3>1, <3>2, <3>3
  <2> QED
    BY <2>2, <2>3, <2>4 DEF IInv
<1>2. ASSUME NEW c \in Callers, preflight(c) PROVE IInv'
  <2>1. c \in Callers \ Guarded
    BY <1>2 DEF preflight, Callers
  <2>2. TypeOK'
    BY <1>0, <1>2 DEF TypeOK, preflight, Seen, SeenCalls, SeenRound, Recovering, States
  <2>3. CountMatchesState'
    BY <1>0, <1>2 DEF CountMatchesState, TypeOK, preflight, Seen, Recovering, States
  <2>4. SlotInv'
    <3>1. CASE Recovering
      <4>1. round' = {} \cup {c} /\ halfOpenCalls' = 0
        BY <1>2, <3>1 DEF preflight, Seen, SeenCalls, SeenRound
      <4>2. Cardinality(({} \cup {c}) \cap Guarded) = Cardinality({} \cap Guarded)
        BY <2>1, GuardedCard, Zenon
      <4> QED
        BY <4>1, <4>2, NoneRunning DEF SlotInv
    <3>2. CASE ~Recovering /\ cb = "half_open"
      <4>1. round' = round \cup {c} /\ halfOpenCalls' = halfOpenCalls
        BY <1>2, <3>2 DEF preflight, Seen, SeenCalls, SeenRound
      <4>2. Cardinality((round \cup {c}) \cap Guarded) = Cardinality(round \cap Guarded)
        BY <1>r, <2>1, GuardedCard
      <4> QED
        BY <1>0, <3>2, <4>1, <4>2 DEF SlotInv
    <3>3. CASE ~Recovering /\ cb # "half_open"
      <4>1. cb' # "half_open"
        BY <1>2, <3>3 DEF preflight, Seen
      <4> QED
        BY <4>1 DEF SlotInv
    <3> QED
      BY <3>1, <3>2, <3>3
  <2> QED
    BY <2>2, <2>3, <2>4 DEF IInv
<1>3. ASSUME NEW c \in Callers, returns(c) PROVE IInv'
  <2>1. success /\ Ends(c) /\ UNCHANGED healthy
    BY <1>3 DEF returns
  <2>2. TypeOK'
    BY <1>0, <2>1, SuccessKeeps DEF TypeOK, Ends, States
  <2>3. CountMatchesState' /\ SlotInv'
    BY <1>0, <2>1, SuccessKeeps DEF CountMatchesState, SlotInv
  <2> QED
    BY <2>2, <2>3 DEF IInv
<1>4. ASSUME NEW c \in Callers, raises(c) PROVE IInv'
  <2>1. failure /\ Ends(c) /\ UNCHANGED healthy
    BY <1>4 DEF raises
  <2>2. TypeOK'
    BY <1>0, <2>1, FailureKeeps DEF TypeOK, Ends, States
  <2>3. CountMatchesState' /\ SlotInv'
    BY <1>0, <2>1, FailureKeeps DEF SlotInv
  <2> QED
    BY <2>2, <2>3 DEF IInv
<1>5. ASSUME NEW c \in Callers, retries(c) PROVE IInv'
  <2>1. /\ attempt[c] < MaxRetries
        /\ attempt' = [attempt EXCEPT ![c] = @ + 1]
        /\ UNCHANGED <<inFlight, round, healthy>>
    BY <1>5 DEF retries
  <2>2. attempt' \in [Callers -> 0..MaxRetries]
    BY <1>0, <2>1 DEF TypeOK
  <2>3. CASE failure
    <3>1. TypeOK'
      BY <1>0, <2>1, <2>2, <2>3, FailureKeeps DEF TypeOK, States
    <3>2. CountMatchesState' /\ SlotInv'
      BY <1>0, <2>3, FailureKeeps DEF SlotInv
    <3> QED
      BY <3>1, <3>2 DEF IInv
  <2>4. CASE UNCHANGED cbVars
    <3>1. TypeOK'
      BY <1>0, <2>1, <2>2, <2>4 DEF TypeOK, cbVars
    <3>2. CountMatchesState' /\ SlotInv'
      BY <1>0, <2>1, <2>4 DEF CountMatchesState, SlotInv, cbVars
    <3> QED
      BY <3>1, <3>2 DEF IInv
  <2> QED
    BY <1>5, <2>3, <2>4 DEF retries
<1>6. ASSUME NEW c \in Callers, unrecorded(c) PROVE IInv'
  <2>1. Ends(c) /\ UNCHANGED cbVars /\ UNCHANGED healthy
    BY <1>6 DEF unrecorded
  <2>2. TypeOK'
    BY <1>0, <2>1 DEF TypeOK, Ends, cbVars
  <2>3. CountMatchesState'
    BY <1>0, <2>1 DEF CountMatchesState, cbVars
  <2>4. SlotInv'
    <3>1. round' \in SUBSET round
      BY <2>1 DEF Ends
    <3>2. /\ Cardinality(round' \cap Guarded) <= Cardinality(round \cap Guarded)
          /\ Cardinality(round \cap Guarded) \in Nat
          /\ Cardinality(round' \cap Guarded) \in Nat
      BY <1>r, <3>1, GuardedCard
    <3> QED
      BY <1>0, <2>1, <3>2 DEF SlotInv, TypeOK, cbVars
  <2> QED
    BY <2>2, <2>3, <2>4 DEF IInv
<1>7. CASE read_state
  <2>1. TypeOK' /\ CountMatchesState'
    BY <1>0, <1>7 DEF TypeOK, CountMatchesState, read_state, Seen, SeenCalls,
       SeenRound, Recovering, States
  <2>2. SlotInv'
    BY <1>7, NoneRunning DEF SlotInv, read_state, SeenCalls, SeenRound
  <2> QED
    BY <2>1, <2>2 DEF IInv
<1>8. CASE Cool \/ Flip
  <2>1. TypeOK'
    BY <1>0, <1>8 DEF TypeOK, Cool, Flip, cbVars
  <2>2. CountMatchesState' /\ SlotInv'
    BY <1>0, <1>8 DEF CountMatchesState, SlotInv, Cool, Flip, cbVars
  <2> QED
    BY <2>1, <2>2 DEF IInv
<1>9. CASE UNCHANGED vars
  BY <1>0, <1>9 DEF IInv, TypeOK, CountMatchesState, SlotInv, vars, cbVars
<1> QED
  BY <1>1, <1>2, <1>3, <1>4, <1>5, <1>6, <1>7, <1>8, <1>9 DEF Next, Start, Finish

\* Every reachable state satisfies the inductive invariant.
THEOREM Invariance == Spec => []IInv
BY InitIInv, StepIInv, PTL DEF Spec

\* The circuit is closed exactly while the recorded consecutive failures are
\* below failure_threshold, for any number of concurrent callers.
THEOREM StateFollowsCount == Spec => []CountMatchesState
<1>1. IInv => CountMatchesState
  BY DEF IInv
<1> QED
  BY <1>1, Invariance, PTL

\* At most half_open_max calls made through call() run in one half-open
\* period.
THEOREM HalfOpenLimit == Spec => []ProbesLimited
<1>1. IInv => ProbesLimited
  <2> SUFFICES ASSUME IInv, cb = "half_open"
               PROVE  Cardinality(round \cap Guarded) <= HalfOpenMax
    BY DEF ProbesLimited
  <2>1. Cardinality(round \cap Guarded) \in Nat
    BY GuardedCard DEF IInv, TypeOK
  <2> QED
    BY <2>1 DEF IInv, SlotInv, TypeOK
<1> QED
  BY <1>1, Invariance, PTL
=============================================================================

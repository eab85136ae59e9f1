--------------------------- MODULE CircuitBreaker ---------------------------
(***************************************************************************)
(* One circuit breaker (proxy/app/shared/circuit_breaker.py) and the       *)
(* concurrent callers that share it.  Every method of the breaker runs     *)
(* without an await, so it is one step; a caller's request is in flight    *)
(* between its admission and its outcome, and the others run meanwhile.    *)
(*                                                                         *)
(* Callers use it in one of three ways:                                    *)
(*   call          CircuitBreaker.call: enter, run, record;                *)
(*   _send_request MultiProviderRouter (llm/provider/base.py): look at     *)
(*                 .state once, try several times, record the last outcome;*)
(*   async_retry   shared/retry.py: look at .state once, try several       *)
(*                 times, record the outcome of every attempt.             *)
(***************************************************************************)
EXTENDS Integers, FiniteSets

CONSTANTS
  Guarded, Senders, Retriers,  \* the callers, by the protocol they use
  Threshold,     \* failure_threshold
  HalfOpenMax,   \* half_open_max
  MaxRetries,    \* MAX_RETRIES, and RetryConfig.max_attempts - 1
  CountCap,      \* bound on failure_count: larger values act alike
  Cancellable    \* the callers whose task may be cancelled in flight

Callers == Guarded \cup Senders \cup Retriers

ASSUME CallersAssumption ==
  /\ IsFiniteSet(Callers)
  /\ Guarded \cap (Senders \cup Retriers) = {}
  /\ Senders \cap Retriers = {}
  /\ Cancellable \subseteq Callers

ASSUME LimitsAssumption ==
  /\ Threshold \in Nat \ {0}
  /\ HalfOpenMax \in Nat
  /\ MaxRetries \in Nat
  /\ CountCap \in Nat
  /\ CountCap >= Threshold

VARIABLES
  cb,            \* _state
  failureCount,  \* _failure_count, saturated at CountCap
  halfOpenCalls, \* _half_open_calls
  cooled,        \* has the cooldown elapsed since _opened_at?
  inFlight,      \* the callers whose request is running
  attempt,       \* attempt number of each caller's request
  round,         \* history: callers admitted in the current half-open period
  healthy        \* environment: does the service answer?

cbVars == <<cb, failureCount, halfOpenCalls, cooled>>
vars == <<cbVars, inFlight, attempt, round, healthy>>

States == {"closed", "open", "half_open"}

Init ==
  /\ cb = "closed"
  /\ failureCount = 0
  /\ halfOpenCalls = 0
  /\ cooled = FALSE
  /\ inFlight = {}
  /\ attempt = [c \in Callers |-> 0]
  /\ round = {}
  /\ healthy \in BOOLEAN

-----------------------------------------------------------------------------
(* The breaker. *)

\* What the state property returns: OPEN becomes HALF_OPEN after the cooldown.
Recovering == cb = "open" /\ cooled
Seen       == IF Recovering THEN "half_open" ELSE cb
SeenCalls  == IF Recovering THEN 0 ELSE halfOpenCalls
SeenRound  == IF Recovering THEN {} ELSE round

\* Variant: a late success clears the count but leaves the circuit alone.
success_only_half_open ==
  /\ failureCount' = 0
  /\ cb' = IF cb = "half_open" THEN "closed" ELSE cb
  /\ UNCHANGED <<halfOpenCalls, cooled>>

\* Variant: a successful probe resets the count but does not close the circuit.
success_stays_half_open ==
  /\ failureCount' = 0
  /\ cb' = IF cb = "half_open" THEN cb ELSE "closed"
  /\ UNCHANGED <<halfOpenCalls, cooled>>

success ==
  /\ failureCount' = 0
  /\ cb' = "closed"
  /\ UNCHANGED <<halfOpenCalls, cooled>>

failure ==
  /\ failureCount' = IF failureCount < CountCap THEN failureCount + 1 ELSE failureCount
  /\ LET opens == cb = "half_open" \/ (cb = "closed" /\ failureCount' >= Threshold)
     IN  /\ cb' = IF opens THEN "open" ELSE cb
         /\ cooled' = IF opens THEN FALSE ELSE cooled
  /\ UNCHANGED halfOpenCalls

\* A rejected caller gets CircuitBreakerOpenError and changes nothing.
_check_and_enter(c) ==
  /\ Seen # "open"
  /\ Seen = "half_open" => SeenCalls < HalfOpenMax
  /\ cb' = Seen
  /\ halfOpenCalls' = IF Seen = "half_open" THEN SeenCalls + 1 ELSE SeenCalls
  /\ round' = IF Seen = "half_open" THEN SeenRound \cup {c} ELSE SeenRound
  /\ UNCHANGED <<failureCount, cooled>>

\* Code outside the breaker that reads .state (health report, pre-flight).
read_state ==
  /\ Recovering
  /\ cb' = Seen
  /\ halfOpenCalls' = SeenCalls
  /\ round' = SeenRound
  /\ UNCHANGED <<failureCount, cooled, inFlight, attempt, healthy>>

\* The cooldown elapses.
Cool ==
  /\ cb = "open" /\ ~cooled
  /\ cooled' = TRUE
  /\ UNCHANGED <<cb, failureCount, halfOpenCalls, inFlight, attempt, round, healthy>>

-----------------------------------------------------------------------------
(* The callers. *)

Ends(c) ==
  /\ inFlight' = inFlight \ {c}
  /\ attempt' = [attempt EXCEPT ![c] = 0]
  /\ round' = round \ {c}

\* CircuitBreaker.call and call_sync.
call(c) ==
  /\ c \in Guarded \ inFlight
  /\ _check_and_enter(c)
  /\ inFlight' = inFlight \cup {c}
  /\ UNCHANGED <<attempt, healthy>>

\* The pre-flight check of _send_request and async_retry: only OPEN rejects,
\* and a request admitted in HALF_OPEN takes no slot.
preflight(c) ==
  /\ c \in (Senders \cup Retriers) \ inFlight
  /\ Seen # "open"
  /\ cb' = Seen
  /\ halfOpenCalls' = SeenCalls
  /\ round' = IF Seen = "half_open" THEN SeenRound \cup {c} ELSE SeenRound
  /\ inFlight' = inFlight \cup {c}
  /\ UNCHANGED <<failureCount, cooled, attempt, healthy>>

\* The request succeeds: every protocol records success().
returns(c) ==
  /\ c \in inFlight
  /\ healthy
  /\ success
  /\ Ends(c)
  /\ UNCHANGED healthy

\* The request fails for good: call has one attempt, the others give up on the
\* last one or on an error that is not retryable.
raises(c) ==
  /\ c \in inFlight
  /\ ~healthy
  /\ failure
  /\ Ends(c)
  /\ UNCHANGED healthy

\* An attempt fails and another one follows after a delay; _send_request
\* records nothing yet, async_retry records every failed attempt.
retries(c) ==
  /\ c \in inFlight \ Guarded
  /\ ~healthy
  /\ attempt[c] < MaxRetries
  /\ attempt' = [attempt EXCEPT ![c] = @ + 1]
  /\ IF c \in Retriers THEN failure ELSE UNCHANGED cbVars
  /\ UNCHANGED <<inFlight, round, healthy>>

\* Outcomes nobody records: the task is cancelled (CancelledError is not an
\* Exception), or _send_request meets an error it does not catch.
unrecorded(c) ==
  /\ c \in inFlight
  /\ c \in Cancellable
  /\ Ends(c)
  /\ UNCHANGED <<cbVars, healthy>>

\* The service goes down or comes back.
Flip ==
  /\ healthy' = ~healthy
  /\ UNCHANGED <<cbVars, inFlight, attempt, round>>

Start(c)  == call(c) \/ preflight(c)
Finish(c) == returns(c) \/ raises(c) \/ retries(c)

Next ==
  \/ \E c \in Callers : Start(c) \/ Finish(c) \/ unrecorded(c)
  \/ read_state \/ Cool \/ Flip

Spec == Init /\ [][Next]_vars

\* Time passes, requests keep coming, and a request in flight ends (aiohttp
\* and the clients have timeouts).
FairSpec ==
  /\ Spec
  /\ WF_vars(Cool)
  /\ \A c \in Callers : WF_vars(Start(c)) /\ WF_vars(Finish(c))

-----------------------------------------------------------------------------
(* Properties. *)

TypeOK ==
  /\ cb \in States
  /\ failureCount \in 0..CountCap
  /\ halfOpenCalls \in 0..HalfOpenMax
  /\ cooled \in BOOLEAN
  /\ inFlight \subseteq Callers
  /\ attempt \in [Callers -> 0..MaxRetries]
  /\ round \subseteq inFlight
  /\ healthy \in BOOLEAN

\* The circuit is closed exactly while fewer than failure_threshold
\* consecutive failures are recorded, whatever late successes and failures of
\* requests admitted in an earlier state arrive: it never stays closed past
\* the threshold, and never rejects calls with a count below it.
CountMatchesState == cb = "closed" <=> failureCount < Threshold

\* In one half-open period at most half_open_max of the calls that went
\* through call() are running.
ProbesLimited ==
  cb = "half_open" => Cardinality(round \cap Guarded) <= HalfOpenMax

\* Once the service answers for good, the circuit ends up closed for good:
\* no interleaving of late failures, probes and rejected calls leaves it open
\* or half-open for ever.
RecoversWhenHealthy == <>[]healthy => <>[](cb = "closed")
=============================================================================

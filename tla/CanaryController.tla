-------------------------- MODULE CanaryController --------------------------
(***************************************************************************)
(* Canary deployment of one model (canary_controller.py): the traffic      *)
(* split, its phase, the statistics that trigger a rollback, and the       *)
(* variant an A/B runner picks by it (shared/ab_test.py).  Requests are    *)
(* routed and report their result later, in any order.                     *)
(***************************************************************************)
EXTENDS Naturals, FiniteSets

CONSTANTS
  Percents,     \* splits an operator sets, of 100
  Candidates,   \* versions an operator deploys as canary
  Baseline,     \* the first stable version
  NoName,       \* the version ""
  MinSamples,   \* min_samples, 100 in the code
  MaxRequests   \* bound on routed requests

VARIABLES
  config,    \* CanaryConfig: percent, stable and canary version
  exists,    \* is the model configured?
  phase,     \* _phase
  cooling,   \* is the rollback cooldown running?
  stats,     \* results of canary requests: success, error
  inflight,  \* requests routed to the canary and not yet reported
  routed,    \* bound: requests routed so far
  served     \* the version the last request was served by

vars == <<config, exists, phase, cooling, stats, inflight, routed, served>>

CanaryConfig == [percent |-> 0, stable |-> Baseline, canary |-> NoName]

Init ==
  /\ config = CanaryConfig /\ exists = FALSE /\ phase = "idle" /\ cooling = FALSE
  /\ stats = [success |-> 0, error |-> 0] /\ inflight = 0 /\ routed = 0 /\ served = NoName

_infer_phase(x) ==
  CASE x = 0 -> "idle"
    [] x > 0 /\ x < 5 -> "ramp_5"
    [] x >= 5 /\ x < 25 -> "ramp_25"
    [] x >= 25 /\ x < 50 -> "ramp_50"
    [] x >= 50 /\ x < 75 -> "ramp_75"
    [] OTHER -> "full"

set_split(x) ==
  /\ config' = [config EXCEPT !.percent = x]
  /\ exists' = TRUE
  /\ phase' = _infer_phase(x)
  /\ UNCHANGED <<cooling, stats, inflight, routed, served>>

\* Statistics and cooldown of the previous canary are kept.
configure(x, v, s) ==
  /\ config' = [percent |-> x, stable |-> s, canary |-> v]
  /\ exists' = TRUE
  /\ phase' = _infer_phase(x)
  /\ UNCHANGED <<cooling, stats, inflight, routed, served>>

Split == IF ~exists \/ cooling THEN 0 ELSE config.percent

\* The versions an A/B runner may serve for a target: the variants of the target's
\* version, or any variant if there is none of it.
select_model_with_canary(target) ==
  LET wanted == IF target = "canary" THEN config.canary ELSE config.stable
      variants == Candidates \cup {Baseline}
  IN  IF exists /\ wanted \in variants THEN {wanted} ELSE variants

route(target) ==
  /\ routed < MaxRequests
  /\ target = "canary" => Split > 0
  /\ target = "stable" => Split < 100
  /\ routed' = routed + 1
  /\ inflight' = IF target = "canary" THEN inflight + 1 ELSE inflight
  /\ served' \in select_model_with_canary(target)
  /\ UNCHANGED <<config, exists, phase, cooling, stats>>

record_result(outcome) ==
  /\ inflight > 0
  /\ inflight' = inflight - 1
  /\ stats' = [stats EXCEPT ![outcome] = @ + 1]
  /\ UNCHANGED <<config, exists, phase, cooling, routed, served>>

get_metrics == [total |-> stats.success + stats.error, errors |-> stats.error]

\* error_rate > 0.05; the latency threshold is never looked at.
should_rollback ==
  /\ exists /\ phase \notin {"idle", "full", "rollback"} /\ ~cooling
  /\ get_metrics.total >= MinSamples
  /\ 20 * get_metrics.errors > get_metrics.total

\* Variant: the rollback leaves the split to the cooldown.
rollback_by_cooldown ==
  /\ should_rollback
  /\ exists' = TRUE /\ phase' = "rollback" /\ cooling' = TRUE
  /\ UNCHANGED <<config, stats, inflight, routed, served>>

\* By an operator at any time, or because should_rollback says so.
rollback ==
  /\ config' = [config EXCEPT !.percent = 0]
  /\ exists' = TRUE /\ phase' = "rollback" /\ cooling' = TRUE
  /\ UNCHANGED <<stats, inflight, routed, served>>

auto_rollback == should_rollback /\ rollback

CooldownEnds ==
  /\ cooling
  /\ cooling' = FALSE
  /\ UNCHANGED <<config, exists, phase, stats, inflight, routed, served>>

canary_promote ==
  /\ exists
  /\ config' = [percent |-> 100, stable |-> config.canary, canary |-> NoName]
  /\ phase' = "full"
  /\ UNCHANGED <<exists, cooling, stats, inflight, routed, served>>

reset ==
  /\ config' = CanaryConfig /\ exists' = FALSE /\ phase' = "idle" /\ cooling' = FALSE
  /\ stats' = [success |-> 0, error |-> 0]
  /\ UNCHANGED <<inflight, routed, served>>

Next ==
  \/ \E x \in Percents :
       \/ set_split(x)
       \/ \E v \in Candidates, s \in {Baseline, config.stable} : configure(x, v, s)
  \/ \E target \in {"stable", "canary"} : route(target)
  \/ \E outcome \in {"success", "error"} : record_result(outcome)
  \/ rollback \/ auto_rollback \/ CooldownEnds \/ canary_promote \/ reset

Spec == Init /\ [][Next]_vars
-----------------------------------------------------------------------------
TypeOK ==
  /\ config \in [percent : Percents \cup {0, 100}, stable : Candidates \cup {Baseline, NoName},
                 canary : Candidates \cup {NoName}]
  /\ served \in Candidates \cup {Baseline, NoName}
  /\ exists \in BOOLEAN /\ cooling \in BOOLEAN
  /\ phase \in {"idle", "ramp_5", "ramp_25", "ramp_50", "ramp_75", "full", "rollback"}
  /\ stats \in [{"success", "error"} -> 0..MaxRequests]
  /\ inflight + stats.success + stats.error <= routed

\* Operator calls, automatic rollbacks and the cooldown's end, in any order, keep
\* phase and traffic together: after a rollback no request is a canary's until an
\* operator raises the split again, and a ramp sends it some traffic but not most.
PhaseMatchesSplit ==
  /\ phase \in {"idle", "rollback"} => Split = 0 /\ config.percent = 0
  /\ phase = "full" => config.percent >= 75
  /\ phase \notin {"idle", "rollback", "full"} => config.percent \in 1..74
=============================================================================

--------------------------- MODULE AdapterManager ---------------------------
(***************************************************************************)
(* The life cycle of one model adapter (adapter_manager.py) under threads  *)
(* that load, unload and hot-reload it, the directory watcher, the SIGHUP  *)
(* reload and shutdown.  A section under the manager's lock is one step;   *)
(* the lock itself appears where it is held over a load or a drain.        *)
(***************************************************************************)
EXTENDS Naturals, FiniteSets

CONSTANTS
  Threads,
  Releases,     \* adapter versions on disk
  NoVersion,    \* no adapter path
  Unlocked,     \* nobody holds the lock for long
  MaxDrain,     \* max_drain_attempts, 60 in the code
  MaxRequests,  \* bound on requests in flight
  MaxCalls      \* bound on calls of the manager

VARIABLES
  state, version, path,  \* of the ModelAdapter
  requests,              \* request_count
  lock,                  \* the thread that holds the lock over several steps
  pc, job,               \* per thread: position, and the call's locals
  watching, known,       \* is the watcher on, and the versions it has seen
  calls                  \* bound

vars == <<state, version, path, requests, lock, pc, job, watching, known, calls>>

_VALID_TRANSITIONS ==
  {<<"unloaded", "loading">>, <<"unloaded", "error">>, <<"loading", "active">>,
   <<"loading", "error">>, <<"active", "draining">>, <<"active", "error">>,
   <<"draining", "retiring">>, <<"draining", "active">>, <<"draining", "loading">>,
   <<"draining", "error">>, <<"retiring", "unloaded">>, <<"retiring", "error">>,
   <<"error", "unloaded">>, <<"error", "loading">>, <<"error", "active">>}

\* An invalid transition is refused and leaves the state.
transition_to(s, t) == IF <<s, t>> \in _VALID_TRANSITIONS THEN t ELSE s

NoJob == [op |-> "none", release |-> NoVersion, old |-> NoVersion, attempts |-> 0]

Init ==
  /\ state = "unloaded" /\ version = NoVersion /\ path = NoVersion
  /\ requests = 0 /\ lock = Unlocked
  /\ pc = [t \in Threads |-> "idle"] /\ job = [t \in Threads |-> NoJob]
  /\ watching = FALSE /\ known = {} /\ calls = 0

Free(t) == lock \in {Unlocked, t}
Goto(t, p) == pc' = [pc EXCEPT ![t] = p]
\* The call returns or raises; a lock it held over the call is released.
Return(t) ==
  /\ Goto(t, "idle")
  /\ lock' = IF lock = t THEN Unlocked ELSE lock

Begin(t, op, r) ==
  /\ pc[t] = "idle" /\ calls < MaxCalls
  /\ calls' = calls + 1
  /\ job' = [job EXCEPT ![t] = [op |-> op, release |-> r, old |-> path, attempts |-> 0]]
-----------------------------------------------------------------------------
\* The first locked section of load_adapter.
EnterLoad(t, s) ==
  CASE s = "active" -> state' = s /\ Goto(t, "loaded")
    [] <<s, "loading">> \in _VALID_TRANSITIONS -> state' = "loading" /\ Goto(t, "loading")
    [] OTHER -> state' = s /\ Goto(t, "load_failed")

load_adapter(t, r) ==
  /\ Free(t)
  /\ Begin(t, "load", r)
  /\ EnterLoad(t, state)
  /\ UNCHANGED <<version, path, requests, lock, watching, known>>

\* The load callback runs without the lock, and its result is stored under it.
load_callback(t) ==
  /\ pc[t] = "loading" /\ Free(t)
  /\ \/ /\ version' = job[t].release /\ path' = job[t].release
        /\ state' = transition_to(state, "active")
        /\ Goto(t, "loaded")
     \/ /\ state' = transition_to(state, "error")
        /\ Goto(t, "load_failed")
        /\ UNCHANGED <<version, path>>
  /\ UNCHANGED <<requests, lock, job, watching, known, calls>>

\* load_adapter has returned: a hot reload goes on to drain what was loaded before.
load_returns(t) ==
  /\ pc[t] = "loaded"
  /\ IF job[t].op = "reload" /\ job[t].old # NoVersion THEN Goto(t, "draining") /\ UNCHANGED lock
     ELSE Return(t)
  /\ UNCHANGED <<state, version, path, requests, job, watching, known, calls>>

\* load_adapter has raised: a hot reload takes the old adapter for active again.
load_raises(t) ==
  /\ pc[t] = "load_failed" /\ Free(t)
  /\ state' = IF job[t].op = "reload" THEN transition_to(state, "active") ELSE state
  /\ Return(t)
  /\ UNCHANGED <<version, path, requests, job, watching, known, calls>>

unload_adapter(t) ==
  /\ Free(t)
  /\ Begin(t, "unload", NoVersion)
  /\ CASE state = "unloaded" -> UNCHANGED <<state, version, path, pc>>
       [] state = "error" -> state' = "unloaded" /\ path' = NoVersion /\ UNCHANGED <<version, pc>>
       [] OTHER -> /\ state' = transition_to(state, "draining")
                   /\ Goto(t, "unloading") /\ UNCHANGED <<version, path>>
  /\ UNCHANGED <<requests, lock, watching, known>>

\* Variant: a callback that fails ends the call there.
unload_callback_checked(t) ==
  /\ pc[t] = "unloading" /\ Free(t)
  /\ UNCHANGED <<state, path>>
  /\ Return(t)
  /\ UNCHANGED <<version, requests, job, watching, known, calls>>

\* A callback that raises puts the adapter in error; one that fails is ignored.
unload_callback(t) ==
  /\ pc[t] = "unloading" /\ Free(t)
  /\ \/ /\ state' = transition_to(transition_to(state, "retiring"), "unloaded")
        /\ path' = NoVersion
     \/ state' = transition_to(state, "error") /\ UNCHANGED path
  /\ Return(t)
  /\ UNCHANGED <<version, requests, job, watching, known, calls>>

\* An unloaded adapter is loaded with the lock held.
Reload(t, r) ==
  /\ Free(t)
  /\ Begin(t, IF state = "unloaded" THEN "load" ELSE "reload", r)
  /\ IF state = "unloaded"
     THEN EnterLoad(t, state) /\ lock' = t
     ELSE /\ state' = transition_to(state, "draining")
          /\ Goto(t, "reloading") /\ UNCHANGED lock
  /\ UNCHANGED <<version, path, requests>>

hot_reload(t, r) == Reload(t, r) /\ UNCHANGED <<watching, known>>

reload_loads(t) ==
  /\ pc[t] = "reloading" /\ Free(t)
  /\ EnterLoad(t, state)
  /\ UNCHANGED <<version, path, requests, lock, job, watching, known, calls>>

\* Variant: the drain has no limit.
_drain_and_retire_patient(t) ==
  /\ pc[t] = "draining" /\ Free(t) /\ requests = 0
  /\ state' = transition_to(transition_to(state, "retiring"), "unloaded")
  /\ Return(t)
  /\ UNCHANGED <<version, path, requests, job, watching, known, calls>>

\* The adapter drained is the new one: while it is active, nothing is retired.
_drain_and_retire(t) ==
  /\ pc[t] = "draining" /\ Free(t)
  /\ IF requests = 0 \/ job[t].attempts = MaxDrain
     THEN /\ state' = IF requests = 0 \/ state = "draining"
                      THEN transition_to(transition_to(state, "retiring"), "unloaded") ELSE state
          /\ Return(t) /\ UNCHANGED job
     ELSE /\ job' = [job EXCEPT ![t].attempts = @ + 1]
          /\ UNCHANGED <<state, pc, lock>>
  /\ UNCHANGED <<version, path, requests, watching, known, calls>>

\* SIGHUP: the lock is held over the whole reload, drain included.
reload_all(t) ==
  /\ Free(t) /\ state = "active"
  /\ Begin(t, "reload", version)
  /\ lock' = t
  /\ state' = "draining"
  /\ Goto(t, "reloading")
  /\ UNCHANGED <<version, path, requests, watching, known>>

begin_request ==
  /\ lock = Unlocked /\ requests < MaxRequests
  /\ requests' = requests + 1
  /\ UNCHANGED <<state, version, path, lock, pc, job, watching, known, calls>>

end_request ==
  /\ lock = Unlocked /\ requests > 0
  /\ requests' = requests - 1
  /\ UNCHANGED <<state, version, path, lock, pc, job, watching, known, calls>>

enable_watcher ==
  /\ lock = Unlocked /\ ~watching
  /\ watching' = TRUE /\ known' = {}
  /\ UNCHANGED <<state, version, path, requests, lock, pc, job, calls>>

disable_watcher ==
  /\ lock = Unlocked /\ watching
  /\ watching' = FALSE
  /\ UNCHANGED <<state, version, path, requests, lock, pc, job, known, calls>>

\* The watcher's thread finds a new directory and reloads from it.
_scan_directory(t, r) ==
  /\ watching /\ r \notin known
  /\ known' = known \cup {r}
  /\ Reload(t, r)
  /\ UNCHANGED watching

\* Watchers are stopped and a live adapter unloaded, all under the lock.
shutdown(t) ==
  /\ Free(t) /\ state \in {"active", "draining"}
  /\ Begin(t, "unload", NoVersion)
  /\ watching' = FALSE
  /\ lock' = t
  /\ state' = transition_to(state, "draining")
  /\ Goto(t, "unloading")
  /\ UNCHANGED <<version, path, requests, known>>

Runs(t) ==
  \/ load_callback(t) \/ load_returns(t) \/ load_raises(t) \/ unload_callback(t)
  \/ reload_loads(t) \/ _drain_and_retire(t)

Next ==
  \/ \E t \in Threads :
       \/ Runs(t) \/ unload_adapter(t) \/ reload_all(t) \/ shutdown(t)
       \/ \E r \in Releases : load_adapter(t, r) \/ hot_reload(t, r) \/ _scan_directory(t, r)
  \/ begin_request \/ end_request \/ enable_watcher \/ disable_watcher

\* Threads run and callbacks return; a free lock is got by whoever keeps asking.
Fairness == \A t \in Threads : SF_vars(Runs(t))

Spec == Init /\ [][Next]_vars /\ Fairness
-----------------------------------------------------------------------------
TypeOK ==
  /\ state \in {"unloaded", "loading", "active", "draining", "error"}
  /\ version \in Releases \cup {NoVersion} /\ path \in Releases \cup {NoVersion}
  /\ requests \in 0..MaxRequests /\ lock \in Threads \cup {Unlocked}
  /\ \A t \in Threads : job[t].attempts \in 0..MaxDrain

\* However loads, unloads and reloads overlap and fail, the adapter is not left in
\* a passing state (loading, draining) once every call has returned.
AdapterSettles ==
  (\A t \in Threads : pc[t] = "idle") => state \in {"unloaded", "active", "error"}

\* Every call of the manager returns, also a reload that drains under the lock
\* that end_request needs.
CallsReturn == \A t \in Threads : pc[t] # "idle" ~> pc[t] = "idle"
=============================================================================

------------------------------- MODULE Tools -------------------------------
(***************************************************************************)
(* The enhanced tool registry with its providers (tools/registry.py,       *)
(* declarative.py, openapi/) and a batch of tool calls run by              *)
(* ParallelExecutor (tools/orchestrator.py), in dependency levels, with a  *)
(* semaphore, timeouts and retries, while the registry is being changed.   *)
(*                                                                         *)
(* A tool is [name, provider, handler, depends_on, max_retries].  What a   *)
(* directory or a spec holds at a discovery, and what a handler returns,   *)
(* is chosen anew every time.                                              *)
(***************************************************************************)
EXTENDS Naturals, FiniteSets, Sequences

CONSTANTS Names,
          SdkTools,      \* tools that code builds and registers itself
          Entries,       \* entries of the declarative files
          Operations,    \* operations of the OpenAPI specs
          INCLUDE_TAGS, EXCLUDE_TAGS,
          Batches,       \* what is asked of execute_all: sequences of [id, name, complete]
          MAX_CONCURRENCY,
          MaxChanges, NoTool

VARIABLES tools,            \* name -> its tool, or NoTool
          provider_tools,   \* provider -> names
          batch,
          changes

vars == <<tools, provider_tools, batch, changes>>

Providers == {"sdk", "declarative", "openapi"}
NoBatch == [pc |-> "none", calls |-> <<>>, levels |-> <<>>, at |-> 0,
            deps |-> <<>>, slot |-> <<>>, results |-> <<>>]

TypeOK ==
    /\ \A n \in Names : tools[n] = NoTool \/ (tools[n].name = n /\ tools[n].provider \in Providers)
    /\ provider_tools \in [Providers -> SUBSET Names]
    /\ batch.pc \in {"none", "running", "done", "raised"}
    /\ \A n \in DOMAIN batch.slot : batch.slot[n].st \in {"wait", "run", "sleep", "ok", "error"}
    /\ changes \in 0..MaxChanges

Init ==
    /\ tools = [n \in Names |-> NoTool]
    /\ provider_tools = [p \in Providers |-> {}]
    /\ batch = NoBatch
    /\ changes = 0

-----------------------------------------------------------------------------
\* Registering a set of tools, where any of those with one name may come last.
Last(found) == {f \in [{t.name : t \in found} -> found] : \A n \in DOMAIN f : f[n].name = n}

Registered(ts, f) == [n \in Names |-> IF n \in DOMAIN f THEN f[n] ELSE ts[n]]
Listed(pts, found) == [p \in Providers |-> pts[p] \cup {t.name : t \in {u \in found : u.provider = p}}]

\* register: the name stays in the set of the provider whose tool it replaces.
register(t) ==
    /\ tools' = Registered(tools, [n \in {t.name} |-> t])
    /\ provider_tools' = Listed(provider_tools, {t})

\* Unregistering names takes each out of the set of the provider its tool has now.
Removed(S) == [n \in Names |-> IF n \in S THEN NoTool ELSE tools[n]]

Unlisted(S) ==
    [p \in Providers |-> provider_tools[p] \ {n \in S : tools[n] # NoTool /\ tools[n].provider = p}]

unregister(n) ==
    /\ tools[n] # NoTool
    /\ tools' = Removed({n})
    /\ provider_tools' = Unlisted({n})

-----------------------------------------------------------------------------
\* An entry of a declarative file is [name, type, lacks, retries].
validate_single(e) ==
    e.lacks \cap {"name", "description", "config"} = {} /\ e.type \in {"http", "shell"}

_build_retry_policy(e) == e.retries

\* A shell tool without allowed_commands is refused.
_parse_single(e) ==
    IF ~validate_single(e) \/ (e.type = "shell" /\ "commands" \in e.lacks) THEN {}
    ELSE {[name |-> e.name, provider |-> "declarative", handler |-> e.type,
           depends_on |-> {}, max_retries |-> _build_retry_policy(e)]}

\* The entries of the files that can be read and parsed; a file of the top directory is met twice.
load_from_dir(readable) == UNION {_parse_single(e) : e \in readable}

\* An operation of a spec is [name, tags], named by its operationId or its method and path.
from_endpoint(o) == [name |-> o.name, provider |-> "openapi", handler |-> "http",
                     depends_on |-> {}, max_retries |-> 0]

_discover_auto(ops) ==
    {from_endpoint(o) : o \in {x \in ops : /\ INCLUDE_TAGS # {} => x.tags \cap INCLUDE_TAGS # {}
                                           /\ x.tags \cap EXCLUDE_TAGS = {}}}

\* In LLM mode the SLM names the operations, whatever their tags; no answer selects nothing.
_discover_llm_driven(ops, selected) ==
    {from_endpoint(o) : o \in {x \in ops : x.name \in selected}}

\* SDKProvider: its list is not the one that the @tool decorator fills, and stays empty.
sdk_discover == {}

\* A spec that cannot be fetched or parsed contributes nothing.
Fetched == SUBSET Operations

\* OpenAPIProvider.discover in either mode.
openapi_discover == {_discover_auto(S) : S \in Fetched}
                    \cup {_discover_llm_driven(Operations, S) : S \in SUBSET Names}

Discoverable(p) ==
    CASE p = "sdk" -> {sdk_discover}
      [] p = "declarative" -> {load_from_dir(S) : S \in SUBSET Entries}
      [] p = "openapi" -> openapi_discover

discover(found, ts, pts) ==
    /\ \E f \in Last(found) : tools' = Registered(ts, f)
    /\ provider_tools' = Listed(pts, found)

\* discover_all, and startup: the providers in order, the later ones over the earlier.
discover_all(decl, api) ==
    /\ \E f \in Last(decl), g \in Last(api) :
          tools' = Registered(Registered(tools, f), g)
    /\ provider_tools' = Listed(provider_tools, decl \cup api)

\* reload_provider unregisters every name in the provider's set, another provider's tool too;
\* under a running event loop asyncio.run fails and nothing is found again.
reload_provider(p, found) == discover(found, Removed(provider_tools[p]), Unlisted(provider_tools[p]))

Change(A) ==
    /\ changes < MaxChanges /\ changes' = changes + 1
    /\ A
    /\ UNCHANGED batch

-----------------------------------------------------------------------------
\* Variant: a tool is ready when one of its dependencies is.
Ready_some(deps, remaining) == {n \in remaining : deps[n] \cap remaining # deps[n] \/ deps[n] = {}}

\* Names of a level: those that depend on no name that remains.
Ready(deps, remaining) == {n \in remaining : deps[n] \cap remaining = {}}

\* What remains after k levels; a cycle remains for ever.
Remaining(deps) ==
    LET N == Cardinality(DOMAIN deps)
        rem[k \in 0..N] == IF k = 0 THEN DOMAIN deps ELSE rem[k - 1] \ Ready(deps, rem[k - 1])
    IN rem

\* _resolve_dependency_levels, where it does not raise.
Resolvable(deps) ==
    /\ \A n \in DOMAIN deps : deps[n] \subseteq DOMAIN deps
    /\ Remaining(deps)[Cardinality(DOMAIN deps)] = {}

_resolve_dependency_levels(deps) ==
    LET rem == Remaining(deps)
        depth == CHOOSE k \in DOMAIN rem : rem[k] = {} /\ \A j \in 0..(k - 1) : rem[j] # {}
    IN [k \in 1..depth |-> rem[k - 1] \ rem[k]]

\* Two calls of one tool share a slot and run once, with the arguments of the last.
name_to_call(calls, n) ==
    calls[CHOOSE i \in DOMAIN calls : /\ calls[i].name = n
                                      /\ \A j \in DOMAIN calls : calls[j].name = n => j <= i]

Fresh == [st |-> "wait", attempts |-> 0, total |-> 0, handler |-> "none"]

execute_all(calls) ==
    LET known == {n \in {calls[i].name : i \in DOMAIN calls} : tools[n] # NoTool}
        deps == [n \in known |-> tools[n].depends_on]
    IN /\ batch.pc = "none" /\ calls # <<>>
       /\ batch' =
            IF known # {} /\ ~Resolvable(deps) THEN [NoBatch EXCEPT !.pc = "raised", !.calls = calls]
            ELSE [NoBatch EXCEPT !.pc = "running", !.calls = calls, !.at = 1, !.deps = deps,
                                 !.levels = IF known = {} THEN <<>> ELSE _resolve_dependency_levels(deps),
                                 !.slot = [n \in known |-> Fresh]]
       /\ UNCHANGED <<tools, provider_tools, changes>>

Level == IF batch.at <= Len(batch.levels) THEN batch.levels[batch.at] ELSE {}
Holding == {n \in DOMAIN batch.slot : batch.slot[n].st \in {"run", "sleep"}}

\* The handlers of HTTP tools answer their own failures as text; those of shell tools do
\* too and block the loop, so that no timeout reaches them.  Only SDK handlers raise.
_make_http_handler == {"ok", "timeout"}
_make_shell_handler == {"ok"}
Outcomes(h) == CASE h = "http" -> _make_http_handler
                 [] h = "shell" -> _make_shell_handler
                 [] h = "sync" -> {"ok", "raise"}
                 [] h = "async" -> {"ok", "raise", "timeout"}

\* The end of an attempt: a failed one is repeated after a backoff while attempts remain.
Settled(s, out) ==
    [s EXCEPT !.attempts = @ + 1,
              !.st = CASE out = "ok" -> "ok"
                       [] out # "ok" /\ s.attempts + 1 < s.total -> "sleep"
                       [] OTHER -> "error"]

_validate_params(n) == name_to_call(batch.calls, n).complete

\* execute_single up to its first await: the semaphore, the tool as it is registered now, and a
\* call that fails or returns at once; the retry policy is read once, the tool at every attempt.
execute_single(n) ==
    LET s == batch.slot[n]
        total == IF s.st = "sleep" THEN s.total
                 ELSE IF tools[n] = NoTool THEN 1 ELSE 1 + tools[n].max_retries
        now == [s EXCEPT !.total = total]
        blocked == tools[n] = NoTool \/ ~_validate_params(n)
    IN /\ batch.pc = "running" /\ n \in Level
       /\ s.st = "sleep" \/ (s.st = "wait" /\ Cardinality(Holding) < MAX_CONCURRENCY)
       /\ \E out \in IF blocked THEN {"missing"}
                     ELSE IF tools[n].handler \in {"sync", "shell"} THEN Outcomes(tools[n].handler)
                     ELSE {"await"} :
             batch' = [batch EXCEPT !.slot[n] =
                          IF out = "await" THEN [now EXCEPT !.st = "run", !.handler = tools[n].handler]
                          ELSE Settled(now, out)]
       /\ UNCHANGED <<tools, provider_tools, changes>>

\* The awaited handler returns, raises, or is cancelled by wait_for.
execute_async(n, out) ==
    /\ batch.pc = "running" /\ n \in DOMAIN batch.slot /\ batch.slot[n].st = "run"
    /\ out \in Outcomes(batch.slot[n].handler)
    /\ batch' = [batch EXCEPT !.slot[n] = Settled(@, out)]
    /\ UNCHANGED <<tools, provider_tools, changes>>

Over(n) == batch.slot[n].st \in {"ok", "error"}

\* gather has every result of the level; after the last one the calls get theirs.
Gather ==
    LET calls == batch.calls
        result(c) == IF c.name \in DOMAIN batch.slot
                     THEN [name |-> c.name, id |-> name_to_call(calls, c.name).id,
                           outcome |-> batch.slot[c.name].st]
                     ELSE [name |-> c.name, id |-> c.id, outcome |-> "error"]
    IN /\ batch.pc = "running" /\ \A n \in Level : Over(n)
       /\ batch' = IF batch.at < Len(batch.levels) THEN [batch EXCEPT !.at = @ + 1]
                   ELSE [batch EXCEPT !.pc = "done",
                                      !.results = [i \in DOMAIN calls |-> result(calls[i])]]
       /\ UNCHANGED <<tools, provider_tools, changes>>

Next ==
    \/ \E t \in SdkTools : Change(register(t))
    \/ \E n \in Names : Change(unregister(n))
    \/ \E p \in Providers : \E found \in Discoverable(p) :
          \/ Change(discover(found, tools, provider_tools))
          \/ Change(reload_provider(p, found))
    \/ \E d \in Discoverable("declarative"), a \in Discoverable("openapi") : Change(discover_all(d, a))
    \/ \E calls \in Batches : execute_all(calls)
    \/ \E n \in Names : n \in DOMAIN batch.slot /\ execute_single(n)
    \/ \E n \in Names, out \in {"ok", "raise", "timeout"} : execute_async(n, out)
    \/ Gather

Spec == Init /\ [][Next]_vars

-----------------------------------------------------------------------------
(***************************************************************************)
(* However the registry is reloaded under a batch: a registered tool is in *)
(* the set of its provider, so that a reload of the provider finds it; no  *)
(* tool starts before those it depended on are over, and none runs more    *)
(* often than its policy allowed or beyond the semaphore; and every call   *)
(* gets a result of its own tool, an error only after a failed attempt.    *)
(***************************************************************************)
OneResultPerCall ==
    /\ \A n \in Names : tools[n] # NoTool => n \in provider_tools[tools[n].provider]
    /\ batch.pc = "running" =>
          /\ Cardinality(Holding) <= MAX_CONCURRENCY
          /\ \A n \in DOMAIN batch.slot :
                batch.slot[n].st # "wait" => /\ \A d \in batch.deps[n] : Over(d)
                                             /\ batch.slot[n].attempts <= batch.slot[n].total
    /\ batch.pc = "done" =>
          /\ Len(batch.results) = Len(batch.calls)
          /\ \A i \in DOMAIN batch.calls :
                LET n == batch.calls[i].name IN
                /\ batch.results[i].name = n
                /\ n \in DOMAIN batch.slot => batch.slot[n].attempts \in 1..batch.slot[n].total
=============================================================================

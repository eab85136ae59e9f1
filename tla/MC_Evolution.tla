---------------------------- MODULE MC_Evolution ----------------------------
(***************************************************************************)
(* The components of model evolution, and what a model is served through   *)
(* and calls (the local model's server, a pool of connections, the tools). *)
(* They share no state with each other: each behaviour is one of them,     *)
(* chosen by focus.                                                        *)
(***************************************************************************)
EXTENDS Integers, Sequences, FiniteSets

CONSTANTS Proxies, Services, Jobs, MaxVersions, RegistryCalls, MaxCrashes, Torn, Absent,
          Percents, Candidates, Baseline, NoName, MinSamples, CanaryRequests,
          Threads, Releases, NoVersion, Unlocked, MaxDrain, MaxRequests, ManagerCalls,
          Interactions, FeedbackChoices, Fixtures, KEEP, MIN_SAMPLES, FALLBACK, LIBS, PROD, MaxFeedback, MaxExports,
          TrainingJobs,
          Thresholds, TOLERANCE, REQUIRE_BASELINE, Reports, Answers, CACHE_MAX, MaxResults,
          Modes, MaxServers, SlmCalls,
          PoolConns, MAX_CONNECTIONS, MAX_KEEPALIVE, CONNECT_RETRIES, ConnKinds, PoolCalls, PoolFaults,
          ToolNames, SdkTools, ToolEntries, Operations, INCLUDE_TAGS, EXCLUDE_TAGS, ToolBatches, MAX_CONCURRENCY, ToolChanges,
          NoTool

\* set_split refuses a fraction outside 0.0 to 1.0.
ASSUME PercentsAssumption == Percents \subseteq 0..100

\* The interactions are a log; each of the three lists of fixtures has several rows, each with its
\* place in the list.  --eval-split is a fraction.
ASSUME TrainingAssumption ==
  /\ MIN_SAMPLES \in Nat /\ KEEP \in 0..100
  /\ IsFiniteSet(DOMAIN Interactions)
  /\ \A i \in DOMAIN Interactions : Interactions[i].chunks \in Seq(Nat)
  /\ \A kind \in {"intent", "llm", "reranker"} :
        /\ IsFiniteSet(Fixtures[kind]) /\ Cardinality(Fixtures[kind]) >= 2
        /\ \A a, b \in Fixtures[kind] : a.id = b.id => a = b

\* Metrics and thresholds are numbers.  A threshold that fails a version bounds its metric from
\* below, as those of the admin API do: a drop of the metric counts as a regression.
ASSUME GateAssumption ==
  /\ TOLERANCE \in Int
  /\ \A t \in Thresholds : /\ t.threshold \in Int /\ t.comparison \in {"gt", "gte", "lt", "lte"}
                           /\ t.severity = "fail" => t.comparison \in {"gt", "gte"}
  /\ \A m \in Reports : m \in [DOMAIN m -> Int]
  /\ IsFiniteSet(Answers)
  /\ \A a \in Answers :
        /\ a.claims \in Seq([truth : {"entailment", "neutral", "contradiction"}, overlap : Int])
        /\ {a.similarity, a.words} \subseteq Int

\* 0 is Python's None, which is no connection.
ASSUME PoolAssumption == 0 \notin PoolConns /\ MAX_CONNECTIONS \in Nat /\ MAX_KEEPALIVE \in Nat

\* Tools have names, and a number of retries; tools that code registers are functions.
ASSUME ToolsAssumption ==
  /\ IsFiniteSet(ToolNames) /\ MAX_CONCURRENCY \in Nat
  /\ \A t \in SdkTools : t \in [name : ToolNames, provider : {"sdk"}, handler : {"sync", "async"},
                                depends_on : SUBSET ToolNames, max_retries : Nat]
  /\ \A e \in ToolEntries : e.name \in ToolNames /\ e.retries \in Nat
  /\ \A o \in Operations : o.name \in ToolNames
  /\ \A c \in ToolBatches : c \in Seq([id : Nat, name : ToolNames, complete : BOOLEAN])

ASSUME ModesAssumption == Modes \subseteq {"local", "remote", "none"}

VARIABLES focus,
          registry_file, tmp, rpc, mem, hand, jobs, rcalls, crashes,
          config, exists, phase, cooling, stats, inflight, routed, served,
          state, version, path, requests, lock, pc, job, watching, known, calls,
          logged, feedback, export, exports, datasets, tjob, tjobs,
          production, nli, scored, results,
          mode, servers, process, slock, sthread, replied, scalls, exited, lost,
          conn_kind, factory, connections, available, in_use, closed, conn, plock, task, pcalls, pfaults, strays, bypassed,
          tools, provider_tools, batch, changes

Registry == INSTANCE ModelRegistry WITH pc <- rpc, calls <- rcalls, MaxCalls <- RegistryCalls
Canary == INSTANCE CanaryController WITH MaxRequests <- CanaryRequests
Adapters == INSTANCE AdapterManager WITH MaxCalls <- ManagerCalls
Training == INSTANCE Training WITH MaxJobs <- TrainingJobs, files <- datasets, job <- tjob, jobs <- tjobs
Gate == INSTANCE EvalGate WITH cache <- scored
Slm == INSTANCE LocalSlm WITH
    MaxCalls <- SlmCalls, lock <- slock, thread <- sthread, results <- replied, calls <- scalls
Pool == INSTANCE ConnectionPool WITH
    Tasks <- Threads, Conns <- PoolConns, MAX_RETRIES <- CONNECT_RETRIES, Kinds <- ConnKinds, MaxCalls <- PoolCalls,
    MaxFaults <- PoolFaults, kind <- conn_kind, lock <- plock, calls <- pcalls, faults <- pfaults
Tools == INSTANCE Tools WITH
    Names <- ToolNames, Entries <- ToolEntries, Batches <- ToolBatches, MaxChanges <- ToolChanges

rvars == <<registry_file, tmp, rpc, mem, hand, jobs, rcalls, crashes>>
cvars == <<config, exists, phase, cooling, stats, inflight, routed, served>>
avars == <<state, version, path, requests, lock, pc, job, watching, known, calls>>
tvars == <<logged, feedback, export, exports, datasets, tjob, tjobs>>
gvars == <<production, nli, scored, results>>
svars == <<mode, servers, process, slock, sthread, replied, scalls, exited, lost>>
pvars == <<conn_kind, factory, connections, available, in_use, closed, conn, plock, task, pcalls, pfaults, strays, bypassed>>
ovars == <<tools, provider_tools, batch, changes>>
vars == <<focus, rvars, cvars, avars, tvars, gvars, svars, pvars, ovars>>

Off == "off"

Init ==
  /\ focus \in {"registry", "canary", "adapters", "training", "gate", "slm", "pool", "tools"}
  /\ Registry!Init /\ Canary!Init /\ Adapters!Init /\ Training!Init
  /\ IF focus = "gate" THEN Gate!Init
     ELSE production = Off /\ nli = Off /\ scored = Off /\ results = Off
  /\ IF focus = "slm" THEN Slm!Init
     ELSE /\ mode = Off /\ servers = Off /\ process = Off /\ slock = Off /\ sthread = Off /\ replied = Off
          /\ scalls = Off /\ exited = Off /\ lost = Off
  /\ IF focus = "pool" THEN Pool!Init
     ELSE /\ conn_kind = Off /\ factory = Off /\ connections = Off /\ available = Off /\ in_use = Off /\ closed = Off
          /\ conn = Off /\ plock = Off /\ task = Off /\ pcalls = Off /\ pfaults = Off /\ strays = Off /\ bypassed = Off
  /\ IF focus = "tools" THEN Tools!Init
     ELSE tools = Off /\ provider_tools = Off /\ batch = Off /\ changes = Off

Next ==
  /\ UNCHANGED focus
  /\ \/ focus = "registry" /\ Registry!Next /\ UNCHANGED <<cvars, avars, tvars, gvars, svars, pvars, ovars>>
     \/ focus = "canary" /\ Canary!Next /\ UNCHANGED <<rvars, avars, tvars, gvars, svars, pvars, ovars>>
     \/ focus = "adapters" /\ Adapters!Next /\ UNCHANGED <<rvars, cvars, tvars, gvars, svars, pvars, ovars>>
     \/ focus = "training" /\ Training!Next /\ UNCHANGED <<rvars, cvars, avars, gvars, svars, pvars, ovars>>
     \/ focus = "gate" /\ Gate!Next /\ UNCHANGED <<rvars, cvars, avars, tvars, svars, pvars, ovars>>
     \/ focus = "slm" /\ Slm!Next /\ UNCHANGED <<rvars, cvars, avars, tvars, gvars, pvars, ovars>>
     \/ focus = "pool" /\ Pool!Next /\ UNCHANGED <<rvars, cvars, avars, tvars, gvars, svars, ovars>>
     \/ focus = "tools" /\ Tools!Next /\ UNCHANGED <<rvars, cvars, avars, tvars, gvars, svars, pvars>>

Spec == Init /\ [][Next]_vars /\ Adapters!Fairness

-----------------------------------------------------------------------------
(* The instance that is model-checked. *)

\* Two talks about the same: one query, one context, two answers and a correction.
Talk(a) == [query |-> 1, label |-> "factual", response |-> a, chunks |-> <<1, 2>>, hit |-> <<2, 0, 1>>]
LoggedTalks == <<Talk(1), Talk(2)>>
Opinions == {[id |-> 1, type |-> "positive", corrected |-> 0], [id |-> 2, type |-> "negative", corrected |-> 3]}
BuiltIn == [k \in {"intent", "llm", "reranker"} |->
              {[id |-> <<0, i>>, text |-> <<9, i>>,
                stratum |-> IF k = "llm" THEN "all" ELSE IF i <= 2 THEN "positive" ELSE "negative"] : i \in 1..4}]

Limit(m, t, c, s) == [metric |-> m, threshold |-> t, comparison |-> c, severity |-> s]
Limits == {Limit("accuracy", 90, "gte", "fail"), Limit("eval_loss", 100, "lte", "warn"),
           Limit("nli_overall_score", 50, "gte", "fail")}
Measured == {[accuracy |-> 89], [accuracy |-> 91, eval_loss |-> 80], [accuracy |-> 95, eval_loss |-> 80],
             [accuracy |-> 94, eval_loss |-> 120]}
Claim(t, o) == [truth |-> t, overlap |-> o]
Judged == {[claims |-> <<Claim("entailment", 10), Claim("neutral", 60)>>, context |-> TRUE, similarity |-> 70, words |-> 50],
           [claims |-> <<Claim("entailment", 60)>>, context |-> FALSE, similarity |-> 40, words |-> 40]}

ConnectionKinds == [reports : BOOLEAN, coroutine : BOOLEAN]

SdkTool(n, h, d, r) == [name |-> n, provider |-> "sdk", handler |-> h, depends_on |-> d, max_retries |-> r]
Coded == {SdkTool("x", "async", {}, 1), SdkTool("y", "sync", {"x"}, 0), SdkTool("z", "sync", {"x", "y"}, 1),
          SdkTool("x", "sync", {"y"}, 0)}
Entry(n, t, l, r) == [name |-> n, type |-> t, lacks |-> l, retries |-> r]
Declared == {Entry("x", "http", {}, 1), Entry("y", "shell", {}, 0), Entry("z", "shell", {"commands"}, 0),
             Entry("z", "http", {"description"}, 0)}
Specified == {[name |-> "x", tags |-> {"s"}], [name |-> "y", tags |-> {"w"}]}
Call(i, n, c) == [id |-> i, name |-> n, complete |-> c]
AskedOf == {<<Call(1, "z", TRUE), Call(2, "y", TRUE), Call(3, "x", TRUE)>>,
            <<Call(1, "x", TRUE), Call(2, "x", FALSE), Call(3, "y", TRUE)>>}

-----------------------------------------------------------------------------
(* The properties, with their comments, are in the components' modules. *)

\* The registry never names two production versions of a model.
OneProduction == Registry!OneProduction

\* Phase and traffic split of a canary agree.
PhaseMatchesSplit == Canary!PhaseMatchesSplit

\* An adapter is not left in a passing state once every call has returned.
AdapterSettles == Adapters!AdapterSettles

\* No record is on both sides of a split that one export wrote and one job read; two records may
\* have the same text (export_training_datasets.py, slm_trainer.py).
HeldOut == Training!HeldOut

\* A better report never gets a worse verdict from the gate against the same baseline
\* (eval_gate.py).
GateMonotone == focus = "gate" => Gate!GateMonotone

\* What is shared has one owner: threads that start, await and restart the local model's server
\* have one at most, and the proxy's exit stops it, unless an unlocked reset lost track of it
\* (llm/slm.py); a pooled connection is in one pair of hands, and the pool keeps to its limits
\* and knows what is open (connection_pool.py).
OneOwner ==
    /\ focus = "slm" => Slm!OneServer
    /\ focus = "pool" => Pool!PoolSound

\* A registered tool is listed under its provider, and a call of a batch gets one result, of its own
\* tool, run in the order of the dependencies and within the limits, over retries, timeouts and
\* registry changes (tools/registry.py, tools/orchestrator.py).
OneResultPerCall == focus = "tools" => Tools!OneResultPerCall

\* Every call of the adapter manager returns.
CallsReturn == Adapters!CallsReturn
=============================================================================

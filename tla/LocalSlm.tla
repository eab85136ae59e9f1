------------------------------ MODULE LocalSlm ------------------------------
(***************************************************************************)
(* The small language model (proxy/app/llm/slm.py): threads that ask it,   *)
(* the llama-server process that the first of them starts and that is      *)
(* started again when it has died, and what each task makes of a reply,    *)
(* or of none.                                                             *)
(*                                                                         *)
(* A reply is its kind: "" (none, or a failure), one of the intents, a     *)
(* JSON list of strings, an empty one, other JSON, text with quoted parts, *)
(* or other text.  A result is what it was made from.                      *)
(***************************************************************************)
EXTENDS Naturals, Sequences, FiniteSets

CONSTANTS Threads,     \* request threads
          Modes,       \* configurations: "local" (SLM_LOCAL_ENABLED), "remote" (SLM_ENDPOINT), "none"
          MaxServers,  \* bound: processes started
          MaxCalls     \* bound: calls

VARIABLES mode,
          servers,   \* every llama-server ever started: "starting", "ready" or "dead"
          process,   \* self._process: index in servers, 0 for None
          lock,      \* self._lock: the thread that holds it, as a set
          thread,    \* thread -> where it is, its task, and the process it last read
          results,   \* what the last call returned, as a set
          calls,
          exited,    \* atexit has run
          lost       \* history: the unlocked reset of generate has dropped a newer process

vars == <<mode, servers, process, lock, thread, results, calls, exited, lost>>

Tasks == {"classify", "decompose", "rewrite", "entities"}
Replies == {"", "intent", "list", "empty_list", "json", "quoted", "text"}
Idle == [at |-> "idle", task |-> "none", seen |-> 0]

Init ==
    /\ mode \in Modes
    /\ servers = <<>> /\ process = 0 /\ lock = {} /\ thread = [t \in Threads |-> Idle]
    /\ results = {} /\ calls = 0 /\ exited = FALSE /\ lost = FALSE

Alive == {i \in DOMAIN servers : servers[i] # "dead"}
_is_server_ready == \E i \in DOMAIN servers : servers[i] = "ready"

-----------------------------------------------------------------------------
(* What a task returns *)

classify_intent(reply) == IF reply = "intent" THEN "intent" ELSE "unknown"

\* A list of strings as it is, else quoted parts if the reply does not parse, else the query.
decompose_query(reply) ==
    CASE reply = "list" -> "parts"
      [] reply = "empty_list" -> "nothing"
      [] reply = "quoted" -> "parts"
      [] OTHER -> "query"

rewrite_query_slm(reply) == IF reply # "" THEN "reply" ELSE "query"

\* Words of the query only if the reply does not parse.
extract_entities_slm(reply) ==
    CASE reply = "list" -> "parts"
      [] reply \in {"empty_list", "json"} -> "nothing"
      [] OTHER -> "words"

ResultOf(task, reply) ==
    CASE task = "classify" -> classify_intent(reply)
      [] task = "decompose" -> decompose_query(reply)
      [] task = "rewrite" -> rewrite_query_slm(reply)
      [] task = "entities" -> extract_entities_slm(reply)

\* The call of t returns.
Return(t, reply) ==
    /\ thread' = [thread EXCEPT ![t] = Idle]
    /\ results' = {[task |-> thread[t].task, reply |-> reply, result |-> ResultOf(thread[t].task, reply)]}

Goto(t, place) == thread' = [thread EXCEPT ![t].at = place] /\ UNCHANGED results

-----------------------------------------------------------------------------
(* LocalSLMClient *)

_call_slm_sync(t, task) ==
    /\ thread[t].at = "idle" /\ ~exited /\ calls < MaxCalls
    /\ calls' = calls + 1
    /\ thread' = [thread EXCEPT ![t] = [at |-> mode, task |-> task, seen |-> 0]]
    /\ UNCHANGED <<mode, servers, process, lock, results, exited, lost>>

\* Without a local server: one request, or no endpoint.
remote(t, reply) ==
    /\ thread[t].at \in {"remote", "none"}
    /\ thread[t].at = "none" => reply = ""
    /\ Return(t, reply)
    /\ UNCHANGED <<mode, servers, process, lock, calls, exited, lost>>

\* The check before the lock.
check(t) ==
    /\ thread[t].at = "local"
    /\ Goto(t, IF _is_server_ready THEN "post" ELSE "enter")
    /\ UNCHANGED <<mode, servers, process, lock, calls, exited, lost>>

\* The lock, and the check again.
enter(t) ==
    /\ thread[t].at = "enter" /\ lock = {}
    /\ IF _is_server_ready THEN Goto(t, "post") /\ UNCHANGED lock ELSE Goto(t, "launch") /\ lock' = {t}
    /\ UNCHANGED <<mode, servers, process, calls, exited, lost>>

\* Variant: a process that is not ready is not waited for.
launch_again(t) ==
    /\ thread[t].at = "launch" /\ lock = {t} /\ Len(servers) < MaxServers
    /\ servers' = Append(servers, "starting") /\ process' = Len(servers) + 1 /\ Goto(t, "own")
    /\ UNCHANGED <<mode, lock, calls, exited, lost>>

\* A process that is alive is waited for; else, dead or none, one is started.
launch(t) ==
    /\ thread[t].at = "launch" /\ lock = {t}
    /\ IF process \in Alive
       THEN Goto(t, "other") /\ UNCHANGED <<servers, process>>
       ELSE /\ Len(servers) < MaxServers
            /\ servers' = Append(servers, "starting") /\ process' = Len(servers) + 1 /\ Goto(t, "own")
    /\ UNCHANGED <<mode, lock, calls, exited, lost>>

\* The binary cannot be run.
launch_fails(t) ==
    /\ thread[t].at = "launch" /\ lock = {t} /\ process \notin Alive
    /\ process' = 0 /\ lock' = {} /\ Return(t, "")
    /\ UNCHANGED <<mode, servers, calls, exited, lost>>

\* One round of either loop, up to the wait without the lock.  The thread that started a process
\* gives up when the process has gone, or was set to None by another thread.
wait(t) ==
    /\ thread[t].at \in {"own", "other"} /\ lock = {t}
    /\ lock' = {}
    /\ CASE thread[t].at = "own" /\ process \notin Alive -> Return(t, "")
         [] _is_server_ready /\ (thread[t].at = "own" => process \in Alive) -> Goto(t, "post")
         [] OTHER -> Goto(t, IF thread[t].at = "own" THEN "own_sleeps" ELSE "other_sleeps")
    /\ UNCHANGED <<mode, servers, process, calls, exited, lost>>

relock(t) ==
    /\ thread[t].at \in {"own_sleeps", "other_sleeps"} /\ lock = {}
    /\ lock' = {t}
    /\ Goto(t, IF thread[t].at = "own_sleeps" THEN "own" ELSE "other")
    /\ UNCHANGED <<mode, servers, process, calls, exited, lost>>

_shutdown ==
    /\ servers' = [i \in DOMAIN servers |-> IF i = process THEN "dead" ELSE servers[i]]
    /\ process' = 0

\* The deadline: the thread that started a process stops whatever process there is now.
timeout(t) ==
    /\ thread[t].at \in {"own", "other"} /\ lock = {t}
    /\ lock' = {}
    /\ IF thread[t].at = "own" THEN _shutdown ELSE UNCHANGED <<servers, process>>
    /\ Return(t, "")
    /\ UNCHANGED <<mode, calls, exited, lost>>

\* The request of generate.  After a failure the process is looked at, without the lock ...
generate(t, reply) ==
    /\ thread[t].at = "post"
    /\ IF _is_server_ready /\ reply # ""
       THEN Return(t, reply)
       ELSE /\ reply = ""
            /\ IF process # 0 /\ process \notin Alive
               THEN /\ thread' = [thread EXCEPT ![t].at = "reset", ![t].seen = process]
                    /\ UNCHANGED results
               ELSE Return(t, "")
    /\ UNCHANGED <<mode, servers, process, lock, calls, exited, lost>>

\* ... and if it was dead, self._process is set to None, whatever it is by now.
reset(t) ==
    /\ thread[t].at = "reset"
    /\ process' = 0
    /\ lost' = (lost \/ process \notin {0, thread[t].seen})
    /\ Return(t, "")
    /\ UNCHANGED <<mode, servers, lock, calls, exited>>

\* atexit runs when the threads have ended.
shutdown ==
    /\ ~exited /\ \A t \in Threads : thread[t].at = "idle"
    /\ _shutdown /\ exited' = TRUE
    /\ UNCHANGED <<mode, lock, thread, results, calls, lost>>

\* llama-server: comes up if the port is free, or ends at any time.
Server(i) ==
    /\ \/ /\ servers[i] = "starting" /\ ~ _is_server_ready
          /\ servers' = [servers EXCEPT ![i] = "ready"]
       \/ /\ servers[i] # "dead"
          /\ servers' = [servers EXCEPT ![i] = "dead"]
    /\ UNCHANGED <<mode, process, lock, thread, results, calls, exited, lost>>

Next ==
    \/ \E t \in Threads :
          \/ \E k \in Tasks : _call_slm_sync(t, k)
          \/ \E r \in Replies : remote(t, r) \/ generate(t, r)
          \/ check(t) \/ enter(t) \/ launch(t) \/ launch_fails(t) \/ wait(t) \/ relock(t) \/ timeout(t) \/ reset(t)
    \/ shutdown
    \/ \E i \in DOMAIN servers : Server(i)

Spec == Init /\ [][Next]_vars

-----------------------------------------------------------------------------
TypeOK ==
    /\ mode \in Modes /\ servers \in Seq({"starting", "ready", "dead"}) /\ process \in 0..Len(servers)
    /\ lock \subseteq Threads /\ Cardinality(lock) <= 1 /\ calls \in 0..MaxCalls
    /\ exited \in BOOLEAN /\ lost \in BOOLEAN

(***************************************************************************)
(* Threads that find no server, wait for each other's, give up on it or    *)
(* restart it never have two servers alive, and the one alive is the one   *)
(* that _shutdown knows, so that none outlives the proxy.  Left out by     *)
(* name is the history in which the reset in generate, done without the    *)
(* lock, has dropped a process started since it looked.  And a call that   *)
(* got no reply still gives its task something to go on with               *)
(* (LocalSLMClient, _call_slm_sync and its callers in llm/slm.py).         *)
(***************************************************************************)
OneServer ==
    /\ lost \/ /\ Cardinality(Alive) <= 1 /\ Alive \subseteq {process}
               /\ exited => Alive = {}
    /\ \A r \in results : r.reply = "" => r.result \in {"unknown", "query", "words"}
=============================================================================

--------------------------- MODULE ModelRegistry ---------------------------
(***************************************************************************)
(* The versions of one model in the JSON registry file, written by the     *)
(* admin endpoints of the proxy (proxy/app/api/admin.py) and of the model  *)
(* evolution service (model_evolution_service/api), which both build a     *)
(* fresh ModelRegistry per call.  Processes share the file and the name of *)
(* the temporary file it is replaced by; the registry's lock is an object  *)
(* of one process and of one call.  Training ends in a registration.       *)
(***************************************************************************)
EXTENDS Naturals, FiniteSets, FiniteSetsExt

CONSTANTS
  Proxies,      \* proxy processes, which have admin endpoints
  Services,     \* model evolution service processes, with endpoints of their own
  Jobs,         \* training jobs
  MaxVersions,  \* bound on registered versions
  MaxCalls,     \* bound on admin calls
  MaxCrashes,   \* bound on processes killed
  Torn, Absent  \* half a JSON file, and no file

VARIABLES
  registry_file,  \* the content of the registry file, or Torn
  tmp,            \* the content of its .tmp file, Torn or Absent
  pc, mem, hand,  \* per process: position, loaded content, which file its handle is
  jobs,           \* per training job: "none", "running", "completed", "failed"
  calls, crashes  \* bounds

vars == <<registry_file, tmp, pc, mem, hand, jobs, calls, crashes>>

Procs == Proxies \cup Services
Versions == 1..MaxVersions
ModelVersion == [status : {"none", "staging", "canary", "production", "archived"}]
Missing == [status |-> "none"]
Empty == [v \in Versions |-> Missing]

In(m, status) == {v \in Versions : m[v].status = status}
Known(m) == {v \in Versions : m[v].status # "none"}
get_latest_production(m) == IF In(m, "production") = {} THEN 0 ELSE Max(In(m, "production"))

Init ==
  /\ registry_file = Empty /\ tmp = Absent
  /\ pc = [p \in Procs |-> "idle"]
  /\ mem = [p \in Procs |-> Empty]
  /\ hand = [p \in Procs |-> "none"]
  /\ jobs = [j \in Jobs |-> "none"]
  /\ calls = 0 /\ crashes = 0
-----------------------------------------------------------------------------
(* One call: load, change, dump to the temporary file, replace.            *)

\* An unreadable file counts as an empty registry.
_load(p) ==
  /\ pc[p] = "idle" /\ calls < MaxCalls
  /\ calls' = calls + 1
  /\ mem' = [mem EXCEPT ![p] = IF registry_file = Torn THEN Empty ELSE registry_file]
  /\ pc' = [pc EXCEPT ![p] = "loaded"]
  /\ UNCHANGED <<registry_file, tmp, hand, jobs, crashes>>

\* _save opens the temporary file, which truncates it.
_save(p, m) ==
  /\ mem' = [mem EXCEPT ![p] = m]
  /\ tmp' = Torn
  /\ hand' = [hand EXCEPT ![p] = "tmp"]
  /\ pc' = [pc EXCEPT ![p] = "opened"]
  /\ UNCHANGED registry_file

\* The call is over, and its registry object is gone.
Return(p) ==
  /\ pc' = [pc EXCEPT ![p] = "idle"]
  /\ mem' = [mem EXCEPT ![p] = Empty]

\* A KeyError or a ValueError: nothing is saved.
Raise(p) == Return(p) /\ UNCHANGED <<registry_file, tmp, hand>>

\* Variant: a version goes to production without the others being archived.
promote_alone(p, v) ==
  /\ pc[p] = "loaded" /\ v \in Known(mem[p])
  /\ _save(p, [mem[p] EXCEPT ![v].status =
       CASE @ = "staging" -> "canary" [] @ = "canary" -> "production" [] OTHER -> @])
  /\ UNCHANGED <<jobs, calls, crashes>>

promote(p, v) ==
  LET m == mem[p]
      archived == [w \in Versions |-> IF w # v /\ m[w].status = "production"
                                      THEN [m[w] EXCEPT !.status = "archived"] ELSE m[w]]
  IN  /\ pc[p] = "loaded"
      /\ CASE v \notin Known(m) -> Raise(p)
           [] m[v].status = "staging" -> _save(p, [m EXCEPT ![v].status = "canary"])
           [] m[v].status = "canary" ->
                _save(p, [archived EXCEPT ![v].status = "production"])
           [] OTHER -> _save(p, m)
      /\ UNCHANGED <<jobs, calls, crashes>>

\* The newest archived version is taken for the previous production version.
rollback(p) ==
  LET m == mem[p]
      current == get_latest_production(m)
      candidates == In(m, "archived") \ {current}
      previous == Max(candidates)
  IN  /\ pc[p] = "loaded"
      /\ IF current = 0 \/ candidates = {} THEN Raise(p)
         ELSE _save(p, [m EXCEPT ![current].status = "archived", ![previous].status = "production"])
      /\ UNCHANGED <<jobs, calls, crashes>>

\* Evaluation only records the metrics, which promotion does not ask for: the table is saved again.
update_metrics(p, v) ==
  /\ pc[p] = "loaded"
  /\ IF v \in Known(mem[p]) THEN _save(p, mem[p]) ELSE Raise(p)
  /\ UNCHANGED <<jobs, calls, crashes>>

\* The handle may by now be the registry file itself, or a file replaced since; a
\* shorter text over a longer one leaves no JSON.  The handle is then closed.
json_dump(p) ==
  /\ pc[p] = "opened"
  /\ LET Text(old) == IF old = Torn THEN {mem[p]} ELSE {mem[p], Torn}
     IN  CASE hand[p] = "tmp" -> tmp' \in Text(tmp) /\ UNCHANGED registry_file
           [] hand[p] = "file" -> registry_file' \in Text(registry_file) /\ UNCHANGED tmp
           [] OTHER -> UNCHANGED <<registry_file, tmp>>
  /\ hand' = [hand EXCEPT ![p] = "none"]
  /\ pc' = [pc EXCEPT ![p] = "written"]
  /\ UNCHANGED <<mem, jobs, calls, crashes>>

Moved(h) == CASE h = "tmp" -> "file" [] h = "file" -> "none" [] OTHER -> h

\* os.replace, which fails if the temporary file has been taken by another process.
os_replace(p) ==
  /\ pc[p] = "written"
  /\ IF tmp = Absent THEN UNCHANGED <<registry_file, tmp, hand>>
     ELSE /\ registry_file' = tmp /\ tmp' = Absent
          /\ hand' = [q \in Procs |-> Moved(hand[q])]
  /\ Return(p)
  /\ UNCHANGED <<jobs, calls, crashes>>

\* A process is killed; its training jobs are gone with it.
Crash(p) ==
  /\ crashes < MaxCrashes
  /\ crashes' = crashes + 1
  /\ Return(p)
  /\ hand' = [hand EXCEPT ![p] = "none"]
  /\ UNCHANGED <<registry_file, tmp, jobs, calls>>
-----------------------------------------------------------------------------
(* Training jobs and the endpoints.                                        *)

admin_models_train(j) ==
  /\ jobs[j] = "none"
  /\ jobs' = [jobs EXCEPT ![j] = "running"]
  /\ UNCHANGED <<registry_file, tmp, pc, mem, hand, calls, crashes>>

\* SLMTrainer.train catches every error of preparing, fitting, evaluating and
\* saving and reports it as a failed job; the other trainers are stand-ins.
train == {"completed", "failed"}

\* The event loop of the process stands still during the training.
_run_training(p, j) ==
  /\ jobs[j] = "running" /\ pc[p] = "idle"
  /\ \E result \in train :
       /\ jobs' = [jobs EXCEPT ![j] = result]
       /\ IF result = "failed" THEN UNCHANGED <<mem, pc>>
          ELSE /\ mem' = [mem EXCEPT ![p] = IF registry_file = Torn THEN Empty
                                           ELSE registry_file]
               /\ pc' = [pc EXCEPT ![p] = "trained"]
  /\ UNCHANGED <<registry_file, tmp, hand, calls, crashes>>

\* The registration of a completed job; an error of it is only logged.
register(p) ==
  LET v == Cardinality(Known(mem[p])) + 1
  IN  /\ pc[p] = "trained"
      /\ IF v \notin Versions \/ v \in Known(mem[p]) THEN Raise(p)
         ELSE _save(p, [mem[p] EXCEPT ![v].status = "staging"])
      /\ UNCHANGED <<jobs, calls, crashes>>

admin_router(p) ==
  \/ rollback(p)
  \/ \E v \in Versions : promote(p, v) \/ update_metrics(p, v)

models_router(p) ==
  \/ rollback(p)
  \/ \E v \in Versions : promote(p, v) \/ update_metrics(p, v)

Next ==
  \/ \E p \in Proxies : admin_router(p)
  \/ \E p \in Services : models_router(p)
  \/ \E p \in Procs : _load(p) \/ json_dump(p) \/ os_replace(p) \/ Crash(p)
  \/ \E j \in Jobs : admin_models_train(j)
  \/ \E p \in Procs, j \in Jobs : _run_training(p, j)
  \/ \E p \in Procs : register(p)

Spec == Init /\ [][Next]_vars
-----------------------------------------------------------------------------
TypeOK ==
  /\ registry_file \in [Versions -> ModelVersion] \cup {Torn}
  /\ tmp \in [Versions -> ModelVersion] \cup {Torn, Absent}
  /\ mem \in [Procs -> [Versions -> ModelVersion]]
  /\ pc \in [Procs -> {"idle", "loaded", "trained", "opened", "written"}]
  /\ hand \in [Procs -> {"none", "tmp", "file"}]

\* However the writers of the file overlap, overwrite each other's updates or are
\* killed, the registry never names two production versions of a model.
OneProduction ==
  \A m \in {registry_file, tmp} \ {Torn, Absent} : Cardinality(In(m, "production")) <= 1
=============================================================================

----------------------------- MODULE WalManager -----------------------------
(***************************************************************************)
(* The whole interface of WALManager (etl/indexer/wal_manager.py) under    *)
(* threads or processes that share one WAL, over each of its backends: the *)
(* JSON file with its lock, Redis, and the API of the proxy.               *)
(*                                                                         *)
(* EtlBatch has what run_etl does with the file, the stale lock included;  *)
(* here the lock excludes.  A section is its last_run, its hash_map, the   *)
(* age of its _updated_at, and whether the data have it at all; offset and *)
(* last_id are written and read like last_run.  Values are the numbers of  *)
(* the calls that wrote them, 0 for none.                                  *)
(***************************************************************************)
EXTENDS Naturals, FiniteSets

CONSTANTS Threads, Pipelines, Docs,
          Backends,      \* among "file", "redis", "proxy"
          MaxCalls,      \* bound: calls that write, per backend
          MaxFaults      \* bound: reads and writes that fail

VARIABLES backend,
          wal,        \* pipeline -> its section
          truncated,  \* the file has been opened for writing and not been written yet
          lock, thread, calls, faults,
          latest,     \* history: the sections as if every call that took effect had run alone
          disturbed   \* history: keys of sections written over an outdated read, by a write that
                      \* failed, or by a reset without effect

vars == <<backend, wal, truncated, lock, thread, calls, faults, latest, disturbed>>

NoMap == [d \in Docs |-> 0]
Absent == [in |-> FALSE, last_run |-> 0, map |-> NoMap, updated |-> "never"]
Nothing == [p \in Pipelines |-> Absent]
Idle == [at |-> "idle", call |-> [op |-> "none"], map |-> NoMap, data |-> Nothing, todo |-> {}]
Keys == Pipelines \X {"last_run", "map"}

Calls(n) ==
    [op : {"update_last_run"}, pipeline : Pipelines, value : {n}]
    \cup [op : {"update_hash_state"}, pipeline : Pipelines, doc : Docs, value : {n}]
    \cup [op : {"reset_pipeline"}, pipeline : Pipelines, keep_last_run : BOOLEAN]
    \cup [op : {"reset_all", "vacuum"}]

\* create_wal_manager: the backend is configured; a new file holds {}.
create_wal_manager ==
    /\ backend \in Backends
    /\ wal = Nothing /\ truncated = FALSE /\ lock = {}

Init ==
    /\ create_wal_manager /\ thread = [t \in Threads |-> Idle]
    /\ calls = 0 /\ faults = 0 /\ latest = Nothing /\ disturbed = {}

TypeOK ==
    LET Section == [in : BOOLEAN, last_run : 0..MaxCalls[backend], map : [Docs -> 0..MaxCalls[backend]],
                    updated : {"never", "lately", "long ago"}]
    IN /\ {wal, latest} \subseteq [Pipelines -> Section]
       /\ truncated \in BOOLEAN /\ lock \subseteq Threads /\ disturbed \subseteq Keys
       /\ \A t \in Threads : /\ thread[t].at \in {"idle", "peek", "update", "dump", "write"}
                             /\ thread[t].data \in [Pipelines -> Section]
       /\ calls \in 0..MaxCalls[backend] /\ faults \in 0..MaxFaults

-----------------------------------------------------------------------------
(* The update functions, on the data read; map is the hash_map to be set *)

set_checkpoint(section, key, value) ==
    [section EXCEPT !.in = TRUE, ![key] = value, !.updated = "lately"]

reset_pipeline(section, keep_last_run) ==
    IF keep_last_run THEN [Absent EXCEPT !.in = TRUE, !.last_run = section.last_run] ELSE Absent

vacuum(section) == IF section.updated = "long ago" THEN [section EXCEPT !.map = NoMap] ELSE section

Update(c, data, map) ==
    CASE c.op = "update_last_run" ->
            [data EXCEPT ![c.pipeline] = set_checkpoint(@, "last_run", c.value)]
      [] c.op = "update_hash_state" -> [data EXCEPT ![c.pipeline] = set_checkpoint(@, "map", map)]
      [] c.op = "reset_pipeline" -> [data EXCEPT ![c.pipeline] = reset_pipeline(@, c.keep_last_run)]
      [] c.op = "reset_all" -> Nothing
      [] c.op = "vacuum" -> [p \in Pipelines |-> vacuum(data[p])]

\* The same on the history, where a hash update changes one hash only.
Alone(c, data) ==
    Update(c, data, IF c.op = "update_hash_state" THEN [data[c.pipeline].map EXCEPT ![c.doc] = c.value] ELSE NoMap)

\* Keys of the sections S whose new values were worked out from something else than what is
\* stored now.
Outdated(t, S) ==
    LET c == thread[t].call
        old == {p \in S : thread[t].data[p] # wal[p]}
        map == c.op = "update_hash_state" /\ thread[t].map # [wal[c.pipeline].map EXCEPT ![c.doc] = c.value]
    IN (old \X {"last_run", "map"}) \cup {k \in Keys : map /\ k = <<c.pipeline, "map">> /\ c.pipeline \in S}

-----------------------------------------------------------------------------
Fault == faults < MaxFaults /\ faults' = faults + 1
Goto(t, rec) == thread' = [thread EXCEPT ![t] = rec]

call(t, c) ==
    /\ thread[t].at = "idle" /\ calls < MaxCalls[backend]
    /\ calls' = calls + 1
    /\ Goto(t, [Idle EXCEPT !.at = IF c.op = "update_hash_state" THEN "peek" ELSE "update", !.call = c])
    /\ UNCHANGED <<backend, wal, truncated, lock, faults, latest, disturbed>>

\* read: what cannot be read is empty: a file being written, Redis or the proxy not answering.
read(fails) ==
    /\ backend = "file" => ~fails
    /\ IF fails THEN Fault ELSE UNCHANGED faults
Data(fails) == IF fails \/ truncated THEN Nothing ELSE wal

\* update_hash_state reads the map before, and outside, the update.
update_hash_state(t, fails) ==
    LET c == thread[t].call IN
    /\ thread[t].at = "peek" /\ read(fails)
    /\ Goto(t, [thread[t] EXCEPT !.at = "update",
                                 !.map = [Data(fails)[c.pipeline].map EXCEPT ![c.doc] = c.value]])
    /\ UNCHANGED <<backend, wal, truncated, lock, calls, latest, disturbed>>

\* Variant: without the lock of the file.
_update_wal_unlocked(t) ==
    /\ thread[t].at = "update" /\ backend = "file"
    /\ truncated' = TRUE /\ lock' = {t}
    /\ Goto(t, [thread[t] EXCEPT !.at = "dump", !.data = Data(FALSE)])
    /\ UNCHANGED <<backend, wal, calls, faults, latest, disturbed>>

\* _update_wal with the file's lock: read, update, and open for writing, which truncates.
_update_wal(t) ==
    /\ thread[t].at = "update" /\ backend = "file" /\ lock = {}
    /\ truncated' = TRUE /\ lock' = {t}
    /\ Goto(t, [thread[t] EXCEPT !.at = "dump", !.data = Data(FALSE)])
    /\ UNCHANGED <<backend, wal, calls, faults, latest, disturbed>>

\* FileLock's timeout: the call raises.
lock_timeout(t) ==
    /\ thread[t].at = "update" /\ backend = "file" /\ lock \ {t} # {} /\ Goto(t, Idle)
    /\ UNCHANGED <<backend, wal, truncated, lock, calls, faults, latest, disturbed>>

\* An OSError leaves the truncated file.
_write_raw(t, fails) ==
    LET c == thread[t].call IN
    /\ thread[t].at = "dump"
    /\ truncated' = FALSE /\ lock' = lock \ {t} /\ Goto(t, Idle)
    /\ IF fails THEN Fault /\ wal' = Nothing /\ disturbed' = Keys /\ UNCHANGED latest
       ELSE /\ wal' = Update(c, thread[t].data, thread[t].map)
            /\ latest' = Alone(c, latest)
            /\ disturbed' = disturbed \cup (IF c.op = "update_hash_state" THEN Outdated(t, {c.pipeline}) ELSE {})
            /\ UNCHANGED faults
    /\ UNCHANGED <<backend, calls>>

\* _update_wal over Redis or the proxy: read and update, then write, without a lock.
read_remote(t, fails) ==
    LET c == thread[t].call
        new == Update(c, Data(fails), thread[t].map) IN
    /\ thread[t].at = "update" /\ backend # "file" /\ read(fails)
    /\ Goto(t, [thread[t] EXCEPT !.at = "write", !.data = Data(fails), !.todo = {p \in Pipelines : new[p].in}])
    /\ UNCHANGED <<backend, wal, truncated, lock, calls, latest, disturbed>>

\* Sections are set, never deleted: a reset leaves what it should have removed.
Removed(c) ==
    {p \in Pipelines : c.op = "reset_all" \/ (c.op = "reset_pipeline" /\ p = c.pipeline /\ ~c.keep_last_run)}

\* Sections S are stored.
Store(t, S) ==
    LET c == thread[t].call
        new == Update(c, thread[t].data, thread[t].map)
        gone == Removed(c)
    IN
    /\ wal' = [p \in Pipelines |-> IF p \in S THEN new[p] ELSE wal[p]]
    /\ latest' = [p \in Pipelines |-> IF p \in S \cup gone THEN Alone(c, latest)[p] ELSE latest[p]]
    /\ disturbed' = disturbed \cup Outdated(t, S) \cup (gone \X {"last_run", "map"})

\* RedisWALBackend.write: one pipeline, which fails as a whole.
write_redis(t, fails) ==
    /\ thread[t].at = "write" /\ backend = "redis" /\ Goto(t, Idle)
    /\ IF fails THEN Fault /\ UNCHANGED <<wal, latest, disturbed>>
       ELSE Store(t, thread[t].todo) /\ UNCHANGED faults
    /\ UNCHANGED <<backend, truncated, lock, calls>>

\* ProxyWALBackend.write: a request per section; one that fails leaves the others unwritten.
write_proxy(t, fails) ==
    /\ thread[t].at = "write" /\ backend = "proxy"
    /\ IF fails THEN thread[t].todo # {} /\ Fault /\ Goto(t, Idle) /\ UNCHANGED <<wal, latest, disturbed>>
       ELSE IF thread[t].todo = {} THEN Store(t, {}) /\ Goto(t, Idle) /\ UNCHANGED faults
       ELSE \E p \in thread[t].todo :
              /\ Store(t, {p}) /\ UNCHANGED faults
              /\ Goto(t, IF thread[t].todo = {p} THEN Idle ELSE [thread[t] EXCEPT !.todo = @ \ {p}])
    /\ UNCHANGED <<backend, truncated, lock, calls>>

\* The max_age_days of vacuum pass; not within one call's read and write.
Age(p) ==
    LET Older(s) == [s EXCEPT !.updated = "long ago"] IN
    /\ wal[p].updated = "lately" /\ \A t \in Threads : thread[t].at \notin {"dump", "write"}
    /\ wal' = [wal EXCEPT ![p] = Older(@)] /\ latest' = [latest EXCEPT ![p] = Older(@)]
    /\ UNCHANGED <<backend, truncated, lock, thread, calls, faults, disturbed>>

Next ==
    \/ \E t \in Threads :
         \/ \E c \in Calls(calls + 1) : call(t, c)
         \/ _update_wal(t) \/ lock_timeout(t)
         \/ \E fails \in BOOLEAN : \/ update_hash_state(t, fails) \/ _write_raw(t, fails)
                                   \/ read_remote(t, fails) \/ write_redis(t, fails) \/ write_proxy(t, fails)
    \/ \E p \in Pipelines : Age(p)

Spec == Init /\ [][Next]_vars

-----------------------------------------------------------------------------
(***************************************************************************)
(* What calls that returned have recorded is what the WAL holds, whatever  *)
(* ran at the same time, except where disturbed says why not.  Over the    *)
(* file that is never the case of a last_run unless a write failed: hash   *)
(* updates lose only each other's hashes.                                  *)
(***************************************************************************)
CheckpointsKept ==
    /\ ~truncated => \A k \in Keys \ disturbed : wal[k[1]][k[2]] = latest[k[1]][k[2]]
    /\ (backend = "file" /\ faults = 0) => \A p \in Pipelines : <<p, "last_run">> \notin disturbed
=============================================================================

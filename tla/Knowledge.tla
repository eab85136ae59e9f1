--------------------------- MODULE Knowledge ---------------------------
(***************************************************************************)
(* Knowledge bases: the SQLite rows of core/kb_manager.py, their Qdrant    *)
(* collections, the ETL tasks (api/admin_kb.py, etl/scheduler/             *)
(* task_scheduler.py) and the reindex loop (core/reindex_scheduler.py over *)
(* core/stale_detector.py).                                                *)
(*                                                                         *)
(* Each manager call is one SQLite transaction on its own connection.  The *)
(* admin handlers and the reindex loop share the proxy's event loop; the   *)
(* loop yields between knowledge bases, holding the list it read at the    *)
(* start of the pass.  ETL workers are other processes: update_kb_stats    *)
(* counts in one statement and writes in the next.                         *)
(***************************************************************************)
EXTENDS Integers, Sequences, FiniteSets

CONSTANTS Names,         \* knowledge base names
          Collection,    \* [Names -> collection names]: create_kb's lower-casing
          Workers,       \* ETL processes that run tasks
          MaxKbs, MaxTasks

VARIABLES kb,      \* table knowledge_bases; the id of a row is its position
          coll,    \* Qdrant: the points of each existing collection
          tasks,   \* table etl_tasks
          worker,  \* ETL workers between the statements of complete_task
          loop     \* the reindex loop

vars == <<kb, coll, tasks, worker, loop>>

Collections == {Collection[n] : n \in Names}
KbIds == 1..MaxKbs
Points == [kb: KbIds, stale: BOOLEAN]
Absent == [exists |-> FALSE, points |-> {}]

TypeOK ==
    /\ Len(kb) <= MaxKbs /\ Len(tasks) <= MaxTasks
    /\ \A i \in DOMAIN kb : kb[i] \in [name: Names, coll: Collections, row: BOOLEAN,
                                       status: {"active", "deleted"}, docs: 0..MaxTasks]
    /\ \A c \in Collections : coll[c].points \subseteq Points
    /\ \A t \in DOMAIN tasks : tasks[t] \in [kb: DOMAIN kb, row: BOOLEAN,
                               status: {"pending", "running", "completed", "failed"}]
    /\ \A w \in Workers : /\ worker[w].task \in 0..Len(tasks)
                          /\ worker[w].count \in 0..MaxTasks
    /\ loop.left \subseteq DOMAIN kb /\ loop.errors \in BOOLEAN

IdleWorker == [pc |-> "idle", task |-> 0, count |-> 0]

\* KnowledgeBaseManager.__init__ and _init_db
Init ==
    /\ kb = <<>> /\ tasks = <<>>
    /\ coll = [c \in Collections |-> Absent]
    /\ worker = [w \in Workers |-> IdleWorker]
    /\ loop = [pc |-> "sleep", left |-> {}, errors |-> FALSE]

-----------------------------------------------------------------------------
get_kb(i) == kb[i].row /\ kb[i].status # "deleted"
list_kbs == {i \in DOMAIN kb : get_kb(i)}

\* _ensure_qdrant_collection: keep what exists, create it empty, or log an outage.
_ensure_qdrant_collection(c, up) ==
    IF up /\ ~coll[c].exists THEN [coll EXCEPT ![c].exists = TRUE] ELSE coll

\* The UNIQUE columns: a soft-deleted row still holds its name and its collection.
Taken(n) == \E i \in DOMAIN kb : kb[i].row /\ (kb[i].name = n \/ kb[i].coll = Collection[n])

create_kb(n, up) ==
    /\ ~Taken(n)
    /\ Len(kb) < MaxKbs
    /\ kb' = Append(kb, [name |-> n, coll |-> Collection[n], row |-> TRUE,
                         status |-> "active", docs |-> 0])
    /\ coll' = _ensure_qdrant_collection(Collection[n], up)
    /\ UNCHANGED <<tasks, worker, loop>>

\* update_kb with a new name (the collection keeps its own); a taken name raises.
update_kb(i, n) ==
    /\ kb[i].row
    /\ kb[i].name # n
    /\ ~\E j \in DOMAIN kb : kb[j].row /\ kb[j].name = n
    /\ kb' = [kb EXCEPT ![i].name = n]
    /\ UNCHANGED <<coll, tasks, worker, loop>>

delete_kb_soft(i) ==
    /\ kb[i].row
    /\ kb' = [kb EXCEPT ![i].status = "deleted"]
    /\ UNCHANGED <<coll, tasks, worker, loop>>

\* delete_kb(hard=True): the collection goes only if get_kb still sees the row and
\* Qdrant answers; the rows go in any case, the tasks first.
delete_kb_hard(i, up) ==
    /\ kb[i].row
    /\ coll' = IF get_kb(i) /\ up THEN [coll EXCEPT ![kb[i].coll] = Absent] ELSE coll
    /\ kb' = [kb EXCEPT ![i].row = FALSE]
    /\ tasks' = [t \in DOMAIN tasks |->
                    IF tasks[t].kb = i THEN [tasks[t] EXCEPT !.row = FALSE] ELSE tasks[t]]
    /\ UNCHANGED <<worker, loop>>

NewTask(i, s) == [kb |-> i, row |-> TRUE, status |-> s]

\* create_etl_task: get_kb, then create_task; the task is left pending.
create_etl_task(i) ==
    /\ get_kb(i)
    /\ Len(tasks) < MaxTasks
    /\ tasks' = Append(tasks, NewTask(i, "pending"))
    /\ UNCHANGED <<kb, coll, worker, loop>>

\* TaskScheduler.start_task: create and mark running; the foreign key needs the row.
start_task(w, i) ==
    /\ worker[w] = IdleWorker
    /\ kb[i].row
    /\ Len(tasks) < MaxTasks
    /\ tasks' = Append(tasks, NewTask(i, "running"))
    /\ worker' = [worker EXCEPT ![w] = [IdleWorker EXCEPT !.pc = "work", !.task = Len(tasks) + 1]]
    /\ UNCHANGED <<kb, coll, loop>>

MarkTask(t, s) == IF tasks[t].row THEN [tasks EXCEPT ![t].status = s] ELSE tasks

\* complete_task: the worker has upserted the points, the UPDATE marks the task ...
complete_task(w) ==
    LET t == worker[w].task
        i == tasks[t].kb
        c == kb[i].coll IN
    /\ worker[w].pc = "work"
    /\ tasks' = MarkTask(t, "completed")
    /\ coll' = IF coll[c].exists
               THEN [coll EXCEPT ![c].points = {p \in @ : p.kb # i}
                                               \cup {[kb |-> i, stale |-> FALSE]}]
               ELSE coll
    /\ worker' = [worker EXCEPT ![w] = IF tasks[t].row THEN [@ EXCEPT !.pc = "count"]
                                       ELSE IdleWorker]
    /\ UNCHANGED <<kb, loop>>

Completed(i) == {t \in DOMAIN tasks : tasks[t].row /\ tasks[t].kb = i
                                      /\ tasks[t].status = "completed"}

\* Variant: every task of the knowledge base is counted.
count_tasks_all(w) ==
    /\ worker[w].pc = "count"
    /\ worker' = [worker EXCEPT ![w].pc = "stats",
                    ![w].count = Cardinality({t \in DOMAIN tasks :
                                     tasks[t].row /\ tasks[t].kb = tasks[worker[w].task].kb})]
    /\ UNCHANGED <<kb, coll, tasks, loop>>

\* ... update_kb_stats counts the completed tasks ...
count_tasks(w) ==
    /\ worker[w].pc = "count"
    /\ worker' = [worker EXCEPT ![w].pc = "stats",
                    ![w].count = Cardinality(Completed(tasks[worker[w].task].kb))]
    /\ UNCHANGED <<kb, coll, tasks, loop>>

\* ... and writes doc_count (no row: nothing).
update_kb_stats(w) ==
    LET i == tasks[worker[w].task].kb IN
    /\ worker[w].pc = "stats"
    /\ kb' = IF kb[i].row THEN [kb EXCEPT ![i].docs = worker[w].count] ELSE kb
    /\ worker' = [worker EXCEPT ![w] = IdleWorker]
    /\ UNCHANGED <<coll, tasks, loop>>

fail_task(w) ==
    /\ worker[w].pc = "work"
    /\ tasks' = MarkTask(worker[w].task, "failed")
    /\ worker' = [worker EXCEPT ![w] = IdleWorker]
    /\ UNCHANGED <<kb, coll, loop>>

\* Time: get_staleness_score of an indexed document passes the threshold.
DocumentAges(c) ==
    /\ \E p \in coll[c].points : ~p.stale
    /\ coll' = [coll EXCEPT ![c].points = {[p EXCEPT !.stale = TRUE] : p \in @}]
    /\ UNCHANGED <<kb, tasks, worker, loop>>

-----------------------------------------------------------------------------
\* detect_stale_documents: the points of this kb_id; nothing when Qdrant is away.
detect_stale_documents(i, up) ==
    up /\ [kb |-> i, stale |-> TRUE] \in coll[kb[i].coll].points

\* _trigger_reindex_for_document: a running task that nobody has been asked to run.
\* A hard-deleted knowledge base fails the foreign key, and the error is swallowed.
_trigger_reindex_for_document(i) ==
    IF kb[i].row THEN Append(tasks, NewTask(i, "running")) ELSE tasks

force_reindex_stale(i, up) ==
    /\ get_kb(i)
    /\ detect_stale_documents(i, up)
    /\ Len(tasks) < MaxTasks
    /\ tasks' = _trigger_reindex_for_document(i)
    /\ UNCHANGED <<kb, coll, worker, loop>>

\* _reindex_check_loop: wake up and list the knowledge bases ...
reindex_pass ==
    /\ loop.pc = "sleep"
    /\ list_kbs # {}
    /\ loop' = [loop EXCEPT !.pc = "check", !.left = list_kbs]
    /\ UNCHANGED <<kb, coll, tasks, worker>>

\* ... look at the next one (newest first) and create its tasks ...
reindex_kb(up) ==
    LET i == CHOOSE j \in loop.left : \A k \in loop.left : k <= j
        t == IF detect_stale_documents(i, up) THEN _trigger_reindex_for_document(i) ELSE tasks IN
    /\ loop.pc = "check" /\ loop.left # {}
    /\ Len(t) <= MaxTasks
    /\ tasks' = t
    /\ loop' = [loop EXCEPT !.left = @ \ {i}]
    /\ UNCHANGED <<kb, coll, worker>>

\* ... and sleep; an exception in the pass ends it early and is remembered.
reindex_sleep(failed) ==
    /\ loop.pc = "check"
    /\ failed \/ loop.left = {}
    /\ loop' = [pc |-> "sleep", left |-> {}, errors |-> loop.errors \/ failed]
    /\ UNCHANGED <<kb, coll, tasks, worker>>

Next ==
    \/ \E n \in Names, up \in BOOLEAN : create_kb(n, up)
    \/ \E i \in DOMAIN kb : \/ \E n \in Names : update_kb(i, n)
                            \/ delete_kb_soft(i) \/ create_etl_task(i)
                            \/ \E up \in BOOLEAN : delete_kb_hard(i, up) \/ force_reindex_stale(i, up)
                            \/ \E w \in Workers : start_task(w, i)
    \/ \E w \in Workers : complete_task(w) \/ count_tasks(w) \/ update_kb_stats(w) \/ fail_task(w)
    \/ \E c \in Collections : DocumentAges(c)
    \/ reindex_pass
    \/ \E b \in BOOLEAN : reindex_kb(b) \/ reindex_sleep(b)

Spec == Init /\ [][Next]_vars

-----------------------------------------------------------------------------
(***************************************************************************)
(* The books balance: a task belongs to a knowledge base that is still in  *)
(* the table, though the reindex loop works from a list that hard deletes  *)
(* make stale, and doc_count never exceeds the completed tasks, though     *)
(* two workers count and write in any order (kb_manager.delete_kb,         *)
(* update_kb_stats, reindex_scheduler._reindex_check_loop).                *)
(***************************************************************************)
KbBooks ==
    /\ \A t \in DOMAIN tasks : tasks[t].row => kb[tasks[t].kb].row
    /\ \A i \in DOMAIN kb : kb[i].row => kb[i].docs <= Cardinality(Completed(i))
=============================================================================

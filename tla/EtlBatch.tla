------------------------------ MODULE EtlBatch ------------------------------
(***************************************************************************)
(* A batch run of the ETL (etl/scheduler/run_etl.py): one thread per       *)
(* configured source extracts what changed since the source's last run,    *)
(* all of them sharing one WAL file; then the documents on disk are        *)
(* collected for chunking and indexing.  Runs follow each other for ever.  *)
(*                                                                         *)
(* A document is <<source, i>> and its version is the time of its last     *)
(* change.  Of the WAL file the model keeps what a later run reads: each   *)
(* pipeline's last_run (written by WALManager, under a lock), and the      *)
(* top-level last_run and the record of processed documents (written by    *)
(* the extractors, without one: pages_hash, processed_issues, projects).   *)
(***************************************************************************)
EXTENDS Integers, Sequences, FiniteSets

CONSTANTS
  MaxSources, \* bound on configured sources
  PerSource,  \* documents of each source
  JqlFilters, \* does jira.jql not mention "updated", so that a filter is added?
  MaxClock,   \* bound on changes at the sources
  MaxFaults   \* bound on failures, signals and crashes

SourceNames == <<"confluence", "jira", "gitlab">>
Sources == {SourceNames[i] : i \in 1..3}

ASSUME JqlAssumption == JqlFilters \in BOOLEAN
ASSUME BoundsAssumption ==
  MaxSources \in Nat /\ PerSource \in Nat /\ MaxClock \in Nat \ {0} /\ MaxFaults \in Nat

Docs    == Sources \X (1..PerSource)
Of(s)   == {d \in Docs : d[1] = s}
Times   == 0..MaxClock

VARIABLES
  configured,  \* the sources with a url in the configuration: extractors_to_run
  clock,       \* time, counted in changes at the sources
  modified,    \* per document, when it changed last
  raw,         \* per document, the version in raw_data (0: none)
  file,        \* does the WAL file parse ("json"), or is it "empty" or "corrupt"?
  wal,         \* its contents, as a reader sees them
  lockFile,    \* etl_wal.lock: absent, old (over STALE_LOCK_MINUTES) or fresh
  owner,       \* the thread that holds the lock on that file, or "none"
  running,     \* is a run under way?
  shutdown,    \* _shutdown_event
  pc,          \* per source, where its thread is
  since,       \* per source, its since_date, then the last_run to record
  copy,        \* per source, wal_data of its extractor, then of _update_wal
  todo,        \* per source, listed documents still to do, with their versions
  finished,    \* sources whose thread has ended, in order: extract_dirs
  succeeded,   \* those that returned a directory
  collected,   \* documents the last run collected
  faults,      \* failures, signals and crashes so far
  passed,      \* history: documents this run has passed over
  missed,      \* history: documents passed over for good: last_run is recorded
  stolen       \* history: has this run removed a lock file that was held?

fileVars   == <<file, wal, lockFile, owner>>
threadVars == <<pc, since, copy, todo>>
runVars    == <<running, shutdown, finished, succeeded, collected>>
histVars   == <<faults, passed, missed, stolen>>
vars == <<configured, clock, modified, raw, fileVars, threadVars, runVars, histVars>>

-----------------------------------------------------------------------------
(* The WAL file.  open(.., "w") empties it and the contents follow, so     *)
(* that a reader in between, a crash in between and a writer whose text    *)
(* lands on that of another leave a file that does not parse.              *)

Blank == [last |-> [s \in Sources |-> 0], top |-> 0, seen |-> [d \in Docs |-> 0]]
Wals  == [last : [Sources -> Times], top : Times, seen : [Docs -> Times]]

\* _read_raw and _load_wal take a file that does not parse for a new one, so
\* that this is also what a reader sees while the file is being written.
Truncate == file' = "empty" /\ wal' = Blank

\* The thread of source s writes w.  Somebody else is writing too when the file
\* is not as the truncation left it, or when another thread has yet to write.
Dump(s, w) ==
  \/ /\ file' = "json"
     /\ wal' = w
  \/ /\ file # "empty" \/ \E t \in Sources \ {s} : pc[t] \in {"dump", "write"}
     /\ file' = "corrupt"
     /\ wal' = Blank

Init ==
  /\ configured \in {C \in SUBSET Sources : C # {} /\ Cardinality(C) <= MaxSources}
  /\ clock = 1
  /\ modified = [d \in Docs |-> 1]
  /\ raw = [d \in Docs |-> 0]
  /\ file = "json" /\ wal = Blank /\ lockFile = "absent" /\ owner = "none"
  /\ running = FALSE /\ shutdown = FALSE
  /\ pc = [s \in Sources |-> "end"]
  /\ since = [s \in Sources |-> 0]
  /\ copy = [s \in Sources |-> Blank]
  /\ todo = [s \in Sources |-> {}]
  /\ finished = <<>> /\ succeeded = {} /\ collected = {}
  /\ faults = 0 /\ passed = {} /\ missed = {} /\ stolen = FALSE

Fault == faults < MaxFaults /\ faults' = faults + 1
Goto(s, p) == pc' = [pc EXCEPT ![s] = p]

\* Documents that are not on disk in their current version.
Outdated(D) == {d \in D : raw[d] # modified[d]}

-----------------------------------------------------------------------------
(* The sources *)

\* Somebody changes document d.  A change after its source was listed is not
\* in the list and yet is older than the last_run that will be recorded.
Edit(d) ==
  /\ clock < MaxClock
  /\ clock' = clock + 1
  /\ modified' = [modified EXCEPT ![d] = clock']
  /\ passed' = IF pc[d[1]] \in {"docs", "save", "dump"} THEN passed \cup {d}
               ELSE passed
  /\ missed' = missed \ {d}
  /\ UNCHANGED <<configured, raw, fileVars, threadVars, runVars, faults, stolen>>

-----------------------------------------------------------------------------
(* main: the run begins; time has passed since the last one. *)

main ==
  /\ ~running
  /\ running' = TRUE
  /\ pc' = [s \in Sources |-> IF s \in configured THEN "since" ELSE "end"]
  /\ collected' = {}
  /\ lockFile' \in IF lockFile = "absent" THEN {"absent"} ELSE {"old", "fresh"}
  /\ UNCHANGED <<configured, clock, modified, raw, file, wal, owner, since, copy, todo,
                 shutdown, finished, succeeded, histVars>>

\* --reset-wal, before anything else of a run.
reset_all ==
  /\ ~running
  /\ file' = "json" /\ wal' = Blank
  /\ UNCHANGED <<configured, clock, modified, raw, lockFile, owner, threadVars,
                 runVars, histVars>>

\* SIGINT or SIGTERM; a second one is a Crash.
Signal ==
  /\ running /\ ~shutdown
  /\ Fault
  /\ shutdown' = TRUE
  /\ UNCHANGED <<configured, clock, modified, raw, fileVars, threadVars, running,
                 finished, succeeded, collected, passed, missed, stolen>>

\* The process is killed.  The operating system releases the lock.
Crash ==
  /\ running
  /\ Fault
  /\ running' = FALSE /\ shutdown' = FALSE
  /\ pc' = [s \in Sources |-> "end"]
  /\ since' = [s \in Sources |-> 0]
  /\ copy' = [s \in Sources |-> Blank]
  /\ todo' = [s \in Sources |-> {}]
  /\ finished' = <<>> /\ succeeded' = {} /\ passed' = {} /\ stolen' = FALSE
  /\ owner' = "none"
  /\ UNCHANGED <<configured, clock, modified, raw, file, wal, lockFile, collected, missed>>

-----------------------------------------------------------------------------
(* The thread of source s: run_extract_* *)

\* wal.get_last_run(pipeline), read without the lock.
get_last_run(s) ==
  /\ pc[s] = "since"
  /\ since' = [since EXCEPT ![s] = wal.last[s]]
  /\ Goto(s, "load")
  /\ UNCHANGED <<configured, clock, modified, raw, fileVars, copy, todo, runVars, histVars>>

\* The extractor is constructed and reads the same file once more.
_load_wal(s) ==
  /\ pc[s] = "load"
  /\ copy' = [copy EXCEPT ![s] = wal]
  /\ Goto(s, "list")
  /\ UNCHANGED <<configured, clock, modified, raw, fileVars, since, todo, runVars, histVars>>

\* Variant: the Confluence filter is turned round.
Listed_before(s) ==
  {d \in Of(s) : IF s = "confluence" THEN modified[d] < since[s] ELSE TRUE}

\* What the source answers: Confluence filters by since_date, GitLab returns
\* every project, and Jira filters only when the configured JQL does not mention
\* "updated", by since_date or else by the top-level last_run of the file.
Listed(s) ==
  CASE s = "confluence" -> {d \in Of(s) : modified[d] > since[s]}
    [] s = "jira"       -> LET from == IF since[s] # 0 THEN since[s] ELSE copy[s].top
                           IN  {d \in Of(s) : JqlFilters => modified[d] >= from}
    [] s = "gitlab"     -> Of(s)

\* The top-level last_run may be that of another source: documents left out
\* by it are passed over.
list(s) ==
  /\ pc[s] = "list"
  /\ ~shutdown
  /\ todo' = [todo EXCEPT ![s] = {<<d, modified[d]>> : d \in Listed(s)}]
  /\ passed' = passed \cup IF since[s] = 0 THEN Outdated(Of(s) \ Listed(s)) ELSE {}
  /\ Goto(s, "docs")
  /\ UNCHANGED <<configured, clock, modified, raw, fileVars, since, copy, runVars,
                 faults, missed, stolen>>

Done(s, e) == todo' = [todo EXCEPT ![s] = @ \ {e}]

\* _should_process_page compares hashes, which here are versions;
\* processed_issues holds keys; GitLab processes every project.
Skipped(s, e) ==
  CASE s = "confluence" -> copy[s].seen[e[1]] = e[2]
    [] s = "jira"       -> copy[s].seen[e[1]] # 0
    [] OTHER            -> FALSE

skip(s, e) ==
  /\ pc[s] = "docs" /\ e \in todo[s]
  /\ ~shutdown
  /\ Skipped(s, e)
  /\ Done(s, e)
  /\ passed' = passed \cup Outdated({e[1]})
  /\ UNCHANGED <<configured, clock, modified, raw, fileVars, pc, since, copy, runVars,
                 faults, missed, stolen>>

\* Document d is written to raw_data in version v.
Save(d, v) ==
  /\ raw' = [raw EXCEPT ![d] = v]
  /\ missed' = {x \in missed : x # d \/ v # modified[d]}
  /\ passed' = {x \in passed : x # d \/ v # modified[d]}

\* Confluence fetches the page now, a Jira issue came with the list.  Then the
\* extractor's copy of the WAL is updated and saved.
extract(s, e) ==
  /\ pc[s] = "docs" /\ e \in todo[s]
  /\ ~shutdown
  /\ s # "gitlab" /\ ~Skipped(s, e)
  /\ Save(e[1], IF s = "jira" THEN e[2] ELSE modified[e[1]])
  /\ copy' = [copy EXCEPT ![s].seen[e[1]] = e[2], ![s].top = clock]
  /\ Done(s, e)
  /\ Goto(s, "save")
  /\ UNCHANGED <<configured, clock, modified, fileVars, since, runVars, faults, stolen>>

\* A GitLab project with commits since the last run: the WAL comes first, the
\* project's data later.  Version 0 in todo marks the project at hand.
_update_wal_commit(s, e) ==
  /\ pc[s] = "docs" /\ e \in todo[s]
  /\ ~shutdown
  /\ s = "gitlab" /\ \A x \in todo[s] : x[2] # 0
  /\ modified[e[1]] > since[s]
  /\ todo' = [todo EXCEPT ![s] = (@ \ {e}) \cup {<<e[1], 0>>}]
  /\ copy' = [copy EXCEPT ![s].top = clock]
  /\ Goto(s, "save")
  /\ UNCHANGED <<configured, clock, modified, raw, fileVars, since, runVars, histVars>>

AtHand(s, e) ==
  \/ e[2] = 0
  \/ modified[e[1]] <= since[s] /\ \A x \in todo[s] : x[2] # 0

_save_project_data(s, e) ==
  /\ pc[s] = "docs" /\ e \in todo[s]
  /\ ~shutdown
  /\ s = "gitlab" /\ AtHand(s, e)
  /\ Save(e[1], modified[e[1]])
  /\ Done(s, e)
  /\ UNCHANGED <<configured, clock, modified, fileVars, pc, since, copy, runVars,
                 faults, stolen>>

\* _save_wal: the whole file, without the lock.
_save_wal(s) ==
  /\ pc[s] = "save"
  /\ Truncate
  /\ Goto(s, "dump")
  /\ UNCHANGED <<configured, clock, modified, raw, lockFile, owner, since, copy, todo,
                 runVars, histVars>>

_save_wal_dump(s) ==
  /\ pc[s] = "dump"
  /\ Dump(s, copy[s])
  /\ Goto(s, "docs")
  /\ UNCHANGED <<configured, clock, modified, raw, lockFile, owner, since, copy, todo,
                 runVars, histVars>>

\* Variant: the failure is handled, and the document recorded all the same.
extract_fails_recorded(s, e) ==
  /\ pc[s] = "docs" /\ e \in todo[s]
  /\ ~shutdown
  /\ ~Skipped(s, e)
  /\ Fault
  /\ copy' = [copy EXCEPT ![s].seen[e[1]] = e[2], ![s].top = clock]
  /\ Done(s, e)
  /\ Goto(s, "save")
  /\ passed' = passed \cup Outdated({e[1]})
  /\ UNCHANGED <<configured, clock, modified, raw, fileVars, since, runVars, missed, stolen>>

\* Confluence and Jira log the failure of one document and go on; a GitLab
\* project whose files cannot be read is saved without them.
extract_fails(s, e) ==
  /\ pc[s] = "docs" /\ e \in todo[s]
  /\ ~shutdown
  /\ IF s = "gitlab" THEN AtHand(s, e) ELSE ~Skipped(s, e)
  /\ Fault
  /\ Done(s, e)
  /\ passed' = passed \cup Outdated({e[1]})
  /\ UNCHANGED <<configured, clock, modified, raw, fileVars, pc, since, copy, runVars,
                 missed, stolen>>

\* Shutdown noticed inside a document: run() returns as if it were complete.
interrupted(s) ==
  /\ pc[s] = "docs" /\ todo[s] # {}
  /\ shutdown
  /\ passed' = passed \cup Outdated({e[1] : e \in todo[s]})
  /\ todo' = [todo EXCEPT ![s] = {}]
  /\ UNCHANGED <<configured, clock, modified, raw, fileVars, pc, since, copy, runVars,
                 faults, missed, stolen>>

\* The thread ends and its variables with it.
End(s) ==
  /\ Goto(s, "end")
  /\ since' = [since EXCEPT ![s] = 0]
  /\ copy' = [copy EXCEPT ![s] = Blank]
  /\ todo' = [todo EXCEPT ![s] = {}]
  /\ finished' = Append(finished, s)

\* _run_extractor_safe catches what run_extract_* raises: the source cannot be
\* listed, shutdown noticed between documents, a GitLab project that fails,
\* the lock not obtained within lock_timeout.
fails(s) ==
  /\ \/ pc[s] = "list" /\ shutdown /\ UNCHANGED faults
     \/ pc[s] = "docs" /\ shutdown /\ todo[s] # {} /\ UNCHANGED faults
     \/ pc[s] = "list" /\ Fault
     \/ pc[s] = "docs" /\ s = "gitlab" /\ todo[s] # {} /\ Fault
     \/ pc[s] = "acquire" /\ owner \notin {"none", s} /\ Fault
  /\ End(s)
  /\ passed' = passed \ Of(s)
  /\ UNCHANGED <<configured, clock, modified, raw, fileVars, running, shutdown, succeeded,
                 collected, missed, stolen>>

-----------------------------------------------------------------------------
(* wal.update_last_run(pipeline): _update_wal under the file lock *)

\* Variant: last_run is recorded before the documents are done.
update_last_run_early(s) ==
  /\ pc[s] = "docs"
  /\ since' = [since EXCEPT ![s] = clock]
  /\ Goto(s, IF lockFile = "old" THEN "unlink" ELSE "acquire")
  /\ UNCHANGED <<configured, clock, modified, raw, fileVars, copy, todo, runVars, histVars>>

\* The time to record is taken first.  _release_stale_lock then looks at the
\* age of the lock file, which says when it was last locked.
update_last_run(s) ==
  /\ pc[s] = "docs" /\ todo[s] = {}
  /\ since' = [since EXCEPT ![s] = clock]
  /\ Goto(s, IF lockFile = "old" THEN "unlink" ELSE "acquire")
  /\ UNCHANGED <<configured, clock, modified, raw, fileVars, copy, todo, runVars, histVars>>

\* Another thread may have locked the file in the meantime.
_safe_remove(s) ==
  /\ pc[s] = "unlink"
  /\ lockFile' = "absent" /\ owner' = "none"
  /\ stolen' = (stolen \/ owner # "none")
  /\ Goto(s, "acquire")
  /\ UNCHANGED <<configured, clock, modified, raw, file, wal, since, copy, todo, runVars,
                 faults, passed, missed>>

\* Variant: no lock, as with use_lock=False.
acquire_unlocked(s) ==
  /\ pc[s] = "acquire"
  /\ owner' = s /\ lockFile' = "fresh"
  /\ copy' = [copy EXCEPT ![s] = [wal EXCEPT !.last[s] = since[s]]]
  /\ Truncate
  /\ Goto(s, "write")
  /\ UNCHANGED <<configured, clock, modified, raw, since, todo, runVars, histVars>>

\* The lock is obtained, the file read, and opened for writing.  Whatever the
\* other threads do between these is the same as if they had done it before or after.
acquire(s) ==
  /\ pc[s] = "acquire" /\ owner = "none"
  /\ owner' = s /\ lockFile' = "fresh"
  /\ copy' = [copy EXCEPT ![s] = [wal EXCEPT !.last[s] = since[s]]]
  /\ Truncate
  /\ Goto(s, "write")
  /\ UNCHANGED <<configured, clock, modified, raw, since, todo, runVars, histVars>>

_write_raw(s) ==
  /\ pc[s] = "write"
  /\ Dump(s, copy[s])
  /\ owner' = IF owner = s THEN "none" ELSE owner
  /\ End(s) /\ succeeded' = succeeded \cup {s}
  /\ missed' = missed \cup {d \in Outdated(passed \cap Of(s)) : modified[d] <= since[s]}
  /\ passed' = passed \ Of(s)
  /\ UNCHANGED <<configured, clock, modified, raw, lockFile, running, shutdown, collected,
                 faults, stolen>>

-----------------------------------------------------------------------------
(* main: all threads have ended *)

\* The i-th directory of extract_dirs, which are in the order the threads ended,
\* is searched for documents of the i-th source name.
collect_all_documents ==
  {d \in Docs : /\ raw[d] # 0
                /\ \E i \in 1..Len(finished) : finished[i] = d[1] /\ SourceNames[i] = d[1]}

\* When every extractor failed, or after a signal, nothing is chunked.
\* _save_wal_on_exit then reads and writes the WAL file once more.
exit ==
  /\ running /\ \A s \in Sources : pc[s] = "end"
  /\ running' = FALSE
  /\ collected' = IF succeeded = {} \/ shutdown THEN {} ELSE collect_all_documents
  /\ file' = "json"
  /\ shutdown' = FALSE /\ finished' = <<>> /\ succeeded' = {} /\ stolen' = FALSE
  /\ UNCHANGED <<configured, clock, modified, raw, wal, lockFile, owner, threadVars, faults, passed, missed>>

Thread(s) ==
  \/ get_last_run(s) \/ _load_wal(s) \/ list(s)
  \/ \E e \in todo[s] : \/ skip(s, e) \/ extract(s, e) \/ _update_wal_commit(s, e)
                        \/ _save_project_data(s, e) \/ extract_fails(s, e)
  \/ _save_wal(s) \/ _save_wal_dump(s)
  \/ interrupted(s) \/ fails(s)
  \/ update_last_run(s) \/ _safe_remove(s) \/ acquire(s)
  \/ _write_raw(s)

Work == main \/ exit \/ \E s \in configured : Thread(s)

Next ==
  \/ \E s \in configured : \E d \in Of(s) : Edit(d)
  \/ reset_all \/ Signal \/ Crash
  \/ Work

Spec == Init /\ [][Next]_vars

\* The scheduler starts run after run, and a run does not stand still.
FairSpec == Spec /\ WF_vars(Work)

-----------------------------------------------------------------------------
TypeOK ==
  /\ configured \subseteq Sources
  /\ clock \in Times /\ modified \in [Docs -> Times] /\ raw \in [Docs -> Times]
  /\ file \in {"json", "empty", "corrupt"} /\ wal \in Wals
  /\ lockFile \in {"absent", "old", "fresh"} /\ owner \in Sources \cup {"none"}
  /\ running \in BOOLEAN /\ shutdown \in BOOLEAN
  /\ pc \in [Sources -> {"end", "since", "load", "list", "docs", "save", "dump",
                         "unlink", "acquire", "write"}]
  /\ since \in [Sources -> Times] /\ copy \in [Sources -> Wals]
  /\ todo \in [Sources -> SUBSET (Docs \X Times)]
  /\ finished \in Seq(Sources) /\ Len(finished) <= Cardinality(Sources)
  /\ succeeded \subseteq Sources /\ collected \subseteq Docs
  /\ faults \in 0..MaxFaults
  /\ passed \subseteq Docs /\ missed \subseteq Docs /\ stolen \in BOOLEAN

\* A recorded last_run hides no change: what changed before the last_run that
\* the WAL holds for its source is on disk in its current version, whatever the
\* extractors, which rewrite the file from copies of their own and without the
\* lock, do to each other's sections, and wherever the process is killed.
\* Excepted are the documents passed over by the run that recorded it, because
\* their extraction failed or was interrupted, because they changed while it
\* ran, or because Jira takes issues it has processed once as done.
CheckpointCovers ==
  \A d \in Docs : modified[d] <= wal.last[d[1]] => raw[d] = modified[d] \/ d \in missed

\* A page or issue that the WAL records as processed is on disk, in that version
\* or a later one: extractors save the document before the WAL, and no torn or
\* foreign copy of the file makes up an entry.
RecordedIsOnDisk == \A d \in Docs : wal.seen[d] <= raw[d]

\* Two threads write checkpoints at the same time only when _release_stale_lock
\* removed a lock file that another thread had locked after its age was read.
LockExcludes ==
  stolen \/ \A s, t \in Sources : pc[s] = "write" /\ pc[t] = "write" => s = t

\* Once the sources stop changing and nothing fails any more, every document gets
\* to disk in its current version, unless a run passed it over: a lost or
\* unreadable WAL only makes the next run extract more.
Converges == <>[](\A s \in configured : Outdated(Of(s)) \subseteq missed)

\* run_etl.py:190, "Collects all extracted documents from the extractor
\* directories": after a run whose extractors all succeeded.
CollectsAll ==
  [][exit /\ succeeded = configured /\ ~shutdown =>
       \A d \in Docs : raw[d] # 0 => d \in collected']_vars
====

------------------------------ MODULE Components ------------------------------
(***************************************************************************)
(* The components that share no state with each other and that are proved  *)
(* about, for any constants: each behaviour is one of them, chosen by      *)
(* focus, and the variables of the others are Off.  MC_Components adds the *)
(* components that are only model-checked, and gives the constants values. *)
(***************************************************************************)
EXTENDS Integers, Sequences, FiniteSets

CONSTANTS Actors,   \* threads, workers or requests, whatever a component has several of
          Users, LOGIN_MAX_ATTEMPTS, LOGIN_WINDOW, LOGIN_COOLDOWN, AD_ENABLED,
          MaxPairs, MaxExpiries,
          MAX_KEYS_PER_USER, MaxIssued, MaxRotations,
          Shapes, Roles, AUTH_ENABLED, RBAC_ENABLED, TRUSTED_PROXY_COUNT, RATE, COST, BURST, MAX_AGE,
          MAX_UPLOAD_SIZE, ALLOWED_CONTENT_TYPES, MaxRequests, MaxTime, MaxFiles,
          KbNames, Collection, MaxKbs, MaxTasks,
          FeedbackIds, MAX_BACKUP_COUNT, MaxFile, MaxRecords, MaxFlags,
          Managers, LATEST, Neo4j, Drivers, MigrationRuns,   \* not Actors: only some have a driver
          MAX_RETRIES, MaxMessages, MaxRounds,
          JobDocs, SourceOf, JobSources, Pages, Args, MaxVersion, JobRuns,
          Pipelines, WalDocs, Backends, WalCalls, WalFaults,
          SourceItems, SeenItems, ActiveProjects, PAGE, REQUEST_RETRIES, DOWNLOAD_RETRIES, MAX_ITEMS, SourceChanges, SourceFaults

ASSUME ActorsAssumption == IsFiniteSet(Actors)
ASSUME LimitsAssumption ==
    /\ MAX_BACKUP_COUNT \in Nat \ {0} /\ LATEST \in Nat
    /\ MAX_RETRIES \in Nat \ {0} /\ MaxMessages \in Nat
    /\ MAX_KEYS_PER_USER \in Nat
\* A bucket that cleanup_expired may drop has had the time to fill up: the defaults are one
\* token a second, a burst of 10 and a max_age of 300 seconds.
ASSUME RateAssumption ==
    /\ RATE \in Nat \ {0} /\ COST \in Nat \ {0} /\ BURST \in Nat \ {0} /\ MAX_AGE \in Nat
    /\ RATE * (MAX_AGE + 1) >= BURST * COST
\* What the WAL has of a source is among what the source has, and a page of a list has room.
ASSUME SourceAssumption ==
    /\ SourceItems \in Seq({SourceItems[k] : k \in DOMAIN SourceItems})
    /\ \A i \in SeenItems : \E k \in DOMAIN SourceItems : SourceItems[k] = i
    /\ PAGE \in Nat \ {0} /\ MAX_ITEMS \in Nat

VARIABLES focus,
          account, pairs, exchanged, attempts, sreq,
          keys, key_index, issued, rotation, disk, jwt,
          now, buckets, live, req, files, uploads, passed, promised,
          kb, coll, tasks, worker, loop,
          active, backup, opened, fthread, store, metric, fchunks, flags,
          applied, schema, log, mgr, torn, runs,
          rows, thread, added, failures, handled, cleared, rounds,
          current, recorded, jraw, chunk_file, synced, excused, args, pc, extract_dirs, jtodo, jchunks, extras, serving,
          jpassed, jruns, jshutdown,
          backend, wwal, truncated, wlock, wthread, wcalls, wfaults, latest, disturbed,
          source, download, remote, moved, deleted, shutdown, xrun, raw, xwal, failed, faults

-----------------------------------------------------------------------------
(* Instances *)

Sessions == INSTANCE Sessions WITH Requests <- Actors, req <- sreq
Keys == INSTANCE ApiKeys WITH Users <- Actors, index <- key_index
Gateway == INSTANCE Gateway WITH Requests <- Actors
Kb == INSTANCE Knowledge WITH Names <- KbNames, Workers <- Actors
Logs == INSTANCE Feedback WITH
    Threads <- Actors, Answers <- FeedbackIds, thread <- fthread, chunks <- fchunks
Migrations == INSTANCE Migrations WITH MaxRuns <- MigrationRuns
Letters == INSTANCE DeadLetters WITH Threads <- Actors
Job == INSTANCE EtlJob WITH
    Docs <- JobDocs, Sources <- JobSources, MaxRuns <- JobRuns, raw <- jraw, todo <- jtodo, chunks <- jchunks,
    passed <- jpassed, runs <- jruns, shutdown <- jshutdown
Wal == INSTANCE WalManager WITH
    Threads <- Actors, Docs <- WalDocs, MaxCalls <- WalCalls, MaxFaults <- WalFaults, wal <- wwal, lock <- wlock,
    thread <- wthread, calls <- wcalls, faults <- wfaults
Extractors == INSTANCE Extractors WITH
    Items <- SourceItems, Recorded <- SeenItems, Active <- ActiveProjects, MAX_RETRIES <- REQUEST_RETRIES,
    MaxChanges <- SourceChanges, MaxFaults <- SourceFaults, run <- xrun, wal <- xwal

-----------------------------------------------------------------------------
Off == "off"
sessionsVars == <<account, pairs, exchanged, attempts, sreq>>
keysVars == <<keys, key_index, issued, rotation, disk, jwt>>
gatewayVars == <<now, buckets, live, req, files, uploads, passed, promised>>
knowledgeVars == <<kb, coll, tasks, worker, loop>>
feedbackVars == <<active, backup, opened, fthread, store, metric, fchunks, flags>>
migrationsVars == <<applied, schema, log, mgr, torn, runs>>
lettersVars == <<rows, thread, added, failures, handled, cleared, rounds>>
jobVars == <<current, recorded, jraw, chunk_file, synced, excused, args, pc, extract_dirs, jtodo, jchunks, extras, serving, jpassed, jruns, jshutdown>>
walVars == <<backend, wwal, truncated, wlock, wthread, wcalls, wfaults, latest, disturbed>>
extractorsVars == <<source, download, remote, moved, deleted, shutdown, xrun, raw, xwal, failed, faults>>
vars == <<focus, sessionsVars, keysVars, gatewayVars, knowledgeVars, feedbackVars, migrationsVars, lettersVars, jobVars, walVars, extractorsVars>>

Init ==
    /\ IF focus = "sessions" THEN Sessions!Init
       ELSE account = Off /\ pairs = Off /\ exchanged = Off /\ attempts = Off /\ sreq = Off
    /\ IF focus = "keys" THEN Keys!Init
       ELSE keys = Off /\ key_index = Off /\ issued = Off /\ rotation = Off /\ disk = Off /\ jwt = Off
    /\ IF focus = "gateway" THEN Gateway!Init
       ELSE now = Off /\ buckets = Off /\ live = Off /\ req = Off /\ files = Off /\ uploads = Off /\ passed = Off /\ promised = Off
    /\ IF focus = "knowledge" THEN Kb!Init
       ELSE kb = Off /\ coll = Off /\ tasks = Off /\ worker = Off /\ loop = Off
    /\ IF focus = "feedback" THEN Logs!Init
       ELSE active = Off /\ backup = Off /\ opened = Off /\ fthread = Off /\ store = Off /\ metric = Off /\ fchunks = Off /\ flags = Off
    /\ IF focus = "migrations" THEN Migrations!Init
       ELSE applied = Off /\ schema = Off /\ log = Off /\ mgr = Off /\ torn = Off /\ runs = Off
    /\ IF focus = "letters" THEN Letters!Init
       ELSE rows = Off /\ thread = Off /\ added = Off /\ failures = Off /\ handled = Off /\ cleared = Off /\ rounds = Off
    /\ IF focus = "job" THEN Job!Init
       ELSE current = Off /\ recorded = Off /\ jraw = Off /\ chunk_file = Off /\ synced = Off /\ excused = Off /\ args = Off /\ pc = Off /\ extract_dirs = Off /\ jtodo = Off /\ jchunks = Off /\ extras = Off /\ serving = Off /\ jpassed = Off /\ jruns = Off /\ jshutdown = Off
    /\ IF focus = "wal" THEN Wal!Init
       ELSE backend = Off /\ wwal = Off /\ truncated = Off /\ wlock = Off /\ wthread = Off /\ wcalls = Off /\ wfaults = Off /\ latest = Off /\ disturbed = Off
    /\ IF focus = "extractors" THEN Extractors!Init
       ELSE source = Off /\ download = Off /\ remote = Off /\ moved = Off /\ deleted = Off /\ shutdown = Off /\ xrun = Off /\ raw = Off /\ xwal = Off /\ failed = Off /\ faults = Off

Next ==
    /\ UNCHANGED focus
    /\ IF focus = "sessions" THEN Sessions!Next ELSE UNCHANGED sessionsVars
    /\ IF focus = "keys" THEN Keys!Next ELSE UNCHANGED keysVars
    /\ IF focus = "gateway" THEN Gateway!Next ELSE UNCHANGED gatewayVars
    /\ IF focus = "knowledge" THEN Kb!Next ELSE UNCHANGED knowledgeVars
    /\ IF focus = "feedback" THEN Logs!Next ELSE UNCHANGED feedbackVars
    /\ IF focus = "migrations" THEN Migrations!Next ELSE UNCHANGED migrationsVars
    /\ IF focus = "letters" THEN Letters!Next ELSE UNCHANGED lettersVars
    /\ IF focus = "job" THEN Job!Next ELSE UNCHANGED jobVars
    /\ IF focus = "wal" THEN Wal!Next ELSE UNCHANGED walVars
    /\ IF focus = "extractors" THEN Extractors!Next ELSE UNCHANGED extractorsVars

Spec == Init /\ [][Next]_vars

-----------------------------------------------------------------------------
(* The properties, with their comments, are in the components' modules. *)

\* A refresh token buys pairs only for requests that had selected it before the first of them
\* marked it, one each, and is revoked from then on (user_db.consume_refresh_token).
RefreshSpends == focus = "sessions" => Sessions!RefreshSpends

\* A key the list shows validates, and no user has more than the limit, over rotation and
\* cleanup (api_keys.py, secret_rotation.py).
KeysUsable == focus = "keys" => Keys!KeysUsable

\* A key gets at most its burst plus the rate over any stretch of time, and Retry-After is
\* honoured (rate_limiter.RateLimiter).
RateContract == focus = "gateway" => Gateway!RateContract

\* No task outlives its knowledge base's row, and no document count exceeds the completed tasks
\* (kb_manager.py, reindex_scheduler.py).
KbBooks == focus = "knowledge" => Kb!KbBooks

\* The records of the rotated feedback files stay in the order they were opened, file by file,
\* with two threads rotating (hitl.py).
BackupOrder == focus = "feedback" => Logs!BackupOrder

\* Recorded migrations are a prefix, and each has its schema unless an audited failure or a
\* crash explains it (db/migrations.py).
RecordedInOrder == focus = "migrations" => Migrations!RecordedInOrder

\* A message leaves the queue only handled or cleared, and is dead exactly when its failures
\* used up the retries (shared/dlq.py).
DeadLettersKept == focus = "letters" => Letters!DeadLettersKept

\* What a record says is still so: what the WAL records is in raw_data or was synced, over
\* exceptions, crashes and cleanups, unless a run passed it over and then cleaned up
\* (run_etl.py); and what the WAL manager's calls recorded is what it holds, whatever ran
\* beside them, except for hash maps, failures and the unlocked backends (wal_manager.py).
RecordsKept ==
    /\ focus = "job" => Job!RecordedIsKept
    /\ focus = "wal" => Wal!CheckpointsKept

\* A complete extraction saved every listed item or reported it, and records nothing unsaved
\* (etl/extractors).
ExtractionAccounted == focus = "extractors" => Extractors!ExtractionAccounted
==============================================================================

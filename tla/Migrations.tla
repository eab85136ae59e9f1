----------------------------- MODULE Migrations -----------------------------
(***************************************************************************)
(* Database migrations (proxy/app/db/migrations.py): every proxy replica   *)
(* upgrades the shared SQLite database as it starts, and an operator moves *)
(* it with scripts/migrate.py.  A script commits as it goes and may fail   *)
(* half way; the record and its audit entry are one later transaction.     *)
(*                                                                         *)
(* The CLI's downgrade is assumed to run alone (Alone): nothing in the     *)
(* code keeps a replica from upgrading meanwhile.  Every migration module  *)
(* can be imported.                                                        *)
(***************************************************************************)
EXTENDS Naturals, FiniteSets

CONSTANTS Managers,   \* MigrationManagers: replicas and CLI processes
          LATEST,     \* versions 1..LATEST are registered
          Neo4j,      \* the versions of the Neo4j backend
          Drivers,    \* the managers with a Neo4j driver
          MaxRuns

VARIABLES applied,    \* versions in the table _migrations
          schema,     \* version -> how much of its schema exists
          log,        \* version -> action of its last entry in _migration_log
          mgr,        \* manager -> the call it is in
          torn,       \* versions whose rollback stopped between script and record
          runs

vars == <<applied, schema, log, mgr, torn, runs>>

Versions == 1..LATEST
Free == [pc |-> "idle", todo |-> {}]

TypeOK ==
    /\ {applied, torn} \subseteq SUBSET Versions
    /\ schema \in [Versions -> {"none", "partial", "full"}]
    /\ log \in [Versions -> {"none", "upgrade", "upgrade_failed", "downgrade", "downgrade_failed"}]
    /\ mgr \in [Managers -> [pc: {"idle", "up", "record", "down", "erase"}, todo: SUBSET Versions]]
    /\ runs \in 0..MaxRuns

Init ==
    /\ applied = {} /\ torn = {} /\ runs = 0
    /\ schema = [v \in Versions |-> "none"]
    /\ log = [v \in Versions |-> "none"]
    /\ mgr = [m \in Managers |-> Free]

pending_migrations == Versions \ applied
current_version == CHOOSE v \in applied \cup {0} : \A w \in applied : w <= v

NextUp(todo) == CHOOSE v \in todo : \A w \in todo : v <= w

\* Variant: ORDER BY version without DESC.
NextDown_asc(todo) == CHOOSE v \in todo : \A w \in todo : v <= w

NextDown(todo) == CHOOSE v \in todo : \A w \in todo : v >= w

Downgrading(m) == mgr[m].pc \in {"down", "erase"}
Alone(m) == \A k \in Managers \ {m} : mgr[k].pc = "idle"

Done(m, v, pc) == LET left == mgr[m].todo \ {v} IN
                  [mgr EXCEPT ![m] = IF left = {} THEN Free ELSE [pc |-> pc, todo |-> left]]

Start(m, pc, todo) ==
    /\ mgr[m].pc = "idle" /\ runs < MaxRuns /\ todo # {}
    /\ runs' = runs + 1
    /\ mgr' = [mgr EXCEPT ![m] = [pc |-> pc, todo |-> todo]]
    /\ UNCHANGED <<applied, schema, log, torn>>

\* upgrade: what is pending now, up to the target; nothing if there is none (or for a dry run).
upgrade(m, target) ==
    /\ \A k \in Managers : ~Downgrading(k)
    /\ Start(m, "up", {v \in pending_migrations : v <= target})

\* downgrade: what is recorded above the target.
downgrade(m, target) ==
    /\ Alone(m) /\ target < current_version
    /\ Start(m, "down", {v \in applied : v > target})

\* A Neo4j migration without a driver runs nothing and is recorded all the same.
Runs(m, v) == v \notin Neo4j \/ m \in Drivers

\* _apply_migration: the script.  Every statement is IF NOT EXISTS, so a second run is harmless.
_apply_migration(m, left) ==
    LET v == NextUp(mgr[m].todo) IN
    /\ mgr[m].pc = "up"
    /\ left = "full" \/ (Runs(m, v) /\ left \in {"partial", schema[v]})
    /\ schema' = [schema EXCEPT ![v] = IF Runs(m, v) /\ @ # "full" THEN left ELSE @]
    /\ \/ left = "full" /\ mgr' = [mgr EXCEPT ![m].pc = "record"] /\ UNCHANGED log
       \/ left # "full" /\ mgr' = [mgr EXCEPT ![m] = Free]
                        /\ log' = [log EXCEPT ![v] = "upgrade_failed"]
    /\ UNCHANGED <<applied, torn, runs>>

\* The record: a version that another manager recorded meanwhile breaks the primary key.
record(m) ==
    LET v == NextUp(mgr[m].todo) IN
    /\ mgr[m].pc = "record"
    /\ IF v \in applied
       THEN mgr' = [mgr EXCEPT ![m] = Free] /\ log' = [log EXCEPT ![v] = "upgrade_failed"]
       ELSE mgr' = Done(m, v, "up") /\ log' = [log EXCEPT ![v] = "upgrade"]
    /\ applied' = applied \cup {v}
    /\ UNCHANGED <<schema, torn, runs>>

\* _rollback_migration: the script.  The Neo4j teardown suppresses every failure.
_rollback_migration(m, left) ==
    LET v == NextDown(mgr[m].todo) IN
    /\ mgr[m].pc = "down"
    /\ schema' = [schema EXCEPT ![v] = IF Runs(m, v) /\ @ # "none" THEN left ELSE @]
    /\ IF left = "none" \/ v \in Neo4j
       THEN mgr' = [mgr EXCEPT ![m].pc = "erase"] /\ UNCHANGED log
       ELSE mgr' = [mgr EXCEPT ![m] = Free] /\ log' = [log EXCEPT ![v] = "downgrade_failed"]
    /\ UNCHANGED <<applied, torn, runs>>

erase(m) ==
    LET v == NextDown(mgr[m].todo) IN
    /\ mgr[m].pc = "erase"
    /\ applied' = applied \ {v}
    /\ log' = [log EXCEPT ![v] = "downgrade"]
    /\ mgr' = Done(m, v, "down")
    /\ torn' = torn \ {v}
    /\ UNCHANGED <<schema, runs>>

\* The process dies between two transactions.
Crash(m) ==
    /\ mgr[m].pc # "idle"
    /\ mgr' = [mgr EXCEPT ![m] = Free]
    /\ torn' = IF mgr[m].pc = "erase" THEN torn \cup {NextDown(mgr[m].todo)} ELSE torn
    /\ UNCHANGED <<applied, schema, log, runs>>

Next ==
    \E m \in Managers :
        \/ \E t \in 0..LATEST : upgrade(m, t) \/ downgrade(m, t)
        \/ \E left \in {"none", "partial", "full"} : _apply_migration(m, left) \/ _rollback_migration(m, left)
        \/ record(m) \/ erase(m) \/ Crash(m)

Spec == Init /\ [][Next]_vars

-----------------------------------------------------------------------------
(***************************************************************************)
(* However many replicas upgrade at once, fail and crash: the recorded     *)
(* versions have no gap, and a recorded SQLite version whose schema is not *)
(* complete is explained: the audit log's last word on it is a failed      *)
(* downgrade, or its rollback is under way or was cut off.                 *)
(***************************************************************************)
RecordedInOrder ==
    /\ applied = 1..Cardinality(applied)
    /\ \A v \in applied \ Neo4j :
          schema[v] # "full" => \/ log[v] = "downgrade_failed" \/ v \in torn
                                \/ \E m \in Managers : mgr[m].pc = "erase" /\ v \in mgr[m].todo
=============================================================================

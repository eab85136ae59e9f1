--------------------------- MODULE EvolutionProofs ---------------------------
(***************************************************************************)
(* Proofs about the components of model evolution, for any processes,      *)
(* threads, versions, logs, reports and bounds: a registry file several    *)
(* processes write without a common lock, a canary's split and phase, an   *)
(* adapter that several threads load, drain and unload, the rows a trainer *)
(* measures on, the verdicts of the evaluation gate, the local model's     *)
(* server, a pool of connections, and the registry of tools with a batch   *)
(* of calls.                                                               *)
(***************************************************************************)
EXTENDS MC_Evolution, FiniteSetTheorems, SequenceTheorems, TLAPS

-----------------------------------------------------------------------------
(* The least and the greatest of a set of numbers: the subset ordering of  *)
(* the sets cut off at each member is well-founded.                        *)

LEMMA Least ==
  ASSUME NEW T, T \subseteq Nat, T # {}
  PROVE  \E x \in T : \A y \in T : x <= y
<1> DEFINE Below(x) == {y \in T : y <= x}
           D == {Below(x) : x \in T}
<1>1. D \subseteq FiniteSubsetsOf(Nat)
  <2>1. ASSUME NEW x \in T PROVE Below(x) \subseteq Nat /\ IsFiniteSet(Below(x))
    <3>1. Below(x) \in SUBSET Nat /\ x \in Nat /\ \A s \in Below(x) : s <= x
      OBVIOUS
    <3> QED
      BY <3>1, FS_BoundedSetOfNaturals
  <2> QED
    BY <2>1 DEF FiniteSubsetsOf
<1>2. D # {}
  OBVIOUS
<1>3. PICK B \in D : \A C \in D : <<C, B>> \notin StrictSubsetOrdering(Nat)
  BY <1>1, <1>2, FS_StrictSubsetOrderingWellFounded, WFMin
<1>4. PICK x \in T : B = Below(x)
  OBVIOUS
<1>5. ASSUME NEW y \in T PROVE x <= y
  <2>1. CASE y < x
    <3>0. x \in Nat /\ y \in Nat /\ ~(x <= y) /\ x <= x /\ \A z \in Nat : z <= y => z <= x
      BY <2>1
    <3>1. Below(y) \subseteq Below(x) /\ x \in Below(x) /\ x \notin Below(y)
      BY <3>0
    <3>2. Below(y) \in D /\ Below(x) \in SUBSET Nat /\ Below(y) \in SUBSET Nat
      OBVIOUS
    <3>3. <<Below(y), Below(x)>> \in StrictSubsetOrdering(Nat)
      BY <3>1, <3>2 DEF StrictSubsetOrdering
    <3> QED
      BY <1>3, <1>4, <3>2, <3>3
  <2> QED
    BY <2>1
<1> QED
  BY <1>5

\* Induction up to n, over a set of numbers.
LEMMA UpTo ==
  ASSUME NEW n \in Nat, NEW P, 0 \in P, \A i \in 1..n : i - 1 \in P => i \in P
  PROVE  \A i \in 0..n : i \in P
<1> DEFINE T == {i \in 0..n : i \notin P}
<1>1. SUFFICES ASSUME T # {} PROVE FALSE
  OBVIOUS
<1>2. T \subseteq Nat
  OBVIOUS
<1>3. PICK x \in T : \A y \in T : x <= y
  <2> HIDE DEF T
  <2> QED
    BY <1>1, <1>2, Least
<1>4. x \in 0..n /\ x \notin P /\ x # 0
  OBVIOUS
<1>5. x \in 1..n /\ x - 1 \in 0..n /\ ~(x <= x - 1)
  BY <1>4
<1>6. x - 1 \in P
  BY <1>3, <1>5
<1> QED
  BY <1>4, <1>5, <1>6

\* A loop that passes a value on from one of its n rounds to the next has a result.
Rounds(n, S) == [(1..n) \X S -> S]
Loop(g, n, S, base, step) == g \in [0..n -> S] /\ g[0] = base /\ \A i \in 1..n : g[i] = step[<<i, g[i - 1]>>]
LEMMA Iterates ==
  ASSUME NEW n \in Nat, NEW S, NEW base \in S, NEW step \in Rounds(n, S)
  PROVE  \E g : Loop(g, n, S, base, step)
<1> DEFINE Ok(m) == \E g \in [0..m -> S] : g[0] = base /\ \A i \in 1..m : g[i] = step[<<i, g[i - 1]>>]
           P == {m \in 0..n : Ok(m)}
<1>1. 0 \in P
  <2>1. [i \in 0..0 |-> base] \in [0..0 -> S] /\ [i \in 0..0 |-> base][0] = base /\ 1..0 = {}
    OBVIOUS
  <2>2. Ok(0)
    BY <2>1
  <2> QED
    BY <2>2
<1>2. ASSUME NEW m \in 1..n, m - 1 \in P PROVE m \in P
  <2>1. PICK g \in [0..(m - 1) -> S] : g[0] = base /\ \A i \in 1..(m - 1) : g[i] = step[<<i, g[i - 1]>>]
    BY <1>2
  <2>2. PICK h : h = [i \in 0..m |-> IF i = m THEN step[<<m, g[m - 1]>>] ELSE g[i]]
    OBVIOUS
  <2>3. m - 1 \in 0..(m - 1) /\ \A i \in 0..m : i # m => i \in 0..(m - 1)
    OBVIOUS
  <2>4. step[<<m, g[m - 1]>>] \in S
    BY <2>1, <2>3 DEF Rounds
  <2>5. h \in [0..m -> S]
    BY <2>1, <2>2, <2>3, <2>4
  <2>6. h[0] = base
    <3>1. 0 \in 0..m /\ 0 # m
      OBVIOUS
    <3> QED
      BY <2>1, <2>2, <3>1
  <2>7. ASSUME NEW i \in 1..m PROVE h[i] = step[<<i, h[i - 1]>>]
    <3>1. i \in 0..m /\ i - 1 \in 0..m /\ i - 1 # m
      OBVIOUS
    <3>2. h[i - 1] = g[i - 1]
      BY <2>2, <3>1
    <3>3. CASE i = m
      BY <2>2, <3>1, <3>2, <3>3
    <3>4. CASE i # m
      <4>1. i \in 1..(m - 1)
        BY <3>4
      <4>2. h[i] = g[i]
        BY <2>2, <3>1, <3>4
      <4> QED
        BY <2>1, <3>2, <4>1, <4>2
    <3> QED
      BY <3>3, <3>4
  <2>8. Ok(m)
    BY <2>5, <2>6, <2>7
  <2> QED
    BY <2>8
<1>3. \A i \in 0..n : i \in P
  <2> HIDE DEF P
  <2> QED
    BY <1>1, <1>2, UpTo
<1>4. n \in P
  <2>1. n \in 0..n
    OBVIOUS
  <2> QED
    BY <1>3, <2>1
<1> QED
  BY <1>4 DEF Loop

LEMMA Greatest ==
  ASSUME NEW T, NEW n \in Nat, T \subseteq 0..n, T # {}
  PROVE  \E x \in T : \A y \in T : y <= x
<1> DEFINE F == {n - x : x \in T}
<1>1. F \subseteq Nat /\ F # {}
  <2>1. \A x \in T : n - x \in Nat
    OBVIOUS
  <2> QED
    BY <2>1
<1> HIDE DEF F
<1>2. PICK z \in F : \A y \in F : z <= y
  BY <1>1, Least
<1>3. PICK x \in T : z = n - x
  BY DEF F
<1>4. ASSUME NEW y \in T PROVE y <= x
  <2>1. n - x <= n - y
    BY <1>2, <1>3 DEF F
  <2>2. x \in Int /\ y \in Int
    OBVIOUS
  <2> QED
    BY <2>1, <2>2
<1> QED
  BY <1>4

-----------------------------------------------------------------------------
(* The registry.                                                           *)

Table == [Registry!Versions -> Registry!ModelVersion]

\* No two versions of a table are in production.
Single(m) ==
  \A v, w \in Registry!Versions :
    m[v].status = "production" /\ m[w].status = "production" => v = w

Tables == {m \in Table : Single(m)}

\* Whatever a process has loaded or changed, and whatever has been dumped, has one
\* production version at most; a handle's target does not matter.
RegistryInv ==
  /\ registry_file \in Tables \cup {Torn}
  /\ tmp \in Tables \cup {Torn, Absent}
  /\ mem \in [Registry!Procs -> Tables]

\* The empty registry, and the changes a call makes to a table.
LEMMA EmptySingle == Registry!Empty \in Tables
  BY DEF Registry!Empty, Registry!Missing, Registry!ModelVersion, Tables, Table, Single

\* A status other than production may be set freely.
LEMMA StatusSingle ==
  ASSUME NEW m \in Tables, NEW v \in Registry!Versions,
         NEW s \in {"staging", "canary", "archived"}
  PROVE  [m EXCEPT ![v].status = s] \in Tables
<1> DEFINE n == [m EXCEPT ![v].status = s]
<1>1. n \in Table
  BY DEF Tables, Table, Registry!ModelVersion
<1>2. \A w \in Registry!Versions : n[w].status = "production" => m[w].status = "production"
  BY DEF Tables, Table, Registry!ModelVersion
<1>3. Single(n)
  BY <1>2 DEF Tables, Single
<1> QED
  BY <1>1, <1>3 DEF Tables

\* ModelRegistry.promote of a canary: the other production versions are archived first.
LEMMA PromoteSingle ==
  ASSUME NEW m \in Tables, NEW v \in Registry!Versions
  PROVE  LET archived == [w \in Registry!Versions |->
                            IF w # v /\ m[w].status = "production"
                            THEN [m[w] EXCEPT !.status = "archived"] ELSE m[w]]
         IN  [archived EXCEPT ![v].status = "production"] \in Tables
<1> DEFINE archived == [w \in Registry!Versions |->
                          IF w # v /\ m[w].status = "production"
                          THEN [m[w] EXCEPT !.status = "archived"] ELSE m[w]]
           n == [archived EXCEPT ![v].status = "production"]
<1>1. archived \in Table
  BY DEF Tables, Table, Registry!ModelVersion
<1>2. \A w \in Registry!Versions : w # v => archived[w].status # "production"
  BY DEF Tables, Table, Registry!ModelVersion
<1> HIDE DEF archived
<1>3. n \in Table
  BY <1>1 DEF Table, Registry!ModelVersion
<1>4. \A w \in Registry!Versions : w # v => n[w].status # "production"
  BY <1>1, <1>2 DEF Table
<1>5. Single(n)
  BY <1>4 DEF Single
<1>6. n \in Tables
  BY <1>3, <1>5 DEF Tables
<1> QED
  BY <1>6 DEF archived

\* ModelRegistry.rollback: with one production version, it is the one that is archived,
\* and whatever is promoted in its place is the only one left.
LEMMA RollbackSingle ==
  ASSUME NEW m \in Tables, Registry!In(m, "production") # {}, NEW previous
  PROVE  [m EXCEPT ![Registry!get_latest_production(m)].status = "archived",
                   ![previous].status = "production"] \in Tables
<1> DEFINE c == Registry!get_latest_production(m)
           a == [m EXCEPT ![c].status = "archived"]
           n == [a EXCEPT ![previous].status = "production"]
<1>1. PICK d \in Registry!Versions : m[d].status = "production"
  BY DEF Registry!In
<1>2. Registry!In(m, "production") = {d}
  BY <1>1 DEF Registry!In, Tables, Single
<1>3. c = d
  <2>1. c = Registry!Max({d})
    BY <1>2 DEF Registry!get_latest_production
  <2>2. Registry!Max({d}) = d
    <3>1. d \in Int
      BY DEF Registry!Versions
    <3>2. d >= d
      BY <3>1
    <3> QED
      BY <3>2 DEF Registry!Max
  <2> QED
    BY <2>1, <2>2
<1> HIDE DEF c
<1>4. \A w \in Registry!Versions : a[w].status # "production"
  <2>1. m \in Table /\ Single(m)
    BY DEF Tables
  <2> QED
    BY <1>1, <1>3, <2>1 DEF Single, Table
<1>5. a \in Table
  BY <1>3 DEF Tables, Table, Registry!ModelVersion
<1> HIDE DEF a
<1>6. n \in Table
  BY <1>5 DEF Table, Registry!ModelVersion
<1>7. \A w \in Registry!Versions : w # previous => n[w].status # "production"
  BY <1>4, <1>5 DEF Table
<1>8. Single(n)
  BY <1>7 DEF Single
<1>9. n \in Tables
  BY <1>6, <1>8 DEF Tables
<1> QED
  BY <1>9 DEF a, c

\* A save changes the saver's table and truncates the temporary file; an error saves
\* nothing.
LEMMA SaveKeeps ==
  ASSUME RegistryInv, NEW p \in Registry!Procs, NEW m \in Tables, Registry!_save(p, m)
  PROVE  RegistryInv'
<1>1. mem' \in [Registry!Procs -> Tables]
  BY DEF RegistryInv, Registry!_save
<1>2. registry_file' \in Tables \cup {Torn} /\ tmp' \in Tables \cup {Torn, Absent}
  BY DEF RegistryInv, Registry!_save
<1> QED
  BY <1>1, <1>2 DEF RegistryInv, Tables, Table, Single, Registry!Versions, Registry!ModelVersion,
     Registry!Procs

LEMMA RaiseKeeps ==
  ASSUME RegistryInv, NEW p \in Registry!Procs, Registry!Raise(p)
  PROVE  RegistryInv'
<1>1. Registry!Empty \in Tables
  BY EmptySingle
<1>2. mem' \in [Registry!Procs -> Tables]
  BY <1>1 DEF RegistryInv, Registry!Raise, Registry!Return
<1>3. registry_file' \in Tables \cup {Torn} /\ tmp' \in Tables \cup {Torn, Absent}
  BY DEF RegistryInv, Registry!Raise
<1> QED
  BY <1>2, <1>3 DEF RegistryInv, Tables, Table, Single, Registry!Versions, Registry!ModelVersion,
     Registry!Procs

LEMMA CallsKeep ==
  ASSUME RegistryInv, NEW p \in Registry!Procs,
         \/ Registry!rollback(p)
         \/ \E v \in Registry!Versions : Registry!promote(p, v) \/ Registry!update_metrics(p, v)
         \/ Registry!register(p)
  PROVE  RegistryInv'
<1> DEFINE m == mem[p]
<1>1. m \in Tables
  BY DEF RegistryInv
<1>2. CASE Registry!rollback(p)
  <2> DEFINE current == Registry!get_latest_production(m)
             candidates == Registry!In(m, "archived") \ {current}
             previous == Registry!Max(candidates)
  <2>1. CASE current = 0 \/ candidates = {}
    <3>1. Registry!Raise(p)
      BY <1>2, <2>1 DEF Registry!rollback
    <3> QED
      BY <3>1, RaiseKeeps
  <2>2. CASE ~(current = 0 \/ candidates = {})
    <3> DEFINE n == [m EXCEPT ![current].status = "archived", ![previous].status = "production"]
    <3>1. Registry!_save(p, n)
      BY <1>2, <2>2 DEF Registry!rollback
    <3>2. Registry!In(m, "production") # {}
      BY <2>2 DEF Registry!get_latest_production
    <3>3. n \in Tables
      <4> HIDE DEF m, previous
      <4> QED
        BY <1>1, <3>2, RollbackSingle
    <3> QED
      BY <3>1, <3>3, SaveKeeps
  <2> QED
    BY <2>1, <2>2
<1>3. ASSUME NEW v \in Registry!Versions, Registry!promote(p, v)
      PROVE  RegistryInv'
  <2> DEFINE archived == [w \in Registry!Versions |->
                            IF w # v /\ m[w].status = "production"
                            THEN [m[w] EXCEPT !.status = "archived"] ELSE m[w]]
  <2>1. \/ Registry!Raise(p)
        \/ Registry!_save(p, [m EXCEPT ![v].status = "canary"])
        \/ Registry!_save(p, [archived EXCEPT ![v].status = "production"])
        \/ Registry!_save(p, m)
    BY <1>3 DEF Registry!promote
  <2>2. [m EXCEPT ![v].status = "canary"] \in Tables
    BY <1>1, StatusSingle
  <2>3. [archived EXCEPT ![v].status = "production"] \in Tables
    <3> HIDE DEF m
    <3> QED
      BY <1>1, PromoteSingle
  <2> HIDE DEF m, archived
  <2> QED
    BY <1>1, <2>1, <2>2, <2>3, SaveKeeps, RaiseKeeps
<1>4. ASSUME NEW v \in Registry!Versions, Registry!update_metrics(p, v)
      PROVE  RegistryInv'
  <2>1. Registry!Raise(p) \/ Registry!_save(p, m)
    BY <1>4 DEF Registry!update_metrics
  <2> HIDE DEF m
  <2> QED
    BY <1>1, <2>1, SaveKeeps, RaiseKeeps
<1>5. CASE Registry!register(p)
  <2> DEFINE v == Registry!Cardinality(Registry!Known(m)) + 1
  <2>1. Registry!Raise(p) \/ (v \in Registry!Versions /\ Registry!_save(p, [m EXCEPT ![v].status = "staging"]))
    BY <1>5 DEF Registry!register
  <2> HIDE DEF m, v
  <2>2. v \in Registry!Versions => [m EXCEPT ![v].status = "staging"] \in Tables
    BY <1>1, StatusSingle
  <2> QED
    BY <2>1, <2>2, SaveKeeps, RaiseKeeps
<1> QED
  BY <1>2, <1>3, <1>4, <1>5

\* The steps that move tables between memory, temporary file and registry file.
LEMMA FileStepsKeep ==
  ASSUME RegistryInv, NEW p \in Registry!Procs,
         \/ Registry!_load(p) \/ Registry!json_dump(p) \/ Registry!os_replace(p)
         \/ Registry!Crash(p) \/ \E j \in Jobs : Registry!_run_training(p, j)
  PROVE  /\ registry_file' \in Tables \cup {Torn}
         /\ tmp' \in Tables \cup {Torn, Absent}
         /\ mem' \in [Registry!Procs -> Tables]
<1>1. Registry!Empty \in Tables
  BY EmptySingle
<1>2. mem[p] \in Tables
  BY DEF RegistryInv
<1>3. CASE Registry!_load(p)
  BY <1>1, <1>3 DEF RegistryInv, Registry!_load
<1>4. CASE Registry!json_dump(p)
  BY <1>2, <1>4 DEF RegistryInv, Registry!json_dump
<1>5. CASE Registry!os_replace(p)
  BY <1>1, <1>5 DEF RegistryInv, Registry!os_replace, Registry!Return
<1>6. CASE Registry!Crash(p)
  BY <1>1, <1>6 DEF RegistryInv, Registry!Crash, Registry!Return
<1>7. ASSUME NEW j \in Jobs, Registry!_run_training(p, j)
      PROVE  /\ registry_file' \in Tables \cup {Torn}
             /\ tmp' \in Tables \cup {Torn, Absent}
             /\ mem' \in [Registry!Procs -> Tables]
  BY <1>1, <1>7 DEF RegistryInv, Registry!_run_training, Registry!train
<1> QED
  BY <1>3, <1>4, <1>5, <1>6, <1>7

LEMMA RegistryStep == RegistryInv /\ [Registry!Next]_rvars => RegistryInv'
<1> SUFFICES ASSUME RegistryInv, [Registry!Next]_rvars
             PROVE  RegistryInv'
  OBVIOUS
<1>1. ASSUME NEW p \in Registry!Procs,
             \/ Registry!_load(p) \/ Registry!json_dump(p) \/ Registry!os_replace(p)
             \/ Registry!Crash(p) \/ \E j \in Jobs : Registry!_run_training(p, j)
      PROVE  RegistryInv'
  BY <1>1, FileStepsKeep DEF RegistryInv, Tables, Table, Single, Registry!Versions,
     Registry!ModelVersion, Registry!Procs
<1>2. ASSUME NEW p \in Registry!Procs,
             \/ Registry!rollback(p)
             \/ \E v \in Registry!Versions : Registry!promote(p, v) \/ Registry!update_metrics(p, v)
             \/ Registry!register(p)
      PROVE  RegistryInv'
  BY <1>2, CallsKeep
<1>3. ASSUME \/ UNCHANGED rvars
             \/ \E j \in Jobs : Registry!admin_models_train(j)
      PROVE  RegistryInv'
  <2>1. UNCHANGED <<registry_file, tmp, mem>>
    BY <1>3 DEF rvars, Registry!admin_models_train
  <2> QED
    BY <2>1 DEF RegistryInv, Tables, Table, Single, Registry!Versions, Registry!ModelVersion,
       Registry!Procs
<1> QED
  BY <1>1, <1>2, <1>3 DEF Registry!Next, Registry!admin_router, Registry!models_router,
     Registry!Procs

\* The registry module's Cardinality is the one of FiniteSets.
LEMMA SameCardinality == \A S : Registry!Cardinality(S) = Cardinality(S)
  BY DEF Registry!Cardinality, Cardinality, Registry!IsFiniteSet, IsFiniteSet

\* One production version in every table is what OneProduction counts.
LEMMA SingleIsOne == RegistryInv => OneProduction
<1> SUFFICES ASSUME RegistryInv, NEW m \in {registry_file, tmp} \ {Torn, Absent}
             PROVE  Cardinality(Registry!In(m, "production")) <= 1
  BY SameCardinality DEF OneProduction, Registry!OneProduction
<1>1. m \in Tables
  BY DEF RegistryInv
<1>2. CASE Registry!In(m, "production") = {}
  BY <1>2, FS_EmptySet
<1>3. CASE Registry!In(m, "production") # {}
  <2>1. PICK v : v \in Registry!In(m, "production")
    BY <1>3
  <2>2. Registry!In(m, "production") = {v}
    BY <1>1, <2>1 DEF Registry!In, Tables, Single
  <2>3. Cardinality({v}) = 1
    BY FS_Singleton
  <2> QED
    BY <2>2, <2>3
<1> QED
  BY <1>2, <1>3

\* However the endpoints' processes overlap between load, dump and replace, tear the
\* file or are killed, the registry names one production version of a model at most
\* (ModelRegistry.promote, rollback and _save).
THEOREM RegistryIsSound == Spec => []OneProduction
<1>1. Init => RegistryInv
  BY EmptySingle DEF Init, Registry!Init, RegistryInv
<1>2. [Next]_vars => [Registry!Next]_rvars
  BY DEF Next, vars, rvars
<1>3. RegistryInv /\ [Next]_vars => RegistryInv'
  BY <1>2, RegistryStep
<1> QED
  BY <1>1, <1>3, SingleIsOne, PTL DEF Spec

-----------------------------------------------------------------------------
(* The canary.                                                             *)

\* The configuration is a record, whose split is a percentage.
CanaryInv ==
  /\ config = [percent |-> config.percent, stable |-> config.stable, canary |-> config.canary]
  /\ config.percent \in Nat
  /\ PhaseMatchesSplit

LEMMA CanaryStep == CanaryInv /\ [Canary!Next]_cvars => CanaryInv'
<1> SUFFICES ASSUME CanaryInv, [Canary!Next]_cvars
             PROVE  CanaryInv'
  OBVIOUS
<1> USE PercentsAssumption DEF CanaryInv, PhaseMatchesSplit, Canary!PhaseMatchesSplit, Canary!Split
<1>1. ASSUME NEW x \in Percents, Canary!set_split(x)
      PROVE  CanaryInv'
  BY <1>1 DEF Canary!set_split, Canary!_infer_phase
<1>2. ASSUME NEW x \in Percents, NEW v, NEW s, Canary!configure(x, v, s)
      PROVE  CanaryInv'
  BY <1>2 DEF Canary!configure, Canary!_infer_phase
<1>3. ASSUME NEW target, Canary!route(target)
      PROVE  CanaryInv'
  BY <1>3 DEF Canary!route
<1>4. ASSUME NEW outcome, Canary!record_result(outcome)
      PROVE  CanaryInv'
  BY <1>4 DEF Canary!record_result
<1>5. CASE Canary!rollback \/ Canary!auto_rollback
  BY <1>5 DEF Canary!rollback, Canary!auto_rollback
<1>6. CASE Canary!CooldownEnds
  BY <1>6 DEF Canary!CooldownEnds
<1>7. CASE Canary!canary_promote
  BY <1>7 DEF Canary!canary_promote
<1>8. CASE Canary!reset
  BY <1>8 DEF Canary!reset, Canary!CanaryConfig
<1>9. CASE UNCHANGED cvars
  BY <1>9 DEF cvars
<1> QED
  BY <1>1, <1>2, <1>3, <1>4, <1>5, <1>6, <1>7, <1>8, <1>9 DEF Canary!Next

\* Splits, deployments, promotions, automatic rollbacks and the end of a cooldown, in
\* any order, keep the phase and the traffic together (canary_controller.py).
THEOREM CanaryIsSound == Spec => []PhaseMatchesSplit
<1>1. Init => CanaryInv
  BY DEF Init, Canary!Init, Canary!CanaryConfig, CanaryInv, PhaseMatchesSplit,
     Canary!PhaseMatchesSplit, Canary!Split
<1>2. [Next]_vars => [Canary!Next]_cvars
  BY DEF Next, vars, cvars
<1>3. CanaryInv /\ [Next]_vars => CanaryInv'
  BY <1>2, CanaryStep
<1>4. CanaryInv => PhaseMatchesSplit
  BY DEF CanaryInv
<1> QED
  BY <1>1, <1>3, <1>4, PTL DEF Spec

-----------------------------------------------------------------------------
(* The adapter.                                                            *)

\* Who left the adapter in a passing state is still there to take it out of it: a
\* loading adapter has a thread in the load callback, a draining one a thread that is
\* about to unload or to load.
SomeoneLoads == state = "loading" => \E t \in Threads : pc[t] = "loading"
SomeoneDrains == state = "draining" => \E t \in Threads : pc[t] \in {"unloading", "reloading"}

AdapterInv ==
  /\ state \in {"unloaded", "loading", "active", "draining", "error"}
  /\ pc \in [Threads -> {"idle", "loading", "loaded", "load_failed", "unloading", "reloading",
                         "draining"}]
  /\ SomeoneLoads /\ SomeoneDrains

\* What a transition can lead to from a state the adapter is in.
LEMMA Transitions ==
  ASSUME NEW s \in {"unloaded", "loading", "active", "draining", "error"}
  PROVE  /\ Adapters!transition_to(s, "active") =
              IF s \in {"loading", "draining", "error"} THEN "active" ELSE s
         /\ Adapters!transition_to(s, "error") = "error"
         /\ Adapters!transition_to(s, "draining") = IF s = "active" THEN "draining" ELSE s
         /\ Adapters!transition_to(Adapters!transition_to(s, "retiring"), "unloaded") =
              IF s \in {"draining", "error"} THEN "unloaded" ELSE s
         /\ <<s, "loading">> \in Adapters!_VALID_TRANSITIONS <=>
              s \in {"unloaded", "draining", "error"}
  BY DEF Adapters!transition_to, Adapters!_VALID_TRANSITIONS

\* The first locked section of load_adapter takes a draining adapter out of that state.
LEMMA EnterLoadKeeps ==
  ASSUME AdapterInv, NEW t \in Threads, pc[t] \notin {"loading", "unloading"}, Adapters!EnterLoad(t, state)
  PROVE  AdapterInv'
<1>1. state' \in {"loading", "active"} /\ pc'[t] \in {"loading", "loaded", "load_failed"}
      /\ pc' \in [Threads -> {"idle", "loading", "loaded", "load_failed", "unloading", "reloading",
                              "draining"}]
  BY Transitions DEF Adapters!EnterLoad, Adapters!Goto, AdapterInv
<1>2. state' = "loading" => pc'[t] = "loading" \/ (state = "loading" /\ pc'[t] = "load_failed")
  BY Transitions DEF Adapters!EnterLoad, Adapters!Goto, AdapterInv
<1>3. \A u \in Threads \ {t} : pc'[u] = pc[u]
  BY DEF Adapters!EnterLoad, Adapters!Goto, AdapterInv
<1>4. SomeoneLoads'
  BY <1>2, <1>3 DEF AdapterInv, SomeoneLoads
<1> QED
  BY <1>1, <1>4 DEF AdapterInv, SomeoneDrains

LEMMA AdapterStep == AdapterInv /\ [Adapters!Next]_avars => AdapterInv'
<1> SUFFICES ASSUME AdapterInv, [Adapters!Next]_avars
             PROVE  AdapterInv'
  OBVIOUS
<1> DEFINE Places == {"idle", "loading", "loaded", "load_failed", "unloading", "reloading", "draining"}
<1>0. state \in {"unloaded", "loading", "active", "draining", "error"} /\ pc \in [Threads -> Places]
  BY DEF AdapterInv
<1>1. ASSUME NEW t \in Threads, Adapters!load_callback(t)
      PROVE  AdapterInv'
  <2>1. state' \in {"unloaded", "active", "error"}
    BY <1>0, <1>1, Transitions DEF Adapters!load_callback
  <2>2. pc' \in [Threads -> Places]
    BY <1>0, <1>1 DEF Adapters!load_callback, Adapters!Goto
  <2> QED
    BY <2>1, <2>2 DEF AdapterInv, SomeoneLoads, SomeoneDrains
<1>2. ASSUME NEW t \in Threads, Adapters!load_returns(t)
      PROVE  AdapterInv'
  <2>1. state' = state /\ pc[t] = "loaded" /\ \A u \in Threads \ {t} : pc'[u] = pc[u]
    BY <1>0, <1>2 DEF Adapters!load_returns, Adapters!Goto, Adapters!Return
  <2>2. pc' \in [Threads -> Places]
    BY <1>0, <1>2 DEF Adapters!load_returns, Adapters!Goto, Adapters!Return
  <2> QED
    BY <2>1, <2>2 DEF AdapterInv, SomeoneLoads, SomeoneDrains
<1>3. ASSUME NEW t \in Threads, Adapters!load_raises(t)
      PROVE  AdapterInv'
  <2>1. state' \in {state, "active"} /\ pc[t] = "load_failed" /\ \A u \in Threads \ {t} : pc'[u] = pc[u]
    BY <1>0, <1>3, Transitions DEF Adapters!load_raises, Adapters!Goto, Adapters!Return
  <2>2. pc' \in [Threads -> Places]
    BY <1>0, <1>3 DEF Adapters!load_raises, Adapters!Goto, Adapters!Return
  <2> QED
    BY <2>1, <2>2 DEF AdapterInv, SomeoneLoads, SomeoneDrains
<1>4. ASSUME NEW t \in Threads, Adapters!unload_callback(t)
      PROVE  AdapterInv'
  <2>1. state' \in {"unloaded", "error", "loading", "active"} /\ (state' = "loading" => state = "loading")
    BY <1>0, <1>4, Transitions DEF Adapters!unload_callback
  <2>2. pc[t] = "unloading" /\ \A u \in Threads \ {t} : pc'[u] = pc[u]
    BY <1>0, <1>4 DEF Adapters!unload_callback, Adapters!Return, Adapters!Goto
  <2>3. pc' \in [Threads -> Places]
    BY <1>0, <1>4 DEF Adapters!unload_callback, Adapters!Return, Adapters!Goto
  <2> QED
    BY <2>1, <2>2, <2>3 DEF AdapterInv, SomeoneLoads, SomeoneDrains
<1>5. ASSUME NEW t \in Threads, Adapters!reload_loads(t)
      PROVE  AdapterInv'
  BY <1>5, EnterLoadKeeps DEF Adapters!reload_loads
<1>6. ASSUME NEW t \in Threads, Adapters!_drain_and_retire(t)
      PROVE  AdapterInv'
  <2>1. state' \in {state, "unloaded"} /\ pc[t] = "draining" /\ \A u \in Threads \ {t} : pc'[u] = pc[u]
    BY <1>0, <1>6, Transitions DEF Adapters!_drain_and_retire, Adapters!Goto, Adapters!Return
  <2>2. pc' \in [Threads -> Places]
    BY <1>0, <1>6 DEF Adapters!_drain_and_retire, Adapters!Goto, Adapters!Return
  <2> QED
    BY <2>1, <2>2 DEF AdapterInv, SomeoneLoads, SomeoneDrains
<1>7. ASSUME NEW t \in Threads, Adapters!unload_adapter(t)
      PROVE  AdapterInv'
  <2>1. pc[t] = "idle" /\ (\A u \in Threads \ {t} : pc'[u] = pc[u]) /\ pc' \in [Threads -> Places]
    BY <1>0, <1>7 DEF Adapters!unload_adapter, Adapters!Begin, Adapters!Goto
  <2>2. \/ state' \in {state, "unloaded"}
        \/ state' = "draining" /\ pc'[t] = "unloading"
    BY <1>0, <1>7, Transitions DEF Adapters!unload_adapter, Adapters!Goto
  <2> QED
    BY <1>0, <2>1, <2>2 DEF AdapterInv, SomeoneLoads, SomeoneDrains
<1>8. ASSUME NEW t \in Threads, Adapters!reload_all(t) \/ Adapters!shutdown(t)
      PROVE  AdapterInv'
  <2>1. pc[t] = "idle" /\ (\A u \in Threads \ {t} : pc'[u] = pc[u]) /\ pc' \in [Threads -> Places]
    BY <1>0, <1>8 DEF Adapters!reload_all, Adapters!shutdown, Adapters!Begin, Adapters!Goto
  <2>2. state' = "draining" /\ pc'[t] \in {"unloading", "reloading"}
    BY <1>0, <1>8, Transitions DEF Adapters!reload_all, Adapters!shutdown, Adapters!Goto
  <2> QED
    BY <2>1, <2>2 DEF AdapterInv, SomeoneLoads, SomeoneDrains
<1>9. ASSUME NEW t \in Threads, NEW r \in Releases, Adapters!load_adapter(t, r)
      PROVE  AdapterInv'
  BY <1>9, EnterLoadKeeps DEF Adapters!load_adapter, Adapters!Begin
<1>10. ASSUME NEW t \in Threads, NEW r \in Releases, Adapters!Reload(t, r)
       PROVE  AdapterInv'
  <2>1. pc[t] = "idle"
    BY <1>10 DEF Adapters!Reload, Adapters!Begin
  <2>2. CASE state = "unloaded"
    <3>1. Adapters!EnterLoad(t, state)
      BY <1>10, <2>2 DEF Adapters!Reload
    <3> QED
      BY <2>1, <3>1, EnterLoadKeeps
  <2>3. CASE state # "unloaded"
    <3>1. (\A u \in Threads \ {t} : pc'[u] = pc[u]) /\ pc' \in [Threads -> Places]
          /\ pc'[t] = "reloading"
      BY <1>0, <1>10, <2>3 DEF Adapters!Reload, Adapters!Goto
    <3>2. state' \in {state, "draining"}
      BY <1>0, <1>10, <2>3, Transitions DEF Adapters!Reload
    <3> QED
      BY <1>0, <2>1, <3>1, <3>2 DEF AdapterInv, SomeoneLoads, SomeoneDrains
  <2> QED
    BY <2>2, <2>3
<1>11. ASSUME \/ UNCHANGED avars
              \/ Adapters!begin_request \/ Adapters!end_request
              \/ Adapters!enable_watcher \/ Adapters!disable_watcher
       PROVE  AdapterInv'
  <2>1. UNCHANGED <<state, pc>>
    BY <1>11 DEF avars, Adapters!begin_request, Adapters!end_request, Adapters!enable_watcher,
       Adapters!disable_watcher
  <2> QED
    BY <2>1 DEF AdapterInv, SomeoneLoads, SomeoneDrains
<1> QED
  BY <1>1, <1>2, <1>3, <1>4, <1>5, <1>6, <1>7, <1>8, <1>9, <1>10, <1>11
     DEF Adapters!Next, Adapters!Runs, Adapters!hot_reload, Adapters!_scan_directory

\* However loads, unloads and reloads of any number of threads overlap and fail, once
\* every call has returned the adapter is not left loading or draining
\* (adapter_manager.py, transition_to and its callers).
THEOREM AdapterIsSound == Spec => []AdapterSettles
<1>1. Init => AdapterInv
  BY DEF Init, Adapters!Init, AdapterInv, SomeoneLoads, SomeoneDrains
<1>2. [Next]_vars => [Adapters!Next]_avars
  BY DEF Next, vars, avars
<1>3. AdapterInv /\ [Next]_vars => AdapterInv'
  BY <1>2, AdapterStep
<1>4. AdapterInv => AdapterSettles
  BY DEF AdapterInv, SomeoneLoads, SomeoneDrains, AdapterSettles, Adapters!AdapterSettles
<1> QED
  BY <1>1, <1>3, <1>4, PTL DEF Spec

-----------------------------------------------------------------------------
(* Training.                                                               *)

KindSet == {"intent", "llm", "reranker"}
SplitFile(k, s) == datasets[<<"export", k, s>>]

\* No record on both sides, and each record once.
Apart(R, S) == MIN_SAMPLES >= 2 => \A a \in R, b \in S : a.id # b.id
Distinct(D) == \A a, b \in D : a.id = b.id => a = b

\* The running export has not yet written this file.
NotYet(k, s) ==
  /\ export.at # "idle"
  /\ \E i \in 1..3 : /\ k = Training!Kinds[i]
                     /\ \/ i > export.kind
                        \/ i = export.kind /\ (export.at \in {"split", "train"} \/ s = "eval")

\* Training rows of kind k are apart from the evaluation rows that go with them: those on disk and
\* those about to be written, by the number of the export.
Fine(t, k) ==
  /\ t.by \in Nat /\ t.by <= exports
  /\ NotYet(k, "train") => t.by < exports
  /\ t.by = SplitFile(k, "eval").by => Apart(t.rows, SplitFile(k, "eval").rows)
  /\ (export.at = "eval" /\ k = Training!Kinds[export.kind] /\ t.by = exports) => Apart(t.rows, export.eval)

IsJob(j) == j = [at |-> j.at, kind |-> j.kind, dir |-> j.dir, how |-> j.how, train |-> j.train, eval |-> j.eval,
                 done |-> j.done]
IsExport(e) == e = [at |-> e.at, kind |-> e.kind, merged |-> e.merged, train |-> e.train, eval |-> e.eval]

ExportInv ==
  /\ IsExport(export)
  /\ logged \subseteq DOMAIN Interactions
  /\ exports \in Nat
  /\ export.at \in {"idle", "split", "train", "eval"} /\ export.kind \in 1..3
  /\ \A m \in export.merged : m.known => m.id \in DOMAIN Interactions
  /\ Distinct(export.merged)
  /\ export.at \in {"train", "eval"} => Apart(export.train, export.eval)

FilesInv ==
  /\ datasets = [f \in Training!Files |-> datasets[f]]
  /\ \A k \in KindSet : /\ Fine(SplitFile(k, "train"), k)
                        /\ SplitFile(k, "eval").by \in Nat /\ SplitFile(k, "eval").by <= exports
                        /\ NotYet(k, "eval") => SplitFile(k, "eval").by < exports

JobInv ==
  /\ IsJob(tjob)
  /\ tjob.at # "idle" => tjob.kind \in KindSet /\ (tjob.how = "lora" => tjob.kind # "llm")
  /\ (tjob.at = "eval_file" /\ tjob.dir = "export") => Fine(tjob.train, tjob.kind)
  /\ (tjob.at = "fit" /\ tjob.how = "lora" /\ tjob.dir = "export" /\ tjob.train.by = tjob.eval.by)
        => Apart(tjob.train.rows, tjob.eval.rows)
  /\ (tjob.at = "save" /\ tjob.how = "lora" /\ tjob.dir = "export" /\ ~tjob.done.torn)
        => Apart(tjob.done.trained, tjob.done.measured)

TrainingInv ==
  /\ ExportInv
  /\ FilesInv
  /\ JobInv
  /\ \E S : tjobs \in Seq(S)
  /\ Training!HeldOut

-----------------------------------------------------------------------------
LEMMA TrainingCardinality == \A S : Training!Cardinality(S) = Cardinality(S)
  BY DEF Training!Cardinality, Cardinality

LEMMA ImageFinite ==
  ASSUME NEW S, IsFiniteSet(S), NEW f
  PROVE  IsFiniteSet({f[x] : x \in S})
<1> DEFINE T == {f[x] : x \in S}
           g == [x \in S |-> f[x]]
<1>1. g \in Surjection(S, T)
  BY DEF Surjection
<1> QED
  BY <1>1, FS_Surjection DEF ExistsSurjection

\* The row made of chunk c of record m.
RowOf(m, c) ==
  Training!Row(<<m.id, c>>, <<Interactions[m.id].query, Interactions[m.id].chunks[c]>>,
               IF c = (IF Training!Answer(m) = 0 THEN 1
                       ELSE IF Interactions[m.id].hit[Training!Answer(m)] = 0 THEN 1
                       ELSE Interactions[m.id].hit[Training!Answer(m)]) THEN "positive" ELSE "negative")

LEMMA RerankerRow ==
  ASSUME NEW M, NEW r \in Training!build_reranker_dataset(M)
  PROVE  \E m \in M : /\ m.known
                      /\ \E c \in 1..Len(Interactions[m.id].chunks) : r = RowOf(m, c)
  BY DEF Training!build_reranker_dataset, Training!Asked, RowOf

LEMMA RowOfIs ==
  ASSUME NEW m, NEW c
  PROVE  /\ RowOf(m, c).id = <<m.id, c>>
         /\ \E s \in {"positive", "negative"} :
               RowOf(m, c) = Training!Row(<<m.id, c>>, <<Interactions[m.id].query, Interactions[m.id].chunks[c]>>, s)
  BY DEF RowOf, Training!Row

\* What is built from the log is a finite set of rows, and each record of it is one row.
LEMMA BuiltFinite ==
  ASSUME NEW M, \A m \in M : m.known => m.id \in DOMAIN Interactions, Distinct(M), NEW kind \in KindSet
  PROVE  IsFiniteSet(Training!Build(kind, M))
<1> DEFINE K == {m \in M : m.known}
           D == DOMAIN Interactions
<1>0. IsFiniteSet(K)
  <2> DEFINE g == [m \in K |-> m.id]
  <2>1. g \in Injection(K, D)
    BY DEF Injection, IsInjective, Distinct
  <2> QED
    BY <2>1, TrainingAssumption, FS_Injection DEF ExistsInjection
<1>1. CASE kind = "intent"
  <2> DEFINE f == [m \in K |-> Training!Row(m.id, <<Interactions[m.id].query>>, Interactions[m.id].label)]
  <2>1. IsFiniteSet({f[m] : m \in K})
    BY <1>0, ImageFinite
  <2>2. Training!Build(kind, M) = Training!build_intent_dataset(M)
    BY <1>1 DEF Training!Build
  <2>3. Training!build_intent_dataset(M) \subseteq {f[m] : m \in K}
    BY DEF Training!build_intent_dataset, Training!Asked
  <2> QED
    BY <2>1, <2>2, <2>3, FS_Subset
<1>2. CASE kind = "llm"
  <2> DEFINE f == [m \in K |-> Training!Row(m.id, <<Interactions[m.id].query, Training!Answer(m)>>, "all")]
  <2>1. IsFiniteSet({f[m] : m \in K})
    BY <1>0, ImageFinite
  <2>2. Training!Build(kind, M) = Training!build_llm_dataset(M)
    BY <1>2 DEF Training!Build
  <2>3. Training!build_llm_dataset(M) \subseteq {f[m] : m \in K}
    BY DEF Training!build_llm_dataset, Training!Asked
  <2> QED
    BY <2>1, <2>2, <2>3, FS_Subset
<1>3. CASE kind = "reranker"
  <2> DEFINE C(m) == (1..Len(Interactions[m.id].chunks)) \X {"positive", "negative"}
             T(m, p) == Training!Row(<<m.id, p[1]>>, <<Interactions[m.id].query, Interactions[m.id].chunks[p[1]]>>, p[2])
             R(m) == {T(m, p) : p \in C(m)}
             F == [m \in K |-> R(m)]
  <2>1. ASSUME NEW m \in K PROVE IsFiniteSet(F[m])
    <3>1. Len(Interactions[m.id].chunks) \in Nat
      BY TrainingAssumption
    <3>2. IsFiniteSet(1..Len(Interactions[m.id].chunks))
      BY <3>1, FS_Interval
    <3>3. IsFiniteSet({"positive"}) /\ IsFiniteSet({"positive"} \cup {"negative"})
      BY FS_Singleton, FS_AddElement
    <3>4. {"positive", "negative"} = {"positive"} \cup {"negative"}
      OBVIOUS
    <3>5. IsFiniteSet(C(m))
      BY <3>2, <3>3, <3>4, FS_Product
    <3> DEFINE P == C(m)
               g == [p \in P |-> T(m, p)]
    <3>6. {g[p] : p \in P} = F[m] /\ IsFiniteSet(P)
      BY <3>5
    <3> HIDE DEF P, g
    <3>7. IsFiniteSet({g[p] : p \in P})
      BY <3>6, ImageFinite
    <3> QED
      BY <3>6, <3>7
  <2>2. IsFiniteSet({F[m] : m \in K})
    BY <1>0, ImageFinite
  <2>3. IsFiniteSet(UNION {F[m] : m \in K})
    BY <2>1, <2>2, FS_UNION
  <2>4. Training!Build(kind, M) = Training!build_reranker_dataset(M)
    BY <1>3 DEF Training!Build
  <2>5. Training!build_reranker_dataset(M) \subseteq UNION {F[m] : m \in K}
    <3> SUFFICES ASSUME NEW r \in Training!build_reranker_dataset(M) PROVE r \in UNION {F[m] : m \in K}
      OBVIOUS
    <3>1. PICK m \in M : m.known /\ \E c \in 1..Len(Interactions[m.id].chunks) : r = RowOf(m, c)
      BY RerankerRow
    <3>2. PICK c \in 1..Len(Interactions[m.id].chunks), s \in {"positive", "negative"} :
             r = Training!Row(<<m.id, c>>, <<Interactions[m.id].query, Interactions[m.id].chunks[c]>>, s)
      BY <3>1, RowOfIs
    <3>4. <<c, s>> \in C(m) /\ r = T(m, <<c, s>>)
      BY <3>2
    <3>3. m \in K /\ r \in F[m]
      BY <3>1, <3>4
    <3> QED
      BY <3>3
  <2> QED
    BY <2>3, <2>4, <2>5, FS_Subset
<1> QED
  BY <1>1, <1>2, <1>3 DEF KindSet

LEMMA BuiltDistinct ==
  ASSUME NEW M, Distinct(M), NEW kind \in KindSet
  PROVE  Distinct(Training!Build(kind, M))
<1>1. CASE kind = "intent"
  <2>1. Training!Build(kind, M) = Training!build_intent_dataset(M)
    BY <1>1 DEF Training!Build
  <2>2. \A r \in Training!build_intent_dataset(M) : \E m \in M :
           r = Training!Row(m.id, <<Interactions[m.id].query>>, Interactions[m.id].label)
    BY DEF Training!build_intent_dataset
  <2> QED
    BY <2>1, <2>2 DEF Distinct, Training!Row
<1>2. CASE kind = "llm"
  <2>1. Training!Build(kind, M) = Training!build_llm_dataset(M)
    BY <1>2 DEF Training!Build
  <2>2. \A r \in Training!build_llm_dataset(M) : \E m \in M :
           r = Training!Row(m.id, <<Interactions[m.id].query, Training!Answer(m)>>, "all")
    BY DEF Training!build_llm_dataset
  <2> QED
    BY <2>1, <2>2 DEF Distinct, Training!Row
<1>3. CASE kind = "reranker"
  <2>1. Training!Build(kind, M) = Training!build_reranker_dataset(M)
    BY <1>3 DEF Training!Build
  <2> SUFFICES ASSUME NEW a \in Training!build_reranker_dataset(M), NEW b \in Training!build_reranker_dataset(M),
                      a.id = b.id
               PROVE  a = b
    BY <2>1 DEF Distinct
  <2>2. PICK m \in M : \E c : a = RowOf(m, c)
    BY RerankerRow
  <2>3. PICK n \in M : \E d : b = RowOf(n, d)
    BY RerankerRow
  <2>6. PICK c : a = RowOf(m, c)
    BY <2>2
  <2>7. PICK d : b = RowOf(n, d)
    BY <2>3
  <2>8. a.id = <<m.id, c>> /\ b.id = <<n.id, d>>
    BY <2>6, <2>7, RowOfIs
  <2>9. <<m.id, c>> = <<n.id, d>>
    BY <2>8, Zenon
  <2>4. m.id = n.id /\ c = d
    BY <2>9
  <2>5. m = n
    BY <2>4 DEF Distinct
  <2> QED
    BY <2>6, <2>7, <2>4, <2>5
<1> QED
  BY <1>1, <1>2, <1>3 DEF KindSet

\* What a shuffle puts on one side is part of the dataset.
LEMMA ShuffledPart ==
  ASSUME NEW S, IsFiniteSet(S), NEW k \in 0..Cardinality(S)
  PROVE  Training!Shuffled(k, S) \subseteq S
<1>1. Cardinality(S) \in Nat /\ ExistsBijection(1..Cardinality(S), S)
  BY FS_CardinalityType
<1>2. PICK f : f \in Bijection(1..Cardinality(S), S)
  BY <1>1 DEF ExistsBijection
<1> DEFINE g == [i \in 1..k |-> f[i]]
           T == {f[i] : i \in 1..k}
<1>3. 1..k \subseteq 1..Cardinality(S)
  BY <1>1
<1>4. T \subseteq S
  BY <1>2, <1>3 DEF Bijection, Injection
<1>5. g \in Bijection(1..k, T)
  BY <1>2, <1>3 DEF Bijection, Injection, Surjection, IsInjective
<1>6. IsFiniteSet(1..k) /\ Cardinality(1..k) = k
  BY <1>1, FS_Interval
<1>7. Cardinality(T) = k
  BY <1>5, <1>6, FS_Bijection DEF ExistsBijection
<1>8. T \in Training!kSubset(k, S)
  BY <1>4, <1>7, TrainingCardinality DEF Training!kSubset
<1> HIDE DEF T
<1>9. Training!Shuffled(k, S) \in Training!kSubset(k, S)
  BY <1>8 DEF Training!Shuffled
<1> QED
  BY <1>9 DEF Training!kSubset

LEMMA KeepFits ==
  ASSUME NEW n \in Nat
  PROVE  Training!Keep(n) \in 0..n /\ (n >= 1 => Training!GroupKeep(n) \in 0..n)
<1>1. KEEP \in 0..100
  BY TrainingAssumption
<1>2. PICK p \in Nat : p = n * KEEP
  BY <1>1
<1>3. p <= n * 100
  BY <1>1, <1>2
<1>4. p \div 100 \in 0..n
  BY <1>2, <1>3
<1>5. Training!Keep(n) \in 0..n
  BY <1>2, <1>4 DEF Training!Keep
<1> QED
  BY <1>5 DEF Training!GroupKeep

LEMMA SplitPart ==
  ASSUME NEW data, IsFiniteSet(data), Cardinality(data) >= 2
  PROVE  /\ Training!Shuffled(Training!Max({1, Training!Keep(Cardinality(data))}), data) \subseteq data
         /\ Training!Shuffled(Cardinality(data) - 1, data) \subseteq data
         /\ \A g \in SUBSET data : g # {} => Training!Shuffled(Training!GroupKeep(Cardinality(g)), g) \subseteq data
<1>1. Cardinality(data) \in Nat
  BY FS_CardinalityType
<1>2. PICK k : k = Training!Keep(Cardinality(data)) /\ k \in 0..Cardinality(data)
  BY <1>1, KeepFits
<1>3. Training!Max({1, k}) \in {1, k}
  <2>1. \E x \in {1, k} : \A y \in {1, k} : x >= y
    BY <1>2
  <2> QED
    BY <2>1 DEF Training!Max
<1>4. Training!Max({1, k}) \in 0..Cardinality(data) /\ Cardinality(data) - 1 \in 0..Cardinality(data)
  BY <1>1, <1>2, <1>3
<1>5. ASSUME NEW g \in SUBSET data, g # {}
      PROVE  Training!Shuffled(Training!GroupKeep(Cardinality(g)), g) \subseteq data
  <2>1. IsFiniteSet(g) /\ Cardinality(g) \in Nat /\ Cardinality(g) # 0
    BY <1>5, FS_Subset, FS_CardinalityType, FS_EmptySet
  <2>2. Training!GroupKeep(Cardinality(g)) \in 0..Cardinality(g)
    BY <2>1, KeepFits
  <2> QED
    BY <2>1, <2>2, ShuffledPart
<1> QED
  BY <1>2, <1>4, <1>5, ShuffledPart

\* A split of two rows or more has no record on both sides; one of a single row has it on both.
LEMMA SplitApart ==
  ASSUME NEW data, IsFiniteSet(data), Distinct(data), NEW kind
  PROVE  /\ Cardinality(data) >= 2 =>
               \A a \in Training!split_dataset(data, kind).train, b \in Training!split_dataset(data, kind).eval : a.id # b.id
         /\ Cardinality(data) < 2 => Training!split_dataset(data, kind).train = data
<1>1. Cardinality(data) \in Nat
  BY FS_CardinalityType
<1>2. Cardinality(data) >= 2 <=> ~(Training!Cardinality(data) < 2)
  BY <1>1, TrainingCardinality
<1>3. ASSUME NEW T \in SUBSET data
      PROVE  /\ \A a \in Training!Pair(T, data \ T).train, b \in Training!Pair(T, data \ T).eval : a.id # b.id
             /\ Training!Pair(data, T).train = data
  BY DEF Training!Pair, Distinct
<1>4. PICK T \in SUBSET data : Training!split_dataset(data, kind) =
                 IF Training!Cardinality(data) < 2 THEN Training!Pair(data, data) ELSE Training!Pair(T, data \ T)
  <2>0. CASE Training!Cardinality(data) < 2
    BY <2>0, Zenon DEF Training!split_dataset, Training!_shuffle_split_plain, Training!_shuffle_split_stratified
  <2>1. CASE kind = "llm" /\ Cardinality(data) >= 2
    <3>1. Training!split_dataset(data, kind) =
             LET T == Training!Shuffled(Training!Max({1, Training!Keep(Cardinality(data))}), data)
             IN Training!Pair(T, data \ T)
      BY <1>2, <2>1, TrainingCardinality DEF Training!split_dataset, Training!_shuffle_split_plain
    <3> QED
      BY <1>2, <2>1, <3>1, SplitPart
  <2>2. CASE kind # "llm" /\ Cardinality(data) >= 2
    <3> DEFINE groups == {{r \in data : r.stratum = s} : s \in {r.stratum : r \in data}}
               kept == UNION {Training!Shuffled(Training!GroupKeep(Cardinality(g)), g) : g \in groups}
    <3>1. \E T \in {kept, Training!Shuffled(Cardinality(data) - 1, data)} :
             Training!split_dataset(data, kind) = Training!Pair(T, data \ T)
      BY <1>2, <2>2, TrainingCardinality DEF Training!split_dataset, Training!_shuffle_split_stratified
    <3>2. \A g \in groups : g \subseteq data /\ g # {}
      OBVIOUS
    <3>3. kept \subseteq data
      <4> HIDE DEF groups
      <4>1. \A g \in groups : Training!Shuffled(Training!GroupKeep(Cardinality(g)), g) \subseteq data
        BY <2>2, <3>2, SplitPart
      <4> QED
        BY <4>1, Zenon
    <3> HIDE DEF kept
    <3> QED
      BY <1>2, <2>2, <3>1, <3>3, SplitPart
  <2> QED
    BY <1>1, <1>2, <2>0, <2>1, <2>2
<1>5. Cardinality(data) < 2 <=> Training!Cardinality(data) < 2
  BY TrainingCardinality
<1> QED
  BY <1>2, <1>3, <1>4, <1>5

\* What the export writes: too small a dataset gives way to the fixtures.
LEMMA EnoughApart ==
  ASSUME NEW data, IsFiniteSet(data), Distinct(data), NEW kind, ~Training!_needs_fallback(Training!split_dataset(data, kind))
  PROVE  Apart(Training!split_dataset(data, kind).train, Training!split_dataset(data, kind).eval)
<1>1. Cardinality(data) \in Nat /\ MIN_SAMPLES \in Nat
  BY FS_CardinalityType, TrainingAssumption
<1>2. CASE Cardinality(data) < 2
  <2>1. ~(Cardinality(data) < MIN_SAMPLES)
    BY <1>2, SplitApart, TrainingCardinality DEF Training!_needs_fallback
  <2> QED
    BY <1>1, <1>2, <2>1 DEF Apart
<1>3. CASE Cardinality(data) >= 2
  BY <1>3, SplitApart DEF Apart
<1> QED
  BY <1>1, <1>2, <1>3

LEMMA FixturesApart ==
  ASSUME NEW kind \in KindSet
  PROVE  Apart(Training!split_dataset(Fixtures[kind], kind).train, Training!split_dataset(Fixtures[kind], kind).eval)
<1>1. IsFiniteSet(Fixtures[kind]) /\ Cardinality(Fixtures[kind]) >= 2 /\ Distinct(Fixtures[kind])
  BY TrainingAssumption DEF KindSet, Distinct
<1> QED
  BY <1>1, SplitApart DEF Apart

LEMMA KindFacts ==
  /\ \A i \in 1..3 : Training!Kinds[i] \in KindSet
  /\ \A i, j \in 1..3 : Training!Kinds[i] = Training!Kinds[j] => i = j
  /\ Len(Training!Kinds) = 3
  /\ \A k \in KindSet, s \in {"train", "eval"} : <<"export", k, s>> \in Training!Files
<1>1. Training!Kinds[1] = "intent" /\ Training!Kinds[2] = "llm" /\ Training!Kinds[3] = "reranker"
  BY DEF Training!Kinds
<1>2. \A i \in 1..3 : i = 1 \/ i = 2 \/ i = 3
  OBVIOUS
<1>3. \A i \in 1..3 : Training!Kinds[i] \in KindSet
  BY <1>1, <1>2 DEF KindSet
<1>4. \A i, j \in 1..3 : Training!Kinds[i] = Training!Kinds[j] => i = j
  BY <1>1, <1>2
<1>5. Len(Training!Kinds) = 3 /\ DOMAIN Training!Kinds = 1..3
  BY DEF Training!Kinds
<1>6. KindSet \subseteq Training!Range(Training!Kinds)
  BY <1>1, <1>5 DEF Training!Range, KindSet
<1> QED
  BY <1>3, <1>4, <1>5, <1>6 DEF Training!Files, Training!Splits

-----------------------------------------------------------------------------
\* Steps that leave the files and the export alone, and steps of the trainers.

LEMMA FineSame ==
  ASSUME UNCHANGED <<export, exports, datasets>>, NEW t, NEW k, Fine(t, k)
  PROVE  Fine(t, k)'
BY DEF Fine, NotYet, SplitFile, Apart

LEMMA FilesSame ==
  ASSUME FilesInv, UNCHANGED <<export, exports, datasets>>
  PROVE  FilesInv'
BY DEF FilesInv, Fine, NotYet, SplitFile, Apart

\* A job ends: what it reports is what it did, and nothing else is changed.
LEMMA JobEnds ==
  ASSUME TrainingInv, NEW status, NEW more, Training!Ended(status, more),
         (status = "completed" /\ tjob.how = "lora" /\ tjob.dir = "export" /\ ~more.torn)
            => Apart(more.trained, more.measured),
         UNCHANGED <<logged, feedback, export, exports, datasets>>
  PROVE  TrainingInv'
<1> DEFINE x == [status |-> status, kind |-> tjob.kind, dir |-> tjob.dir, how |-> tjob.how, done |-> more]
<1>1. tjobs' = Append(tjobs, x) /\ tjob' = Training!NoJob
  BY DEF Training!Ended
<1>2. PICK S : tjobs \in Seq(S)
  BY DEF TrainingInv
<1>3. tjobs \in Seq(S \cup {x}) /\ x \in S \cup {x}
  BY <1>2
<1>4. tjobs' \in Seq(S \cup {x})
  BY <1>1, <1>3
<1>5. \A n \in DOMAIN tjobs' : (n \in DOMAIN tjobs /\ tjobs'[n] = tjobs[n]) \/ tjobs'[n] = x
  BY <1>1, <1>3
<1>6. Training!HeldOut'
  <2> SUFFICES ASSUME NEW n \in DOMAIN tjobs',
                      tjobs'[n].status = "completed", tjobs'[n].how = "lora", tjobs'[n].dir = "export",
                      ~tjobs'[n].done.torn, MIN_SAMPLES >= 2
               PROVE  \A a \in tjobs'[n].done.trained, b \in tjobs'[n].done.measured : a.id # b.id
    BY DEF Training!HeldOut
  <2>1. CASE n \in DOMAIN tjobs /\ tjobs'[n] = tjobs[n]
    BY <2>1 DEF TrainingInv, Training!HeldOut
  <2>2. CASE tjobs'[n] = x
    BY <2>2 DEF Apart
  <2> QED
    BY <1>5, <2>1, <2>2
<1>7. JobInv'
  BY <1>1 DEF JobInv, IsJob, Training!NoJob
<1>8. ExportInv' /\ FilesInv'
  BY FilesSame DEF TrainingInv, ExportInv, IsExport, Apart
<1> QED
  BY <1>4, <1>6, <1>7, <1>8 DEF TrainingInv

LEMMA JobFails ==
  ASSUME TrainingInv, Training!Fails, UNCHANGED <<logged, feedback, export, exports, datasets>>
  PROVE  TrainingInv'
<1>1. Training!Ended("failed", Training!Nothing)
  BY DEF Training!Fails
<1> QED
  BY <1>1, JobEnds

\* A job goes on: only what it holds changes.
LEMMA JobGoesOn ==
  ASSUME TrainingInv, JobInv', UNCHANGED <<logged, feedback, export, exports, datasets, tjobs>>
  PROVE  TrainingInv'
<1>1. ExportInv' /\ FilesInv'
  BY FilesSame DEF TrainingInv, ExportInv, IsExport, Apart
<1> QED
  BY <1>1 DEF TrainingInv, Training!HeldOut

LEMMA TrainStep ==
  ASSUME TrainingInv, NEW kind \in KindSet, Training!train(kind)
  PROVE  TrainingInv'
<1>1. PICK how \in Training!Ways(kind) :
         tjob' = [Training!NoJob EXCEPT !.at = "train_file", !.kind = kind, !.dir = "export", !.how = how]
  BY DEF Training!train
<1>2. IsJob(tjob)' /\ tjob'.at = "train_file" /\ tjob'.kind = kind /\ tjob'.how = how
  BY <1>1 DEF Training!NoJob, IsJob
<1>3. how = "lora" => kind # "llm"
  BY <1>1 DEF Training!Ways
<1>4. JobInv'
  BY <1>2, <1>3 DEF JobInv
<1> QED
  BY <1>4, JobGoesOn DEF Training!train

LEMMA LoadSteps ==
  ASSUME TrainingInv, Training!_load_dataset_train \/ Training!_load_dataset_eval
  PROVE  TrainingInv'
<1>0. UNCHANGED <<logged, feedback, export, exports, datasets>>
  BY DEF Training!_load_dataset_train, Training!_load_dataset_eval
<1>1. CASE Training!Fails
  BY <1>0, <1>1, JobFails
<1>2. CASE /\ tjob.at = "train_file" /\ UNCHANGED tjobs
           /\ tjob' = [tjob EXCEPT !.at = IF tjob.kind = "llm" THEN "fit" ELSE "eval_file",
                                   !.train = Training!Read("train")]
  <2>1. tjob.kind \in KindSet /\ (tjob.how = "lora" => tjob.kind # "llm")
    BY <1>2 DEF TrainingInv, JobInv
  <2>0. IsJob(tjob)
    BY DEF TrainingInv, JobInv
  <2>2. /\ IsJob(tjob)'
        /\ tjob'.at = IF tjob.kind = "llm" THEN "fit" ELSE "eval_file"
        /\ tjob'.kind = tjob.kind /\ tjob'.how = tjob.how /\ tjob'.dir = tjob.dir
        /\ tjob'.train = datasets[<<tjob.dir, tjob.kind, "train">>]
    BY <1>2, <2>0 DEF Training!Read, IsJob
  <2>3. tjob.dir = "export" => Fine(tjob.train, tjob.kind)'
    <3>1. PICK t, k : t = SplitFile(tjob.kind, "train") /\ k = tjob.kind
      OBVIOUS
    <3>2. Fine(t, k)
      BY <2>1, <3>1 DEF TrainingInv, FilesInv
    <3>3. Fine(t, k)'
      BY <1>0, <3>2, FineSame
    <3>4. tjob.dir = "export" => tjob'.train = t /\ tjob'.kind = k
      BY <2>2, <3>1 DEF SplitFile
    <3> QED
      BY <3>3, <3>4 DEF Fine
  <2>4. JobInv'
    BY <2>1, <2>2, <2>3 DEF JobInv
  <2> QED
    BY <1>0, <1>2, <2>4, JobGoesOn
<1>3. CASE /\ tjob.at = "eval_file" /\ UNCHANGED tjobs
           /\ tjob' = [tjob EXCEPT !.at = "fit", !.eval = Training!Read("eval")]
  <2>0. IsJob(tjob) /\ tjob.kind \in KindSet /\ (tjob.how = "lora" => tjob.kind # "llm")
    BY <1>3 DEF TrainingInv, JobInv
  <2>1. /\ IsJob(tjob)'
        /\ tjob'.at = "fit" /\ tjob'.train = tjob.train
        /\ tjob'.kind = tjob.kind /\ tjob'.how = tjob.how /\ tjob'.dir = tjob.dir
        /\ tjob'.eval = datasets[<<tjob.dir, tjob.kind, "eval">>]
    BY <1>3, <2>0 DEF Training!Read, IsJob
  <2>2. tjob.dir = "export" => Fine(tjob.train, tjob.kind)
    BY <1>3 DEF TrainingInv, JobInv
  <2>3. tjob.dir = "export" /\ tjob.train.by = tjob'.eval.by => Apart(tjob.train.rows, tjob'.eval.rows)
    BY <2>1, <2>2 DEF Fine, SplitFile
  <2>4. JobInv'
    BY <2>0, <2>1, <2>3 DEF JobInv, Apart
  <2> QED
    BY <1>0, <1>3, <2>4, JobGoesOn
<1> QED
  BY <1>1, <1>2, <1>3 DEF Training!_load_dataset_train, Training!_load_dataset_eval

LEMMA FitSteps ==
  ASSUME TrainingInv, Training!_train_lora \/ Training!_train_full \/ Training!_train_gpu
                        \/ Training!_train_mock \/ Training!save_adapter
  PROVE  TrainingInv'
<1>0. UNCHANGED <<logged, feedback, export, exports, datasets>>
  BY DEF Training!_train_lora, Training!_train_full, Training!_train_gpu, Training!_train_mock, Training!save_adapter
<1>1. CASE Training!Fails
  BY <1>0, <1>1, JobFails
<1>2. CASE tjob.how # "lora" /\ \E more : Training!Ended("completed", more)
  BY <1>0, <1>2, JobEnds
<1>3. CASE tjob.at = "save" /\ Training!Ended("completed", tjob.done)
  <2>1. (tjob.how = "lora" /\ tjob.dir = "export" /\ ~tjob.done.torn) => Apart(tjob.done.trained, tjob.done.measured)
    BY <1>3 DEF TrainingInv, JobInv
  <2> QED
    BY <1>0, <1>3, <2>1, JobEnds
<1>4. ASSUME NEW more, Training!Fitted(more), UNCHANGED tjobs, tjob.at = "fit",
             (tjob.how = "lora" /\ tjob.dir = "export" /\ ~more.torn) => Apart(more.trained, more.measured)
      PROVE  TrainingInv'
  <2>1. IsJob(tjob) /\ tjob.kind \in KindSet /\ (tjob.how = "lora" => tjob.kind # "llm")
    BY <1>4 DEF TrainingInv, JobInv
  <2>2. /\ IsJob(tjob)' /\ tjob'.at = "save" /\ tjob'.done = more
        /\ tjob'.kind = tjob.kind /\ tjob'.how = tjob.how /\ tjob'.dir = tjob.dir
    BY <1>4, <2>1 DEF Training!Fitted, IsJob
  <2>3. JobInv'
    BY <1>4, <2>1, <2>2 DEF JobInv, Apart
  <2> QED
    BY <1>0, <1>4, <2>3, JobGoesOn
<1>5. CASE Training!_train_lora
  <2> DEFINE more == [trained |-> tjob.train.rows, measured |-> tjob.eval.rows,
                      torn |-> tjob.train.by # tjob.eval.by, metric |-> Training!_extract_metrics]
  <2>1. CASE Training!Fitted(more) /\ UNCHANGED tjobs
    <3>1. (tjob.how = "lora" /\ tjob.dir = "export" /\ ~more.torn) => Apart(more.trained, more.measured)
      BY <1>5 DEF TrainingInv, JobInv, Training!_train_lora
    <3> QED
      BY <1>4, <1>5, <2>1, <3>1 DEF Training!_train_lora
  <2> QED
    BY <1>1, <1>5, <2>1 DEF Training!_train_lora
<1>6. CASE Training!_train_full \/ Training!_train_gpu
  BY <1>1, <1>2, <1>6 DEF Training!_train_full, Training!_train_gpu
<1>7. CASE Training!_train_mock
  <2>1. CASE Training!Fitted([Training!Nothing EXCEPT !.metric = 38]) /\ UNCHANGED tjobs
    BY <1>4, <1>7, <2>1 DEF Training!_train_mock
  <2> QED
    BY <1>1, <1>7, <2>1 DEF Training!_train_mock
<1>8. CASE Training!save_adapter
  BY <1>1, <1>3, <1>8 DEF Training!save_adapter
<1> QED
  BY <1>5, <1>6, <1>7, <1>8

-----------------------------------------------------------------------------
\* Steps of the export.

\* The record an export works on, and what it stays apart from.
LEMMA ExportRest ==
  ASSUME TrainingInv, ExportInv', FilesInv', UNCHANGED <<tjob, tjobs>>,
         \A t, k : k \in KindSet /\ Fine(t, k) => Fine(t, k)'
  PROVE  TrainingInv'
<1>1. JobInv'
  BY DEF TrainingInv, JobInv, IsJob, Apart
<1> QED
  BY <1>1 DEF TrainingInv, Training!HeldOut

LEMMA LogSteps ==
  ASSUME TrainingInv,
         \/ \E i \in DOMAIN Interactions : Training!log_interaction(i)
         \/ \E r \in FeedbackChoices : Training!log_feedback(r)
         \/ Training!rotate
         \/ UNCHANGED tvars
  PROVE  TrainingInv'
<1>1. UNCHANGED <<export, exports, datasets, tjob, tjobs>> /\ logged' \subseteq DOMAIN Interactions
  BY DEF Training!log_interaction, Training!log_feedback, Training!rotate, tvars, TrainingInv, ExportInv
<1>2. ExportInv'
  BY <1>1 DEF TrainingInv, ExportInv, IsExport, Apart
<1>3. FilesInv'
  BY <1>1, FilesSame DEF TrainingInv
<1> QED
  BY <1>1, <1>2, <1>3, FineSame, ExportRest

\* A new number: whatever there is, is older.
LEMMA NewNumber ==
  ASSUME TrainingInv, exports' = exports + 1, export'.at # "eval",
         UNCHANGED tjobs,
         \A k \in KindSet : SplitFile(k, "train")' = SplitFile(k, "train") /\ SplitFile(k, "eval")' = SplitFile(k, "eval")
  PROVE  /\ \A t, k : k \in KindSet /\ Fine(t, k) => Fine(t, k)'
         /\ \A k \in KindSet : /\ SplitFile(k, "eval").by' \in Nat /\ SplitFile(k, "eval").by' <= exports'
                               /\ NotYet(k, "eval")' => SplitFile(k, "eval").by' < exports'
<1>0. exports \in Nat /\ exports' \in Nat
  BY DEF TrainingInv, ExportInv
<1>1. ASSUME NEW t, NEW k \in KindSet, Fine(t, k) PROVE Fine(t, k)'
  <2>1. t.by \in Nat /\ t.by < exports'
    BY <1>0, <1>1 DEF Fine
  <2> QED
    BY <1>0, <1>1, <2>1 DEF Fine, Apart
<1>2. ASSUME NEW k \in KindSet
      PROVE  SplitFile(k, "eval").by' \in Nat /\ SplitFile(k, "eval").by' < exports'
  BY <1>0 DEF TrainingInv, FilesInv
<1> QED
  BY <1>0, <1>1, <1>2

LEMMA ExportStarts ==
  ASSUME TrainingInv, Training!export_datasets
  PROVE  TrainingInv'
<1> DEFINE M == Training!merge_feedback_into_interactions(logged, Training!read_jsonl_with_rotations(feedback))
<1>1. export' = [Training!NoExport EXCEPT !.at = "split", !.merged = M] /\ exports' = exports + 1
  BY DEF Training!export_datasets
<1>2. (\A m \in M : m.known => m.id \in logged) /\ Distinct(M)
  <2> DEFINE It(i) == Training!Item(i, logged, Training!read_jsonl_with_rotations(feedback))
  <2>1. \A m \in M : \E i : m = It(i)
    BY Zenon DEF Training!merge_feedback_into_interactions
  <2>2. \A i : It(i).id = i /\ It(i).known = (i \in logged)
    <3> SUFFICES ASSUME NEW i PROVE It(i).id = i /\ It(i).known = (i \in logged)
      OBVIOUS
    <3>1. PICK c, t : It(i) = [id |-> i, known |-> i \in logged, corrected |-> c, type |-> t]
      BY Zenon DEF Training!Item
    <3> HIDE DEF It
    <3> QED
      BY <3>1
  <2> HIDE DEF It, M
  <2>3. \A m \in M : m.known => m.id \in logged
    BY <2>1, <2>2
  <2>4. ASSUME NEW a \in M, NEW b \in M, a.id = b.id PROVE a = b
    <3>1. PICK i, j : a = It(i) /\ b = It(j)
      BY <2>1
    <3>2. i = j
      BY <2>2, <2>4, <3>1
    <3> QED
      BY <3>1, <3>2
  <2> QED
    BY <2>3, <2>4 DEF Distinct
<1> HIDE DEF M
<1>3. IsExport(export)' /\ export'.at = "split" /\ export'.kind = 1 /\ export'.merged = M
  BY <1>1 DEF Training!NoExport, IsExport
<1>4. UNCHANGED <<logged, datasets, tjob, tjobs>>
  BY DEF Training!export_datasets
<1>5. ExportInv'
  BY <1>1, <1>2, <1>3, <1>4 DEF TrainingInv, ExportInv
<1>6. /\ \A t, k : k \in KindSet /\ Fine(t, k) => Fine(t, k)'
      /\ \A k \in KindSet : /\ SplitFile(k, "eval").by' \in Nat /\ SplitFile(k, "eval").by' <= exports'
                            /\ NotYet(k, "eval")' => SplitFile(k, "eval").by' < exports'
  BY <1>1, <1>3, <1>4, NewNumber DEF SplitFile
<1>7. FilesInv'
  BY <1>4, <1>6 DEF TrainingInv, FilesInv, SplitFile
<1> QED
  BY <1>4, <1>5, <1>6, <1>7, ExportRest

\* The files of the ongoing export that are still to be written are those of the kinds after it.
LEMMA FineKept ==
  ASSUME UNCHANGED <<exports, datasets>>, export'.at # "eval",
         \A k \in KindSet : NotYet(k, "train")' => NotYet(k, "train"),
         NEW t, NEW k \in KindSet, Fine(t, k)
  PROVE  Fine(t, k)'
BY DEF Fine, SplitFile, Apart

LEMMA FilesKept ==
  ASSUME FilesInv, UNCHANGED <<exports, datasets>>, export'.at # "eval",
         \A k \in KindSet, s \in {"train", "eval"} : NotYet(k, s)' => NotYet(k, s)
  PROVE  FilesInv'
<1>1. \A k \in KindSet : NotYet(k, "train")' => NotYet(k, "train")
  OBVIOUS
<1>2. ASSUME NEW k \in KindSet PROVE Fine(SplitFile(k, "train"), k)'
  <2>1. PICK t : t = SplitFile(k, "train")
    OBVIOUS
  <2>2. Fine(t, k)
    BY <2>1 DEF FilesInv
  <2>3. Fine(t, k)' /\ SplitFile(k, "train")' = t
    BY <1>1, <2>1, <2>2, FineKept DEF SplitFile
  <2> QED
    BY <2>3 DEF Fine
<1> QED
  BY <1>2 DEF FilesInv, SplitFile

LEMMA ExportSplits ==
  ASSUME TrainingInv, Training!export_split
  PROVE  TrainingInv'
<1> DEFINE kind == Training!Kinds[export.kind]
           data == Training!Build(kind, export.merged)
           Write(s) == [export EXCEPT !.at = "train", !.train = s.train, !.eval = s.eval]
<1>0. UNCHANGED <<logged, exports, datasets, tjob, tjobs>> /\ export.at = "split"
  BY DEF Training!export_split
<1>1. kind \in KindSet /\ IsExport(export) /\ export.kind \in 1..3
  BY KindFacts DEF TrainingInv, ExportInv
<1>2. IsFiniteSet(data) /\ Distinct(data)
  BY <1>1, BuiltFinite, BuiltDistinct DEF TrainingInv, ExportInv
<1>3. \/ export' = Training!NoExport
      \/ \E D : export' = Write(Training!split_dataset(D, kind))
                /\ Apart(Training!split_dataset(D, kind).train, Training!split_dataset(D, kind).eval)
  <2>1. export' = IF ~Training!_needs_fallback(Training!split_dataset(data, kind))
                  THEN Write(Training!split_dataset(data, kind))
                  ELSE IF FALLBACK THEN Write(Training!split_dataset(Fixtures[kind], kind)) ELSE Training!NoExport
    BY DEF Training!export_split
  <2>2. ~Training!_needs_fallback(Training!split_dataset(data, kind)) =>
          Apart(Training!split_dataset(data, kind).train, Training!split_dataset(data, kind).eval)
    BY <1>2, EnoughApart
  <2>3. Apart(Training!split_dataset(Fixtures[kind], kind).train, Training!split_dataset(Fixtures[kind], kind).eval)
    BY <1>1, FixturesApart
  <2> HIDE DEF data, kind, Write
  <2> QED
    BY <2>1, <2>2, <2>3
<1>4. /\ IsExport(export)' /\ export'.kind \in 1..3
      /\ \/ export'.at = "idle" /\ export'.merged = {}
         \/ /\ export'.at = "train" /\ export'.merged = export.merged /\ export'.kind = export.kind
            /\ Apart(export'.train, export'.eval)
  <2>1. ASSUME export' = Training!NoExport
        PROVE  IsExport(export)' /\ export'.kind \in 1..3 /\ export'.at = "idle" /\ export'.merged = {}
    BY <2>1 DEF Training!NoExport, IsExport
  <2>2. ASSUME NEW x, export' = Write(x), Apart(x.train, x.eval)
        PROVE  /\ IsExport(export)' /\ export'.kind \in 1..3
               /\ export'.at = "train" /\ export'.merged = export.merged /\ export'.kind = export.kind
               /\ Apart(export'.train, export'.eval)
    BY <1>1, <2>2 DEF IsExport
  <2> HIDE DEF kind, Write
  <2> QED
    BY <1>3, <2>1, <2>2
<1>5. ExportInv'
  <2>1. export'.merged = {} \/ export'.merged = export.merged
    BY <1>4
  <2>2. Distinct(export.merged)'
    BY <2>1 DEF TrainingInv, ExportInv, Distinct
  <2> QED
    BY <1>0, <1>4, <2>2 DEF TrainingInv, ExportInv, Apart
<1>6. \A k \in KindSet, s \in {"train", "eval"} : NotYet(k, s)' => NotYet(k, s)
  BY <1>0, <1>4 DEF NotYet
<1>7. export'.at # "eval"
  BY <1>4
<1>8. FilesInv'
  BY <1>0, <1>6, <1>7, FilesKept DEF TrainingInv
<1>9. \A t, k : k \in KindSet /\ Fine(t, k) => Fine(t, k)'
  BY <1>0, <1>6, <1>7, FineKept
<1> QED
  BY <1>0, <1>5, <1>8, <1>9, ExportRest

LEMMA FineTunes ==
  ASSUME TrainingInv, Training!_fine_tune_with_lora
  PROVE  TrainingInv'
<1>1. /\ exports' = exports + 1 /\ UNCHANGED <<logged, export, tjobs>> /\ export.at = "idle"
      /\ tjob' = [Training!NoJob EXCEPT !.at = "train_file", !.kind = "reranker", !.dir = "ft", !.how = "lora"]
  BY DEF Training!_fine_tune_with_lora
<1>2. PICK a, b : datasets' = [datasets EXCEPT ![<<"ft", "reranker", "train">>] = a, ![<<"ft", "reranker", "eval">>] = b]
  BY DEF Training!_fine_tune_with_lora
<1>3. datasets = [f \in Training!Files |-> datasets[f]]
  BY DEF TrainingInv, FilesInv
<1>4. /\ datasets' = [f \in Training!Files |-> datasets'[f]]
      /\ \A k \in KindSet : /\ SplitFile(k, "train")' = SplitFile(k, "train")
                            /\ SplitFile(k, "eval")' = SplitFile(k, "eval")
  <2>1. datasets' = [f \in Training!Files |-> datasets'[f]]
    BY <1>2, <1>3
  <2>2. ASSUME NEW k \in KindSet, NEW s \in {"train", "eval"}
        PROVE  datasets'[<<"export", k, s>>] = datasets[<<"export", k, s>>]
    <3>1. PICK f : f = <<"export", k, s>>
      OBVIOUS
    <3>2. f \in Training!Files /\ f # <<"ft", "reranker", "train">> /\ f # <<"ft", "reranker", "eval">>
      BY <3>1, KindFacts
    <3> QED
      BY <1>2, <1>3, <3>1, <3>2
  <2> QED
    BY <2>1, <2>2 DEF SplitFile
<1>5. ExportInv'
  BY <1>1 DEF TrainingInv, ExportInv, IsExport, Apart
<1>6. /\ \A t, k : k \in KindSet /\ Fine(t, k) => Fine(t, k)'
      /\ \A k \in KindSet : /\ SplitFile(k, "eval").by' \in Nat /\ SplitFile(k, "eval").by' <= exports'
                            /\ NotYet(k, "eval")' => SplitFile(k, "eval").by' < exports'
  BY <1>1, <1>4, NewNumber
<1>7. ASSUME NEW k \in KindSet PROVE Fine(SplitFile(k, "train"), k)'
  <2>1. PICK t : t = SplitFile(k, "train")
    OBVIOUS
  <2>2. Fine(t, k)
    BY <2>1 DEF TrainingInv, FilesInv
  <2>3. Fine(t, k)' /\ SplitFile(k, "train")' = t
    BY <1>4, <1>6, <2>1, <2>2
  <2> QED
    BY <2>3 DEF Fine
<1>8. FilesInv'
  BY <1>4, <1>6, <1>7 DEF FilesInv
<1>9. JobInv'
  BY <1>1 DEF JobInv, IsJob, Training!NoJob, KindSet
<1> QED
  BY <1>1, <1>5, <1>8, <1>9 DEF TrainingInv, Training!HeldOut

\* One file of the export is written.
LEMMA FileWritten ==
  ASSUME TrainingInv, NEW split \in {"train", "eval"}, Training!_write_json(split), NEW k0, k0 = Training!Kinds[export.kind]
  PROVE  /\ k0 \in KindSet
         /\ datasets' = [f \in Training!Files |-> datasets'[f]]
         /\ SplitFile(k0, split)' = [by |-> exports, rows |-> export[split]]
         /\ \A k \in KindSet, s \in {"train", "eval"} : (k # k0 \/ s # split) => SplitFile(k, s)' = SplitFile(k, s)
<1> DEFINE new == [by |-> exports, rows |-> export[split]]
<1>1. datasets' = [datasets EXCEPT ![<<"export", k0, split>>] = new]
  BY DEF Training!_write_json
<1>2. datasets = [f \in Training!Files |-> datasets[f]] /\ k0 \in KindSet
  BY KindFacts DEF TrainingInv, ExportInv, FilesInv
<1> HIDE DEF new
<1>3. PICK f0 : f0 = <<"export", k0, split>>
  OBVIOUS
<1>4. f0 \in Training!Files
  BY <1>2, <1>3, KindFacts
<1>5. datasets' = [f \in Training!Files |-> datasets'[f]] /\ datasets'[f0] = new
  BY <1>1, <1>2, <1>3, <1>4
<1>6. ASSUME NEW k \in KindSet, NEW s \in {"train", "eval"}, k # k0 \/ s # split
      PROVE  datasets'[<<"export", k, s>>] = datasets[<<"export", k, s>>]
  <2>1. PICK f : f = <<"export", k, s>>
    OBVIOUS
  <2>2. f \in Training!Files /\ f # f0
    BY <1>3, <1>6, <2>1, KindFacts
  <2> QED
    BY <1>1, <1>2, <1>3, <2>1, <2>2
<1> QED
  BY <1>2, <1>3, <1>5, <1>6 DEF SplitFile, new

LEMMA TrainWritten ==
  ASSUME TrainingInv, Training!_write_json("train")
  PROVE  TrainingInv'
<1>0. UNCHANGED <<logged, exports, tjob, tjobs>> /\ export.at = "train" /\ export' = [export EXCEPT !.at = "eval"]
  BY DEF Training!_write_json
<1>1. PICK k0 : k0 = Training!Kinds[export.kind]
  OBVIOUS
<1>2. /\ k0 \in KindSet
      /\ datasets' = [f \in Training!Files |-> datasets'[f]]
      /\ SplitFile(k0, "train")' = [by |-> exports, rows |-> export.train]
      /\ \A k \in KindSet, s \in {"train", "eval"} : (k # k0 \/ s # "train") => SplitFile(k, s)' = SplitFile(k, s)
  BY <1>1, FileWritten
<1>3. /\ IsExport(export)' /\ export'.at = "eval" /\ export'.kind = export.kind /\ export.kind \in 1..3
      /\ export'.train = export.train /\ export'.eval = export.eval /\ export'.merged = export.merged
  BY <1>0 DEF TrainingInv, ExportInv, IsExport
<1>4. ExportInv'
  BY <1>0, <1>3 DEF TrainingInv, ExportInv, Apart
<1>5. \A k \in KindSet, s \in {"train", "eval"} : NotYet(k, s)' => NotYet(k, s)
  BY <1>0, <1>3 DEF NotYet
<1>6. NotYet(k0, "train") /\ NotYet(k0, "eval") /\ ~NotYet(k0, "train")'
  BY <1>0, <1>1, <1>3, KindFacts DEF NotYet
<1>7. exports \in Nat
  BY DEF TrainingInv, ExportInv
<1>8. ASSUME NEW t, NEW k \in KindSet, Fine(t, k) PROVE Fine(t, k)'
  <2>1. SplitFile(k, "eval")' = SplitFile(k, "eval")
    BY <1>2
  <2>2. k = k0 => t.by # exports
    BY <1>6, <1>7, <1>8 DEF Fine
  <2> QED
    BY <1>0, <1>1, <1>3, <1>5, <1>8, <2>1, <2>2 DEF Fine, Apart
<1>9. ASSUME NEW t, t = [by |-> exports, rows |-> export.train] PROVE Fine(t, k0)'
  <2>1. SplitFile(k0, "eval")' = SplitFile(k0, "eval")
    BY <1>2
  <2>2. SplitFile(k0, "eval").by < exports /\ SplitFile(k0, "eval").by \in Nat
    BY <1>2, <1>6 DEF TrainingInv, FilesInv
  <2>3. t.by = exports /\ t.rows = export.train
    BY <1>9
  <2>4. Apart(export.train, export.eval)
    BY <1>0 DEF TrainingInv, ExportInv
  <2> QED
    BY <1>0, <1>3, <1>6, <1>7, <2>1, <2>2, <2>3, <2>4 DEF Fine, Apart
<1>10. ASSUME NEW k \in KindSet PROVE Fine(SplitFile(k, "train"), k)'
  <2>1. PICK t : t = SplitFile(k, "train")'
    OBVIOUS
  <2>2. Fine(t, k)'
    <3>1. CASE k = k0
      BY <1>2, <1>9, <2>1, <3>1
    <3>2. CASE k # k0
      <4>1. t = SplitFile(k, "train")
        BY <1>2, <2>1, <3>2
      <4>2. Fine(t, k)
        BY <4>1 DEF TrainingInv, FilesInv
      <4> QED
        BY <1>8, <4>2
    <3> QED
      BY <3>1, <3>2
  <2> QED
    BY <2>1, <2>2 DEF Fine
<1>11. ASSUME NEW k \in KindSet
       PROVE  /\ SplitFile(k, "eval").by' \in Nat /\ SplitFile(k, "eval").by' <= exports'
              /\ NotYet(k, "eval")' => SplitFile(k, "eval").by' < exports'
  BY <1>0, <1>2, <1>5 DEF TrainingInv, FilesInv
<1>12. FilesInv'
  BY <1>2, <1>10, <1>11 DEF FilesInv
<1> QED
  BY <1>0, <1>4, <1>8, <1>12, ExportRest

LEMMA EvalWritten ==
  ASSUME TrainingInv, Training!_write_json("eval")
  PROVE  TrainingInv'
<1>0. /\ UNCHANGED <<logged, exports, tjob, tjobs>> /\ export.at = "eval"
      /\ export' = IF export.kind = Len(Training!Kinds) THEN Training!NoExport
                   ELSE [export EXCEPT !.at = "split", !.kind = @ + 1]
  BY DEF Training!_write_json
<1>1. PICK k0 : k0 = Training!Kinds[export.kind]
  OBVIOUS
<1>2. /\ k0 \in KindSet
      /\ datasets' = [f \in Training!Files |-> datasets'[f]]
      /\ SplitFile(k0, "eval")' = [by |-> exports, rows |-> export.eval]
      /\ \A k \in KindSet, s \in {"train", "eval"} : (k # k0 \/ s # "eval") => SplitFile(k, s)' = SplitFile(k, s)
  BY <1>1, FileWritten
<1>3. IsExport(export) /\ export.kind \in 1..3 /\ exports \in Nat
  BY DEF TrainingInv, ExportInv
<1>4. /\ IsExport(export)' /\ export'.kind \in 1..3
      /\ \/ export'.at = "idle" /\ export'.merged = {}
         \/ export'.at = "split" /\ export'.kind = export.kind + 1 /\ export'.merged = export.merged
  <2>1. CASE export.kind = 3
    <3>1. export' = Training!NoExport
      BY <1>0, <2>1, KindFacts
    <3> QED
      BY <3>1 DEF Training!NoExport, IsExport
  <2>2. CASE export.kind # 3
    <3>1. export' = [export EXCEPT !.at = "split", !.kind = @ + 1]
      BY <1>0, <2>2, KindFacts
    <3>2. /\ IsExport(export)' /\ export'.at = "split" /\ export'.kind = export.kind + 1
          /\ export'.merged = export.merged
      BY <1>3, <3>1 DEF IsExport
    <3>3. export.kind + 1 \in 1..3
      BY <1>3, <2>2
    <3> QED
      BY <3>2, <3>3
  <2> QED
    BY <2>1, <2>2
<1>5. ExportInv'
  <2>1. export'.merged = {} \/ export'.merged = export.merged
    BY <1>4
  <2>2. Distinct(export.merged)'
    BY <2>1 DEF TrainingInv, ExportInv, Distinct
  <2> QED
    BY <1>0, <1>4, <2>2 DEF TrainingInv, ExportInv
<1>6. \A k \in KindSet, s \in {"train", "eval"} : NotYet(k, s)' => NotYet(k, s)
  BY <1>0, <1>3, <1>4 DEF NotYet
<1>7. ~NotYet(k0, "eval")' /\ export'.at # "eval"
  BY <1>0, <1>1, <1>3, <1>4, KindFacts DEF NotYet
<1>8. ASSUME NEW t, NEW k \in KindSet, Fine(t, k) PROVE Fine(t, k)'
  <2>1. CASE k = k0
    <3>1. t.by = exports => Apart(t.rows, export.eval)
      BY <1>0, <1>1, <1>8, <2>1 DEF Fine
    <3>2. SplitFile(k, "eval").by' = exports /\ SplitFile(k, "eval").rows' = export.eval
      BY <1>2, <2>1
    <3> QED
      BY <1>0, <1>6, <1>7, <1>8, <3>1, <3>2 DEF Fine, Apart
  <2>2. CASE k # k0
    <3>1. SplitFile(k, "eval")' = SplitFile(k, "eval")
      BY <1>2, <2>2
    <3> QED
      BY <1>0, <1>6, <1>7, <1>8, <3>1 DEF Fine, Apart
  <2> QED
    BY <2>1, <2>2
<1>9. ASSUME NEW k \in KindSet PROVE Fine(SplitFile(k, "train"), k)'
  <2>1. PICK t : t = SplitFile(k, "train")
    OBVIOUS
  <2>2. Fine(t, k)
    BY <2>1 DEF TrainingInv, FilesInv
  <2>3. Fine(t, k)' /\ SplitFile(k, "train")' = t
    BY <1>2, <1>8, <2>1, <2>2
  <2> QED
    BY <2>3 DEF Fine
<1>10. ASSUME NEW k \in KindSet
       PROVE  /\ SplitFile(k, "eval").by' \in Nat /\ SplitFile(k, "eval").by' <= exports'
              /\ NotYet(k, "eval")' => SplitFile(k, "eval").by' < exports'
  <2>1. CASE k = k0
    <3>1. SplitFile(k, "eval").by' = exports
      BY <1>2, <2>1
    <3> QED
      BY <1>0, <1>3, <1>7, <2>1, <3>1
  <2>2. CASE k # k0
    BY <1>0, <1>2, <1>6, <2>2 DEF TrainingInv, FilesInv
  <2> QED
    BY <2>1, <2>2
<1>11. FilesInv'
  BY <1>2, <1>9, <1>10 DEF FilesInv
<1> QED
  BY <1>0, <1>5, <1>8, <1>11, ExportRest

LEMMA TrainingStep ==
  ASSUME TrainingInv, [Training!Next]_tvars
  PROVE  TrainingInv'
<1>1. CASE \/ \E i \in DOMAIN Interactions : Training!log_interaction(i)
           \/ \E r \in FeedbackChoices : Training!log_feedback(r)
           \/ Training!rotate
           \/ UNCHANGED tvars
  BY <1>1, LogSteps
<1>2. CASE Training!export_datasets \/ Training!export_split
  BY <1>2, ExportStarts, ExportSplits
<1>3. CASE \E split \in Training!Splits : Training!_write_json(split)
  BY <1>3, TrainWritten, EvalWritten DEF Training!Splits
<1>4. CASE Training!_fine_tune_with_lora
  BY <1>4, FineTunes
<1>5. CASE \E kind \in Training!Range(Training!Kinds) : Training!train(kind)
  <2>1. \A kind \in Training!Range(Training!Kinds) : kind \in KindSet
    BY DEF Training!Range, Training!Kinds, KindSet
  <2> QED
    BY <1>5, <2>1, TrainStep
<1>6. CASE Training!_load_dataset_train \/ Training!_load_dataset_eval
  BY <1>6, LoadSteps
<1>7. CASE \/ Training!_train_lora \/ Training!_train_full \/ Training!_train_gpu
           \/ Training!_train_mock \/ Training!save_adapter
  BY <1>7, FitSteps
<1> QED
  BY <1>1, <1>2, <1>3, <1>4, <1>5, <1>6, <1>7 DEF Training!Next

LEMMA TrainingStarts ==
  ASSUME Training!Init
  PROVE  TrainingInv
<1>1. /\ logged = {} /\ export = Training!NoExport /\ exports = 0 /\ datasets = [f \in Training!Files |-> Training!NoFile]
      /\ tjob = Training!NoJob /\ tjobs = <<>>
  BY DEF Training!Init
<1>2. ExportInv
  BY <1>1 DEF ExportInv, IsExport, Distinct, Training!NoExport
<1>3. \A k \in KindSet, s \in {"train", "eval"} : SplitFile(k, s).by = 0 /\ SplitFile(k, s).rows = {}
  BY <1>1, KindFacts DEF SplitFile, Training!NoFile
<1>4. FilesInv
  BY <1>1, <1>3 DEF FilesInv, Fine, NotYet, Apart, Training!NoExport
<1>5. JobInv
  BY <1>1 DEF JobInv, IsJob, Training!NoJob
<1> QED
  BY <1>1, <1>2, <1>4, <1>5 DEF TrainingInv, Training!HeldOut

\* No record is on both sides of a split that one export wrote and one job read, however the
\* exports, fine-tunings and jobs are interleaved, and whatever texts the records have: two that
\* have the same text may be split between the sides (export_training_datasets.py, slm_trainer.py,
\* reranker_trainer.py).
THEOREM SplitHeldOut == Spec => []HeldOut
<1>1. Init => TrainingInv
  BY TrainingStarts DEF Init
<1>2. TrainingInv /\ [Next]_vars => TrainingInv'
  <2>1. [Next]_vars => [Training!Next]_tvars
    BY DEF Next, vars
  <2> QED
    BY <2>1, TrainingStep
<1>3. TrainingInv => HeldOut
  BY DEF TrainingInv, HeldOut
<1> QED
  BY <1>1, <1>2, <1>3, PTL DEF Spec

-----------------------------------------------------------------------------
(* The gate.                                                               *)

\* The metrics of the reports, and those that are measured here.
MetricNames == (UNION {DOMAIN m : m \in Reports})
               \cup {"nli_entailment_rate", "nli_overall_score", "ragas_faithfulness", "ragas_relevancy"}
Metrics == UNION {[D -> Int] : D \in SUBSET MetricNames}
Verdict(m, b) == Gate!evaluate(m, b)
Verdicts == {Verdict(m, b) : m \in Metrics, b \in Metrics}

\* Every verdict is that of its own metrics against its own baseline, wherever they came from.
GateInv ==
  /\ production \in Metrics
  /\ results \in Seq(Verdicts)
  /\ \A a \in DOMAIN scored : scored[a] \in Int

LEMMA MetricsValues == \A m \in Metrics : \A k \in DOMAIN m : m[k] \in Int
<1> SUFFICES ASSUME NEW m \in Metrics, NEW k \in DOMAIN m PROVE m[k] \in Int
  OBVIOUS
<1>1. PICK D \in SUBSET MetricNames : m \in [D -> Int]
  BY DEF Metrics
<1> QED
  BY <1>1

\* A metric that is nowhere worse misses no threshold that the other meets, and regresses no more.
LEMMA BetterVerdict ==
  ASSUME NEW m \in Metrics, NEW w \in Metrics, NEW b \in Metrics, DOMAIN m = DOMAIN w,
         \A t \in Thresholds : t.metric \in DOMAIN m => Gate!Better(t, m[t.metric], w[t.metric])
  PROVE  Gate!Rank(Verdict(m, b).status) <= Gate!Rank(Verdict(w, b).status)
<1>0. \A k \in DOMAIN m : m[k] \in Int /\ w[k] \in Int
  BY MetricsValues
<1>1. ASSUME NEW s PROVE Gate!Missed(m, s) \subseteq Gate!Missed(w, s)
  <2> SUFFICES ASSUME NEW t \in Gate!Missed(m, s) PROVE t \in Gate!Missed(w, s)
    OBVIOUS
  <2>1. t \in Thresholds /\ t.severity = s /\ t.metric \in DOMAIN m /\ ~Gate!Passes(t, m[t.metric])
    BY DEF Gate!Missed
  <2>2. t.threshold \in Int /\ t.comparison \in {"gt", "gte", "lt", "lte"}
    BY <2>1, GateAssumption
  <2>3. PICK x \in Int, y \in Int : x = m[t.metric] /\ y = w[t.metric]
    BY <1>0, <2>1
  <2>4. Gate!Better(t, x, y) /\ ~Gate!Passes(t, x)
    BY <2>1, <2>3
  <2>5. ~Gate!Passes(t, y)
    <3>1. PICK h \in Int : h = t.threshold
      BY <2>2
    <3>2. CASE t.comparison = "gt"
      BY <2>4, <3>1, <3>2 DEF Gate!Better, Gate!Passes
    <3>3. CASE t.comparison = "gte"
      BY <2>4, <3>1, <3>3 DEF Gate!Better, Gate!Passes
    <3>4. CASE t.comparison = "lt"
      BY <2>4, <3>1, <3>4 DEF Gate!Better, Gate!Passes
    <3>5. CASE t.comparison = "lte"
      BY <2>4, <3>1, <3>5 DEF Gate!Better, Gate!Passes
    <3> QED
      BY <2>2, <3>2, <3>3, <3>4, <3>5
  <2> QED
    BY <2>1, <2>3, <2>5 DEF Gate!Missed
<1>2. Gate!Regressed(m, b) \subseteq Gate!Regressed(w, b)
  <2> SUFFICES ASSUME NEW t \in Gate!Regressed(m, b) PROVE t \in Gate!Regressed(w, b)
    OBVIOUS
  <2>1. /\ t \in Thresholds /\ t.severity = "fail" /\ TOLERANCE > 0
        /\ t.metric \in DOMAIN m /\ t.metric \in DOMAIN b
        /\ m[t.metric] - b[t.metric] < -TOLERANCE
    BY DEF Gate!Regressed, Gate!delta_metrics
  <2>2. t.comparison \in {"gt", "gte"} /\ TOLERANCE \in Int
    BY <2>1, GateAssumption
  <2>3. \A k \in DOMAIN b : b[k] \in Int
    BY MetricsValues
  <2>4. PICK x \in Int, y \in Int, z \in Int : x = m[t.metric] /\ y = w[t.metric] /\ z = b[t.metric]
    BY <1>0, <2>1, <2>3
  <2>5. x >= y
    BY <2>1, <2>2, <2>4 DEF Gate!Better
  <2>6. y - z < -TOLERANCE
    BY <2>1, <2>2, <2>4, <2>5
  <2> QED
    BY <2>1, <2>4, <2>6 DEF Gate!Regressed, Gate!delta_metrics
<1>3. Gate!Missed(m, "fail") \subseteq Gate!Missed(w, "fail") /\ Gate!Missed(m, "warn") \subseteq Gate!Missed(w, "warn")
  BY <1>1
<1> DEFINE fm == Gate!Missed(m, "fail") # {}
           fw == Gate!Missed(w, "fail") # {}
           wm == Gate!Missed(m, "warn") # {} \/ Gate!Regressed(m, b) # {} \/ (REQUIRE_BASELINE /\ DOMAIN b = {})
           ww == Gate!Missed(w, "warn") # {} \/ Gate!Regressed(w, b) # {} \/ (REQUIRE_BASELINE /\ DOMAIN b = {})
<1>5. Verdict(m, b).status = IF fm THEN "fail" ELSE IF wm THEN "warn" ELSE "pass"
  BY DEF Verdict, Gate!evaluate
<1>6. Verdict(w, b).status = IF fw THEN "fail" ELSE IF ww THEN "warn" ELSE "pass"
  BY DEF Verdict, Gate!evaluate
<1>7. (fm => fw) /\ (wm => ww)
  BY <1>2, <1>3
<1> HIDE DEF fm, fw, wm, ww
<1> QED
  BY <1>5, <1>6, <1>7 DEF Gate!Rank

\* The metrics that are merged into a report are numbers.
LEMMA MergedType ==
  ASSUME NEW m \in Metrics, NEW n \in Metrics
  PROVE  Gate!Merge(m, n) \in Metrics
<1>1. PICK D \in SUBSET MetricNames : m \in [D -> Int]
  BY DEF Metrics
<1>2. PICK E \in SUBSET MetricNames : n \in [E -> Int]
  BY DEF Metrics
<1>3. Gate!Merge(m, n) \in [D \cup E -> Int]
  BY <1>1, <1>2 DEF Gate!Merge
<1> QED
  BY <1>3 DEF Metrics

LEMMA ReportType == \A m \in Reports : m \in Metrics
<1> SUFFICES ASSUME NEW m \in Reports PROVE m \in Metrics
  OBVIOUS
<1>1. m \in [DOMAIN m -> Int] /\ DOMAIN m \in SUBSET MetricNames
  BY GateAssumption DEF MetricNames
<1> QED
  BY <1>1 DEF Metrics

LEMMA NoMetricsType == Gate!NoMetrics \in Metrics
<1>1. Gate!NoMetrics \in [{} -> Int]
  BY DEF Gate!NoMetrics
<1> QED
  BY <1>1 DEF Metrics

LEMMA GateCardinality == \A S : Gate!Cardinality(S) = Cardinality(S)
  BY DEF Gate!Cardinality, Cardinality

LEMMA CountType ==
  ASSUME NEW A \in SUBSET Answers, NEW model, NEW label
  PROVE  Gate!Count(A, model, label) \in Nat
<1> DEFINE P(a) == {a} \X Gate!Labelled(a, model, label)
           F == {P(a) : a \in A}
<1>1. IsFiniteSet(A)
  BY GateAssumption, FS_Subset
<1>2. ASSUME NEW a \in A PROVE IsFiniteSet(P(a))
  <2>1. a.claims \in Seq([truth : {"entailment", "neutral", "contradiction"}, overlap : Int])
    BY GateAssumption
  <2>2. IsFiniteSet(1..Len(a.claims)) /\ DOMAIN a.claims = 1..Len(a.claims)
    <3>1. PICK n : n = Len(a.claims)
      OBVIOUS
    <3>2. n \in Nat /\ DOMAIN a.claims = 1..n
      BY <2>1, <3>1, LenProperties
    <3>3. 1 \in Int /\ n \in Int
      BY <3>2
    <3>4. IsFiniteSet(1..n)
      BY <3>3, FS_Interval
    <3> QED
      BY <3>1, <3>2, <3>4
  <2>3. IsFiniteSet(Gate!Labelled(a, model, label))
    BY <2>2, FS_Subset DEF Gate!Labelled
  <2>4. IsFiniteSet({a})
    BY FS_Singleton
  <2> QED
    BY <2>3, <2>4, FS_Product
<1>3. IsFiniteSet(F)
  <2> DEFINE f == [a \in A |-> P(a)]
  <2>1. f \in Surjection(A, F)
    BY DEF Surjection
  <2> QED
    BY <1>1, <2>1, FS_Surjection DEF ExistsSurjection
<1>4. IsFiniteSet(UNION F)
  BY <1>2, <1>3, FS_UNION
<1> QED
  BY <1>4, FS_CardinalityType, GateCardinality DEF Gate!Count

LEMMA NliType ==
  ASSUME NEW A \in SUBSET Answers, NEW model
  PROVE  Gate!evaluate_nli_batch(A, model) \in Metrics
<1>1. PICK e \in Nat, c \in Nat, n \in Nat :
        /\ e = Gate!Count(A, model, "entailment")
        /\ c = Gate!Count(A, model, "contradiction")
        /\ n = Gate!Count(A, model, "neutral")
  BY CountType
<1> DEFINE all == e + c + n
           rate == IF all = 0 THEN 0 ELSE (100 * e) \div all
           score == (100 * e - 50 * c) \div all
           bounded == IF all = 0 \/ score < 0 THEN 0 ELSE IF score > 100 THEN 100 ELSE score
           r == [nli_entailment_rate |-> rate, nli_overall_score |-> bounded]
<1>2. Gate!evaluate_nli_batch(A, model) = r
  BY <1>1 DEF Gate!evaluate_nli_batch
<1>3. all \in Nat
  OBVIOUS
<1>4. rate \in Int
  <2>1. all # 0 => (100 * e) \div all \in Int
    OBVIOUS
  <2> QED
    BY <2>1
<1>5. bounded \in Int
  <2>1. all # 0 => score \in Int
    OBVIOUS
  <2> HIDE DEF score, all
  <2> QED
    BY <2>1
<1> HIDE DEF rate, bounded
<1>6. r \in [{"nli_entailment_rate", "nli_overall_score"} -> Int]
  BY <1>4, <1>5
<1>7. {"nli_entailment_rate", "nli_overall_score"} \in SUBSET MetricNames
  BY DEF MetricNames
<1> QED
  BY <1>2, <1>6, <1>7 DEF Metrics

LEMMA RagasType ==
  ASSUME NEW a \in Answers, NEW model, NEW s \in Int
  PROVE  [ragas_faithfulness |-> Gate!faithfulness_score(a, model), ragas_relevancy |-> s] \in Metrics
<1>1. Gate!faithfulness_score(a, model) \in Int
  <2>1. Gate!Count({a}, model, "entailment") \in Nat
    BY CountType
  <2>2. a.claims \in Seq([truth : {"entailment", "neutral", "contradiction"}, overlap : Int])
    BY GateAssumption
  <2>3. Len(a.claims) \in Nat /\ (a.claims # <<>> => Len(a.claims) > 0)
    BY <2>2, LenProperties, EmptySeq
  <2>4. a.claims # <<>> => (100 * Gate!Count({a}, model, "entailment")) \div Len(a.claims) \in Int
    BY <2>1, <2>3
  <2> QED
    BY <2>4 DEF Gate!faithfulness_score
<1>2. [ragas_faithfulness |-> Gate!faithfulness_score(a, model), ragas_relevancy |-> s]
        \in [{"ragas_faithfulness", "ragas_relevancy"} -> Int]
  BY <1>1
<1>3. {"ragas_faithfulness", "ragas_relevancy"} \in SUBSET MetricNames
  BY DEF MetricNames
<1> QED
  BY <1>2, <1>3 DEF Metrics

\* A verdict on metrics that are numbers is recorded.
LEMMA Recorded ==
  ASSUME GateInv, NEW m \in Metrics, Gate!Record(m)
  PROVE  results' \in Seq(Verdicts)
<1>1. Gate!evaluate(m, production) \in Verdicts
  BY DEF GateInv, Verdicts, Verdict
<1> QED
  BY <1>1 DEF GateInv, Gate!Record

LEMMA GateStep == GateInv /\ [Gate!Next]_gvars => GateInv'
<1> SUFFICES ASSUME GateInv, [Gate!Next]_gvars PROVE GateInv'
  OBVIOUS
<1>1. ASSUME NEW m \in Reports, NEW v \in {"candidate", "production"}, Gate!admin_models_evaluate(m, v)
      PROVE  GateInv'
  <2>1. m \in Metrics
    BY ReportType
  <2>2. results' \in Seq(Verdicts)
    BY <1>1, <2>1, Recorded DEF Gate!admin_models_evaluate
  <2> QED
    BY <1>1, <2>1, <2>2 DEF GateInv, Gate!admin_models_evaluate
<1>2. ASSUME NEW m \in Reports, NEW A \in SUBSET Answers, Gate!evaluate_with_nli(m, A)
      PROVE  GateInv'
  <2>1. PICK model : Gate!Record(IF A = {} THEN m ELSE Gate!Merge(m, Gate!evaluate_nli_batch(A, model)))
    BY <1>2 DEF Gate!evaluate_with_nli
  <2>2. (IF A = {} THEN m ELSE Gate!Merge(m, Gate!evaluate_nli_batch(A, model))) \in Metrics
    BY ReportType, NliType, MergedType
  <2>3. results' \in Seq(Verdicts)
    BY <2>1, <2>2, Recorded
  <2> QED
    BY <1>2, <2>3 DEF GateInv, Gate!evaluate_with_nli
<1>3. ASSUME NEW m \in Reports, NEW a \in Answers, Gate!evaluate_with_ragas(m, a)
      PROVE  GateInv'
  <2>1. PICK model :
          \/ Gate!Record(Gate!Merge(m, Gate!evaluate_nli_batch({a}, model))) /\ UNCHANGED scored
          \/ \E r \in Gate!answer_relevancy(a) :
               /\ scored' = Gate!Remember(a, r)
               /\ Gate!Record(Gate!Merge(Gate!Merge(m, [ragas_faithfulness |-> Gate!faithfulness_score(a, model),
                                                        ragas_relevancy |-> r]),
                                         Gate!evaluate_nli_batch({a}, model)))
    BY <1>3 DEF Gate!evaluate_with_ragas
  <2>0. m \in Metrics /\ Gate!evaluate_nli_batch({a}, model) \in Metrics
    BY ReportType, NliType
  <2>2. CASE Gate!Record(Gate!Merge(m, Gate!evaluate_nli_batch({a}, model))) /\ UNCHANGED scored
    <3>1. results' \in Seq(Verdicts)
      BY <2>0, <2>2, MergedType, Recorded
    <3> QED
      BY <1>3, <2>2, <3>1 DEF GateInv, Gate!evaluate_with_ragas
  <2>3. ASSUME NEW r \in Gate!answer_relevancy(a), scored' = Gate!Remember(a, r),
               Gate!Record(Gate!Merge(Gate!Merge(m, [ragas_faithfulness |-> Gate!faithfulness_score(a, model),
                                                        ragas_relevancy |-> r]),
                                         Gate!evaluate_nli_batch({a}, model)))
        PROVE  GateInv'
    <3>1. r \in Int
      BY GateAssumption DEF GateInv, Gate!answer_relevancy
    <3>2. [ragas_faithfulness |-> Gate!faithfulness_score(a, model), ragas_relevancy |-> r] \in Metrics
      BY <3>1, RagasType
    <3>3. results' \in Seq(Verdicts)
      BY <2>0, <2>3, <3>2, MergedType, Recorded
    <3>4. \A x \in DOMAIN scored' : scored'[x] \in Int
      BY <2>3, <3>1 DEF GateInv, Gate!Remember
    <3> QED
      BY <1>3, <3>3, <3>4 DEF GateInv, Gate!evaluate_with_ragas
  <2> QED
    BY <2>1, <2>2, <2>3
<1>4. ASSUME NEW n \in DOMAIN results, Gate!promote(n) PROVE GateInv'
  <2>1. results[n] \in Verdicts
    BY DEF GateInv
  <2>2. results[n].metrics \in Metrics
    BY <2>1 DEF Verdicts, Verdict, Gate!evaluate
  <2> QED
    BY <1>4, <2>2 DEF GateInv, Gate!promote
<1>5. CASE UNCHANGED gvars
  BY <1>5 DEF GateInv, gvars
<1> QED
  BY <1>1, <1>2, <1>3, <1>4, <1>5 DEF Gate!Next

LEMMA GateHolds == GateInv => Gate!GateMonotone
<1> SUFFICES ASSUME GateInv, NEW i \in DOMAIN results, NEW j \in DOMAIN results,
                    results[i].baseline = results[j].baseline,
                    DOMAIN results[i].metrics = DOMAIN results[j].metrics,
                    \A t \in Thresholds : t.metric \in DOMAIN results[i].metrics =>
                       Gate!Better(t, results[i].metrics[t.metric], results[j].metrics[t.metric])
             PROVE  Gate!Rank(results[i].status) <= Gate!Rank(results[j].status)
  BY DEF Gate!GateMonotone
<1>1. results[i] \in Verdicts /\ results[j] \in Verdicts
  BY DEF GateInv
<1>2. PICK m \in Metrics, b \in Metrics : results[i] = Verdict(m, b)
  BY <1>1 DEF Verdicts
<1>3. PICK w \in Metrics, c \in Metrics : results[j] = Verdict(w, c)
  BY <1>1 DEF Verdicts
<1>4. results[i].metrics = m /\ results[i].baseline = b /\ results[j].metrics = w /\ results[j].baseline = c
  BY <1>2, <1>3 DEF Verdict, Gate!evaluate
<1> QED
  BY <1>2, <1>3, <1>4, BetterVerdict

\* The gate judges alike whatever it is fed: of two evaluations against one baseline that
\* measured the same metrics, the one that is nowhere worse has no lower verdict, for any
\* thresholds of which those that fail a version are lower bounds, any reports, answers and
\* tolerance (eval_gate.py).
THEOREM GateIsMonotone == Spec => []GateMonotone
<1>1. Init /\ focus = "gate" => GateInv
  <2>1. Gate!Init => GateInv
    BY ReportType, NoMetricsType DEF Gate!Init, GateInv, Gate!NoMetrics
  <2> QED
    BY <2>1 DEF Init
<1>2. [Next]_vars /\ focus = "gate" => [Gate!Next]_gvars /\ (focus = "gate")'
  BY DEF Next, vars, gvars
<1>3. [Next]_vars /\ ~(focus = "gate") => ~(focus = "gate")'
  BY DEF Next, vars
<1>4. (focus = "gate" => GateInv) => GateMonotone
  BY GateHolds DEF GateMonotone
<1>5. (focus = "gate" => GateInv) /\ [Next]_vars => (focus = "gate" => GateInv)'
  BY <1>2, <1>3, GateStep
<1> QED
  BY <1>1, <1>4, <1>5, PTL DEF Spec

-----------------------------------------------------------------------------
(* The local model's server.                                               *)

ServerStates == {"starting", "ready", "dead"}
Places == {"idle", "local", "remote", "none", "post", "enter", "launch", "own", "other",
           "own_sleeps", "other_sleeps", "reset"}
Askers == [at : Places, task : Slm!Tasks \cup {"none"}, seen : Nat]

\* A call has a task, and the process that generate found dead is dead.
Asks(x) ==
  /\ x \in Askers
  /\ x.at # "idle" => x.task \in Slm!Tasks
  /\ x.at = "reset" => x.seen \in DOMAIN servers /\ servers[x.seen] = "dead"

Owned == Slm!Alive \subseteq {process}
Useful == \A r \in replied : r.reply = "" => r.result \in {"unknown", "query", "words"}

\* self._process is the only server that may be alive, unless an unlocked reset dropped one;
\* after atexit no thread is left to start another.
SlmInv ==
  /\ servers \in Seq(ServerStates) /\ process \in 0..Len(servers) /\ mode \in Modes
  /\ sthread \in [Threads -> Askers]
  /\ lost \in BOOLEAN
  /\ \A t \in Threads : Asks(sthread[t])
  /\ lost \/ Owned
  /\ exited => (\A t \in Threads : sthread[t].at = "idle") /\ (lost \/ Slm!Alive = {})
  /\ Useful

SlmAssumed == Modes \subseteq {"local", "remote", "none"}

\* The callers of generate have something to go on with when there is no reply.
LEMMA ReturnUseful ==
  ASSUME SlmInv, NEW t \in Threads, sthread[t].at # "idle", NEW reply, Slm!Return(t, reply)
  PROVE  Useful' /\ sthread' = [sthread EXCEPT ![t] = Slm!Idle]
<1>1. sthread[t].task \in Slm!Tasks
  BY DEF SlmInv, Asks
<1>2. PICK k \in {"classify", "decompose", "rewrite", "entities"} : sthread[t].task = k
  BY <1>1 DEF Slm!Tasks
<1>3. replied' = {[task |-> k, reply |-> reply, result |-> Slm!ResultOf(k, reply)]}
  BY <1>2 DEF Slm!Return
<1>4. Slm!ResultOf(k, "") \in {"unknown", "query", "words"}
  BY <1>2 DEF Slm!ResultOf, Slm!classify_intent, Slm!decompose_query, Slm!rewrite_query_slm,
     Slm!extract_entities_slm
<1>5. reply = "" => Slm!ResultOf(k, reply) = Slm!ResultOf(k, "")
  OBVIOUS
<1> HIDE DEF Slm!ResultOf
<1>6. \A r \in replied' : r.reply = reply /\ r.result = Slm!ResultOf(k, reply)
  BY <1>3
<1> QED
  BY <1>4, <1>5, <1>6 DEF Useful, Slm!Return

LEMMA AsksIdle == Asks(Slm!Idle)
  BY DEF Asks, Slm!Idle, Askers, Places, Slm!Tasks

\* A thread moves, and servers are started or die meanwhile but do not come back.
LEMMA ThreadsStay ==
  ASSUME SlmInv, NEW t \in Threads, NEW x, sthread' = [sthread EXCEPT ![t] = x], Asks(x)',
         servers' \in Seq(ServerStates),
         \A i \in DOMAIN servers : i \in DOMAIN servers' /\ (servers[i] = "dead" => servers'[i] = "dead")
  PROVE  sthread' \in [Threads -> Askers] /\ \A u \in Threads : Asks(sthread[u])'
<1>1. x \in Askers
  BY DEF Asks, Askers, Places, Slm!Tasks
<1>2. sthread' \in [Threads -> Askers]
  BY <1>1 DEF SlmInv
<1>3. ASSUME NEW u \in Threads PROVE Asks(sthread[u])'
  <2>1. CASE u = t
    <3>1. sthread'[u] = x
      BY <2>1 DEF SlmInv
    <3> QED
      BY <3>1 DEF Asks
  <2>2. CASE u # t
    <3>1. sthread'[u] = sthread[u] /\ Asks(sthread[u])
      BY <2>2 DEF SlmInv
    <3> QED
      BY <3>1 DEF Asks, Askers, Places, Slm!Tasks
  <2> QED
    BY <2>1, <2>2
<1> QED
  BY <1>2, <1>3

\* The steps of a thread that leave servers and process alone.
LEMMA SlmThreadStep ==
  ASSUME SlmInv, NEW t \in Threads, ~exited, NEW x, Asks(x), Useful',
         sthread' = [sthread EXCEPT ![t] = x], UNCHANGED <<mode, servers, process, exited, lost>>
  PROVE  SlmInv'
<1>1. Asks(x)'
  BY DEF Asks, Askers, Places, Slm!Tasks
<1>2. sthread' \in [Threads -> Askers] /\ \A u \in Threads : Asks(sthread[u])'
  BY <1>1, ThreadsStay DEF SlmInv
<1>3. Slm!Alive' = Slm!Alive
  BY DEF Slm!Alive
<1> QED
  BY <1>2, <1>3 DEF SlmInv, Owned, Askers, Places, Slm!Tasks, ServerStates

\* A thread that is in a call, and where it may go with the same task.
LEMMA AsksOn ==
  ASSUME SlmInv, NEW t \in Threads, sthread[t].at # "idle", NEW place \in Places \ {"idle", "reset"}
  PROVE  ~exited /\ Asks([sthread[t] EXCEPT !.at = place])
<1>1. sthread[t] \in Askers /\ sthread[t].task \in Slm!Tasks
  BY DEF SlmInv, Asks
<1>2. LET x == [sthread[t] EXCEPT !.at = place] IN x \in Askers /\ x.task = sthread[t].task /\ x.at = place
  BY <1>1 DEF Askers
<1> QED
  BY <1>1, <1>2 DEF SlmInv, Asks

LEMMA GotoKeeps ==
  ASSUME SlmInv, NEW t \in Threads, sthread[t].at # "idle", NEW place \in Places \ {"idle", "reset"},
         Slm!Goto(t, place), UNCHANGED <<mode, servers, process, exited, lost>>
  PROVE  SlmInv'
<1>1. sthread' = [sthread EXCEPT ![t] = [sthread[t] EXCEPT !.at = place]] /\ UNCHANGED replied
  BY DEF Slm!Goto, SlmInv
<1>2. Useful'
  BY <1>1 DEF SlmInv, Useful
<1> QED
  BY <1>1, <1>2, AsksOn, SlmThreadStep

LEMMA ReturnKeeps ==
  ASSUME SlmInv, NEW t \in Threads, sthread[t].at # "idle", NEW reply, Slm!Return(t, reply),
         UNCHANGED <<mode, servers, process, exited, lost>>
  PROVE  SlmInv'
<1>1. ~exited
  BY DEF SlmInv
<1> QED
  BY <1>1, ReturnUseful, AsksIdle, SlmThreadStep

\* The steps that touch no server.
LEMMA SlmCallSteps ==
  ASSUME SlmAssumed, SlmInv, NEW t \in Threads,
         \/ \E k \in Slm!Tasks : Slm!_call_slm_sync(t, k)
         \/ \E r \in Slm!Replies : Slm!remote(t, r) \/ Slm!generate(t, r)
         \/ Slm!check(t) \/ Slm!enter(t) \/ Slm!wait(t) \/ Slm!relock(t)
  PROVE  SlmInv'
<1>1. ASSUME NEW k \in Slm!Tasks, Slm!_call_slm_sync(t, k) PROVE SlmInv'
  <2> DEFINE x == [at |-> mode, task |-> k, seen |-> 0]
  <2>1. /\ ~exited /\ sthread' = [sthread EXCEPT ![t] = x]
        /\ UNCHANGED <<mode, servers, process, replied, exited, lost>>
    BY <1>1 DEF Slm!_call_slm_sync
  <2>2. mode \in {"local", "remote", "none"}
    BY DEF SlmAssumed, SlmInv
  <2>3. Asks(x)
    BY <2>2 DEF Asks, Askers, Places
  <2>4. Useful'
    BY <2>1 DEF SlmInv, Useful
  <2> HIDE DEF x
  <2> QED
    BY <2>1, <2>3, <2>4, SlmThreadStep
<1>2. ASSUME NEW r \in Slm!Replies, Slm!remote(t, r) PROVE SlmInv'
  BY <1>2, ReturnKeeps DEF Slm!remote
<1>3. ASSUME NEW r \in Slm!Replies, Slm!generate(t, r) PROVE SlmInv'
  <2>1. sthread[t].at = "post" /\ UNCHANGED <<mode, servers, process, exited, lost>>
    BY <1>3 DEF Slm!generate
  <2>2. CASE \E reply : Slm!Return(t, reply)
    BY <2>1, <2>2, ReturnKeeps
  <2>3. CASE /\ process # 0 /\ process \notin Slm!Alive
             /\ sthread' = [sthread EXCEPT ![t].at = "reset", ![t].seen = process] /\ UNCHANGED replied
    <3>1. sthread[t] \in Askers /\ sthread[t].task \in Slm!Tasks /\ ~exited
      BY <2>1 DEF SlmInv, Asks
    <3>2. process \in Nat /\ process \in DOMAIN servers /\ servers[process] = "dead"
      BY <2>3 DEF SlmInv, Slm!Alive
    <3> DEFINE x == [sthread[t] EXCEPT !.at = "reset", !.seen = process]
    <3>3. sthread' = [sthread EXCEPT ![t] = x]
      BY <2>3 DEF SlmInv
    <3>4. x \in Askers /\ x.at = "reset" /\ x.seen = process /\ x.task = sthread[t].task
      BY <3>1, <3>2 DEF Askers, Places
    <3> HIDE DEF x
    <3>5. Asks(x)
      BY <3>1, <3>4, <3>2 DEF Asks
    <3>6. Useful'
      BY <2>3 DEF SlmInv, Useful
    <3> QED
      BY <2>1, <3>1, <3>3, <3>5, <3>6, SlmThreadStep
  <2> QED
    BY <1>3, <2>2, <2>3 DEF Slm!generate
<1>4. CASE Slm!check(t)
  <2>1. \E place \in {"post", "enter"} : Slm!Goto(t, place)
    BY <1>4 DEF Slm!check
  <2> QED
    BY <1>4, <2>1, GotoKeeps DEF Slm!check, Places
<1>5. CASE Slm!enter(t)
  <2>1. \E place \in {"post", "launch"} : Slm!Goto(t, place)
    BY <1>5 DEF Slm!enter
  <2> QED
    BY <1>5, <2>1, GotoKeeps DEF Slm!enter, Places
<1>6. CASE Slm!wait(t)
  <2>1. \/ Slm!Return(t, "")
        \/ \E place \in {"post", "own_sleeps", "other_sleeps"} : Slm!Goto(t, place)
    BY <1>6 DEF Slm!wait
  <2> QED
    BY <1>6, <2>1, GotoKeeps, ReturnKeeps DEF Slm!wait, Places
<1>7. CASE Slm!relock(t)
  <2>1. \E place \in {"own", "other"} : Slm!Goto(t, place)
    BY <1>7 DEF Slm!relock
  <2> QED
    BY <1>7, <2>1, GotoKeeps DEF Slm!relock, Places
<1> QED
  BY <1>1, <1>2, <1>3, <1>4, <1>5, <1>6, <1>7

LEMMA ZeroBound == \A n \in Nat : 0 \in 0..n
  OBVIOUS

\* self._process is set to None by a thread that returns: harmless if nothing was alive.
LEMMA DropKeeps ==
  ASSUME SlmInv, NEW t \in Threads, sthread[t].at # "idle", Slm!Return(t, ""), process' = 0,
         UNCHANGED <<mode, servers, exited>>, lost' \in BOOLEAN, lost' \/ Slm!Alive = {}
  PROVE  SlmInv'
<1>1. Useful' /\ sthread' = [sthread EXCEPT ![t] = Slm!Idle] /\ ~exited
  BY ReturnUseful DEF SlmInv
<1>2. Asks(Slm!Idle)'
  BY DEF Asks, Slm!Idle, Askers, Places, Slm!Tasks
<1>3. servers' \in Seq(ServerStates) /\ process' \in 0..Len(servers') /\ Slm!Alive' = Slm!Alive
  <2>0. servers' = servers
    OBVIOUS
  <2>1. servers' = servers /\ servers \in Seq(ServerStates) /\ Len(servers) \in Nat
    <3>1. servers \in Seq(ServerStates)
      BY DEF SlmInv
    <3>2. Len(servers) \in Nat
      BY <3>1, LenProperties
    <3> QED
      BY <2>0, <3>1, <3>2
  <2>2. Slm!Alive' = Slm!Alive
    BY <2>1 DEF Slm!Alive
  <2>3. process' \in 0..Len(servers')
    <3>1. process' = 0 /\ Len(servers') \in Nat
      BY <2>1
    <3> QED
      BY <3>1, ZeroBound, Zenon
  <2> QED
    BY <2>1, <2>2, <2>3
<1>4. sthread' \in [Threads -> Askers] /\ \A u \in Threads : Asks(sthread[u])'
  BY <1>1, <1>2, <1>3, ThreadsStay
<1>5. lost' \/ Owned'
  BY <1>3 DEF Owned
<1> QED
  BY <1>1, <1>3, <1>4, <1>5 DEF SlmInv, Askers, Places, Slm!Tasks, ServerStates

\* _shutdown stops the process it knows.
LEMMA ShutdownStops ==
  ASSUME SlmInv, Slm!_shutdown
  PROVE  /\ servers' \in Seq(ServerStates) /\ process' = 0
         /\ Slm!Alive' \subseteq Slm!Alive \ {process}
         /\ \A i \in DOMAIN servers :
              i \in DOMAIN servers' /\ (servers[i] = "dead" => servers'[i] = "dead")
<1>1. /\ process' = 0
      /\ servers' = [i \in DOMAIN servers |-> IF i = process THEN "dead" ELSE servers[i]]
  BY DEF Slm!_shutdown
<1>2. servers \in Seq(ServerStates) /\ Len(servers) \in Nat /\ DOMAIN servers = 1..Len(servers)
  BY DEF SlmInv
<1>3. servers' \in [1..Len(servers) -> ServerStates]
  BY <1>1, <1>2 DEF ServerStates
<1>4. servers' \in Seq(ServerStates)
  BY <1>2, <1>3
<1> QED
  BY <1>1, <1>2, <1>4 DEF Slm!Alive

\* A server is started or stopped under the lock, or reset without it.
LEMMA SlmServerSteps ==
  ASSUME SlmInv, NEW t \in Threads,
         Slm!launch(t) \/ Slm!launch_fails(t) \/ Slm!timeout(t) \/ Slm!reset(t)
  PROVE  SlmInv'
<1>0. servers \in Seq(ServerStates) /\ Len(servers) \in Nat /\ process \in 0..Len(servers) /\ lost \in BOOLEAN
  BY DEF SlmInv
<1>1. CASE Slm!launch(t) /\ process \in Slm!Alive
  <2>1. Slm!Goto(t, "other") /\ UNCHANGED <<mode, servers, process, exited, lost>>
    BY <1>1 DEF Slm!launch
  <2> QED
    BY <1>1, <2>1, GotoKeeps DEF Slm!launch, Places
<1>2. CASE Slm!launch(t) /\ process \notin Slm!Alive
  <2>1. /\ sthread[t].at = "launch" /\ Slm!Goto(t, "own") /\ UNCHANGED <<mode, exited, lost>>
        /\ servers' = Append(servers, "starting") /\ process' = Len(servers) + 1
    BY <1>2 DEF Slm!launch
  <2>2. /\ servers' \in Seq(ServerStates) /\ Len(servers') = Len(servers) + 1
        /\ \A i \in DOMAIN servers : i \in DOMAIN servers' /\ servers'[i] = servers[i]
        /\ servers'[Len(servers) + 1] = "starting"
    BY <1>0, <2>1 DEF ServerStates
  <2>3. sthread' = [sthread EXCEPT ![t] = [sthread[t] EXCEPT !.at = "own"]] /\ UNCHANGED replied
    BY <2>1 DEF Slm!Goto, SlmInv
  <2>4. PICK x : x = [sthread[t] EXCEPT !.at = "own"]
    OBVIOUS
  <2>5. ~exited /\ Asks(x) /\ x.at = "own"
    <3>1. "own" \in Places \ {"idle", "reset"}
      BY DEF Places
    <3>2. ~exited /\ Asks(x)
      BY <2>1, <2>4, <3>1, AsksOn
    <3> QED
      BY <2>4, <3>2 DEF SlmInv, Askers
  <2>6. Asks(x)'
    BY <2>5 DEF Asks, Askers, Places, Slm!Tasks
  <2>7. sthread' \in [Threads -> Askers] /\ \A u \in Threads : Asks(sthread[u])'
    BY <2>2, <2>3, <2>4, <2>6, ThreadsStay
  <2>8. lost \/ Slm!Alive' \subseteq {process'}
    <3>1. ASSUME ~lost, NEW i \in Slm!Alive' PROVE i = process'
      <4>1. Slm!Alive = {}
        BY <1>2, <3>1 DEF SlmInv, Owned
      <4>2. i \in DOMAIN servers' /\ servers'[i] # "dead"
        BY DEF Slm!Alive
      <4>3. i \in 1..(Len(servers) + 1) /\ DOMAIN servers = 1..Len(servers)
        BY <1>0, <2>2, <4>2
      <4>4. i \notin DOMAIN servers
        BY <2>2, <4>1, <4>2 DEF Slm!Alive
      <4> QED
        BY <1>0, <2>1, <4>3, <4>4
    <3> QED
      BY <3>1
  <2>9. Useful'
    BY <2>3 DEF SlmInv, Useful
  <2>10. process' \in 0..Len(servers')
    BY <1>0, <2>1, <2>2
  <2>11. lost' \/ Owned'
    BY <2>1, <2>8 DEF Owned
  <2> QED
    BY <1>0, <2>1, <2>2, <2>5, <2>7, <2>9, <2>10, <2>11
       DEF SlmInv, Askers, Places, Slm!Tasks, ServerStates
<1>3. CASE Slm!launch_fails(t)
  <2>1. /\ sthread[t].at = "launch" /\ process \notin Slm!Alive /\ process' = 0 /\ Slm!Return(t, "")
        /\ UNCHANGED <<mode, servers, exited, lost>>
    BY <1>3 DEF Slm!launch_fails
  <2> QED
    BY <2>1, DropKeeps DEF SlmInv, Owned
<1>4. CASE Slm!reset(t)
  <2>1. /\ sthread[t].at = "reset" /\ process' = 0 /\ Slm!Return(t, "") /\ UNCHANGED <<mode, servers, exited>>
        /\ lost' = (lost \/ process \notin {0, sthread[t].seen})
    BY <1>4 DEF Slm!reset
  <2>2. servers[sthread[t].seen] = "dead"
    BY <2>1 DEF SlmInv, Asks
  <2>3. process \in {0, sthread[t].seen} => process \notin Slm!Alive
    BY <1>0, <2>2 DEF Slm!Alive
  <2>4. lost' \in BOOLEAN
    BY <1>0, <2>1
  <2>5. lost' \/ (~lost /\ Slm!Alive = {})
    BY <1>0, <2>1, <2>3 DEF SlmInv, Owned
  <2> QED
    BY <2>1, <2>4, <2>5, DropKeeps
<1>5. CASE Slm!timeout(t) /\ sthread[t].at = "own"
  <2>1. Slm!_shutdown /\ Slm!Return(t, "") /\ UNCHANGED <<mode, exited, lost>>
    BY <1>5 DEF Slm!timeout
  <2>2. /\ servers' \in Seq(ServerStates) /\ process' = 0 /\ Slm!Alive' \subseteq Slm!Alive \ {process}
        /\ \A i \in DOMAIN servers : i \in DOMAIN servers' /\ (servers[i] = "dead" => servers'[i] = "dead")
    BY <2>1, ShutdownStops
  <2>3. Useful' /\ sthread' = [sthread EXCEPT ![t] = Slm!Idle] /\ ~exited
    BY <1>5, <2>1, ReturnUseful DEF SlmInv
  <2>4. Asks(Slm!Idle)'
    BY DEF Asks, Slm!Idle, Askers, Places, Slm!Tasks
  <2>5. sthread' \in [Threads -> Askers] /\ \A u \in Threads : Asks(sthread[u])'
    BY <2>2, <2>3, <2>4, ThreadsStay
  <2>6. lost' \/ Owned'
    BY <2>1, <2>2 DEF SlmInv, Owned
  <2>7. process' \in 0..Len(servers')
    BY <2>2
  <2> QED
    BY <1>0, <2>1, <2>2, <2>3, <2>5, <2>6, <2>7 DEF SlmInv, Askers, Places, Slm!Tasks, ServerStates
<1>6. CASE Slm!timeout(t) /\ sthread[t].at # "own"
  <2>1. Slm!Return(t, "") /\ UNCHANGED <<mode, servers, process, exited, lost>> /\ sthread[t].at = "other"
    BY <1>6 DEF Slm!timeout
  <2> QED
    BY <2>1, ReturnKeeps
<1> QED
  BY <1>1, <1>2, <1>3, <1>4, <1>5, <1>6

\* atexit, and what a server does by itself.
LEMMA SlmOtherSteps ==
  ASSUME SlmInv, Slm!shutdown \/ (\E i \in DOMAIN servers : Slm!Server(i)) \/ UNCHANGED Slm!vars
  PROVE  SlmInv'
<1>0. /\ servers \in Seq(ServerStates) /\ Len(servers) \in Nat /\ DOMAIN servers = 1..Len(servers)
      /\ process \in 0..Len(servers) /\ lost \in BOOLEAN
  BY DEF SlmInv
\* In each, the threads stay where they are and no server comes back.
<1>1. ASSUME /\ UNCHANGED <<mode, sthread, replied, lost>>
             /\ servers' \in Seq(ServerStates) /\ process' \in 0..Len(servers')
             /\ \A i \in DOMAIN servers :
                  i \in DOMAIN servers' /\ (servers[i] = "dead" => servers'[i] = "dead")
             /\ lost \/ Slm!Alive' \subseteq {process'}
             /\ exited' => (\A t \in Threads : sthread[t].at = "idle") /\ (lost \/ Slm!Alive' = {})
      PROVE  SlmInv'
  <2>1. ASSUME NEW t \in Threads PROVE Asks(sthread[t])'
    <3>1. Asks(sthread[t]) /\ sthread'[t] = sthread[t]
      BY <1>1 DEF SlmInv
    <3> QED
      BY <1>1, <3>1 DEF Asks, Askers, Places, Slm!Tasks
  <2>2. Useful' /\ sthread' \in [Threads -> Askers] /\ mode' \in Modes
    BY <1>1 DEF SlmInv, Useful
  <2>3. lost' \/ Owned'
    BY <1>1 DEF Owned
  <2>4. exited' => (\A t \in Threads : sthread'[t].at = "idle") /\ (lost' \/ Slm!Alive' = {})
    BY <1>1
  <2> QED
    BY <1>0, <1>1, <2>1, <2>2, <2>3, <2>4 DEF SlmInv, Askers, Places, Slm!Tasks, ServerStates
<1>2. CASE Slm!shutdown
  <2>1. /\ Slm!_shutdown /\ UNCHANGED <<mode, sthread, replied, lost>>
        /\ \A t \in Threads : sthread[t].at = "idle"
    BY <1>2 DEF Slm!shutdown
  <2>2. /\ servers' \in Seq(ServerStates) /\ process' = 0 /\ Slm!Alive' \subseteq Slm!Alive \ {process}
        /\ \A i \in DOMAIN servers : i \in DOMAIN servers' /\ (servers[i] = "dead" => servers'[i] = "dead")
    BY <2>1, ShutdownStops
  <2>3. lost \/ Slm!Alive' = {}
    BY <2>2 DEF SlmInv, Owned
  <2>4. process' \in 0..Len(servers')
    BY <2>2
  <2> QED
    BY <1>1, <2>1, <2>2, <2>3, <2>4
<1>3. ASSUME NEW i \in DOMAIN servers, Slm!Server(i) PROVE SlmInv'
  <2>1. PICK s \in {"ready", "dead"} : servers' = [servers EXCEPT ![i] = s]
    BY <1>3 DEF Slm!Server
  <2>2. servers[i] # "dead" /\ UNCHANGED <<mode, process, sthread, replied, exited, lost>>
    BY <1>3 DEF Slm!Server
  <2>3. servers' \in Seq(ServerStates) /\ Len(servers') = Len(servers) /\ DOMAIN servers' = DOMAIN servers
    BY <1>0, <2>1 DEF ServerStates
  <2>4. \A j \in DOMAIN servers : servers[j] = "dead" => servers'[j] = "dead"
    BY <1>0, <2>1, <2>2
  <2>5. Slm!Alive' \subseteq Slm!Alive
    BY <2>3, <2>4 DEF Slm!Alive
  <2>6. process' \in 0..Len(servers')
    BY <1>0, <2>2, <2>3
  <2>7. lost \/ Slm!Alive' \subseteq {process'}
    BY <2>2, <2>5 DEF SlmInv, Owned
  <2>8. exited' => (\A t \in Threads : sthread[t].at = "idle") /\ (lost \/ Slm!Alive' = {})
    BY <2>2, <2>5 DEF SlmInv
  <2> QED
    BY <1>1, <2>2, <2>3, <2>4, <2>6, <2>7, <2>8
<1>4. CASE UNCHANGED Slm!vars
  <2>1. UNCHANGED <<mode, sthread, replied, lost, servers, process, exited>>
    BY <1>4 DEF Slm!vars
  <2>2. Slm!Alive' = Slm!Alive
    BY <2>1 DEF Slm!Alive
  <2>3. servers' \in Seq(ServerStates) /\ process' \in 0..Len(servers')
    BY <1>0, <2>1
  <2>4. lost \/ Slm!Alive' \subseteq {process'}
    BY <2>1, <2>2 DEF SlmInv, Owned
  <2>5. exited' => (\A t \in Threads : sthread[t].at = "idle") /\ (lost \/ Slm!Alive' = {})
    BY <2>1, <2>2 DEF SlmInv
  <2> QED
    BY <1>1, <2>1, <2>3, <2>4, <2>5
<1> QED
  BY <1>2, <1>3, <1>4

LEMMA SlmStep ==
  ASSUME SlmAssumed, SlmInv, [Slm!Next]_(Slm!vars)
  PROVE  SlmInv'
  BY SlmCallSteps, SlmServerSteps, SlmOtherSteps DEF Slm!Next

LEMMA AtMostOne ==
  ASSUME NEW S, NEW x, S \subseteq {x}
  PROVE  Slm!Cardinality(S) <= 1
<1>1. Slm!Cardinality(S) = Cardinality(S)
  BY DEF Slm!Cardinality, Cardinality, Slm!IsFiniteSet, IsFiniteSet
<1>2. S = {} \/ S = {x}
  OBVIOUS
<1>3. Cardinality(S) \in {0, 1}
  BY <1>2, FS_EmptySet, FS_Singleton
<1> QED
  BY <1>1, <1>3

LEMMA SlmSafe == Slm!Spec => []Slm!OneServer
<1>1. SlmAssumed
  BY ModesAssumption DEF SlmAssumed
<1>2. Slm!Init => SlmInv
  <2> SUFFICES ASSUME Slm!Init PROVE SlmInv
    OBVIOUS
  <2>1. /\ servers = <<>> /\ process = 0 /\ sthread = [t \in Threads |-> Slm!Idle] /\ replied = {}
        /\ exited = FALSE /\ lost = FALSE /\ mode \in Modes
    BY DEF Slm!Init
  <2>2. servers \in Seq(ServerStates) /\ Len(servers) = 0 /\ DOMAIN servers = {}
    BY <2>1
  <2>3. Slm!Alive = {}
    BY <2>2 DEF Slm!Alive
  <2>4. \A t \in Threads : Asks(sthread[t])
    BY <2>1, AsksIdle
  <2>5. sthread \in [Threads -> Askers]
    BY <2>1, AsksIdle DEF Asks
  <2>6. Useful /\ Owned /\ ~exited
    BY <2>1, <2>3 DEF Useful, Owned
  <2>7. process \in 0..Len(servers)
    BY <2>1, <2>2
  <2>8. mode \in Modes /\ lost \in BOOLEAN
    BY <2>1
  <2> QED
    BY <2>2, <2>4, <2>5, <2>6, <2>7, <2>8 DEF SlmInv
<1>3. SlmInv => Slm!OneServer
  BY AtMostOne DEF SlmInv, Owned, Useful, Slm!OneServer
<1>4. SlmInv /\ [Slm!Next]_(Slm!vars) => SlmInv'
  BY <1>1, SlmStep
<1> QED
  BY <1>2, <1>3, <1>4, PTL DEF Slm!Spec

-----------------------------------------------------------------------------
(* The connection pool.  PHand says who has which connection; PList is     *)
(* about the list of connections, the lock, and the loops over the list    *)
(* that awaits interrupt: what close and drain have not reached yet is all *)
(* that may still be open, unless a method changed the list unlocked.      *)

PSlots == PoolConns \cup {0}
PStates == {"none", "open", "broken", "shut"}
PPlaces == {"idle", "want", "closing", "creating", "using", "returning", "discarding", "using_sync", "checking",
            "shutting", "draining"}
PTask == [at : PPlaces, conn : PSlots, n : Nat, todo : Seq(PSlots)]
PoolTyped ==
    /\ task \in [Threads -> PTask] /\ connections \in Seq(PSlots) /\ available \in Seq(PoolConns)
    /\ conn \in [PoolConns -> PStates] /\ in_use \subseteq PoolConns /\ strays \subseteq PoolConns
PHands == {"using", "returning", "using_sync"}
PLocked == {"closing", "creating", "discarding", "shutting", "draining"}

PHand(tk, av, cn, iu, st) ==
    /\ \A t \in Threads : tk[t].at \in PHands => tk[t].conn \in PoolConns /\ cn[tk[t].conn] # "none"
    /\ \A i \in 1..Len(av) : cn[av[i]] # "none"
    /\ \A t, u \in Threads : t # u /\ tk[t].at \in PHands /\ tk[u].at \in PHands => tk[t].conn # tk[u].conn
    /\ \A t \in Threads, i \in 1..Len(av) : tk[t].at \in PHands => tk[t].conn # av[i]
    /\ \A i, j \in 1..Len(av) : av[i] = av[j] => i = j
    /\ Len(av) <= MAX_KEEPALIVE
    /\ \A c \in iu : c \in st \/ \E t \in Threads : tk[t].at \in PHands /\ tk[t].conn = c

PShutting(r, cs, cn) ==
    /\ r.n \in 1..Len(cs) /\ r.conn = cs[r.n]
    /\ \A j \in 1..(r.n - 1) : cs[j] \in PoolConns => cn[cs[j]] # "open"
PDraining(r, cs, cn) ==
    \A j \in 1..Len(cs) : cs[j] \in PoolConns =>
        \/ cn[cs[j]] # "open"
        \/ cs[j] = r.conn
        \/ \E k \in 1..Len(r.todo) : r.todo[k] = cs[j]
PBusy(r, cs, cn) ==
    /\ r.at = "creating" => Len(cs) < MAX_CONNECTIONS
    /\ r.at = "shutting" => PShutting(r, cs, cn)
    /\ r.at = "draining" => PDraining(r, cs, cn)
PKnown(cs, cn, st) == \A c \in PoolConns : cn[c] = "open" => c \in st \/ \E i \in 1..Len(cs) : cs[i] = c
PMade(cs, cn) == \A i \in 1..Len(cs) : cs[i] \in PoolConns => cn[cs[i]] # "none"

PList(tk, cs, cn, st, lk, bp) ==
    /\ \A t \in Threads : tk[t].at \in PLocked => lk = {t}
    /\ PMade(cs, cn)
    /\ bp \/ (Len(cs) <= MAX_CONNECTIONS /\ PKnown(cs, cn, st) /\ \A t \in Threads : PBusy(tk[t], cs, cn))

PoolInv ==
    /\ PoolTyped
    /\ PHand(task, available, conn, in_use, strays)
    /\ PList(task, connections, conn, strays, plock, bypassed)

LEMMA Joined ==
  ASSUME NEW S, NEW a \in Seq(S), NEW b \in Seq(S), NEW c, c = a \o b
  PROVE  /\ c \in Seq(S) /\ Len(c) = Len(a) + Len(b) /\ DOMAIN c = 1..(Len(a) + Len(b))
         /\ \A p \in 1..Len(a) : c[p] = a[p]
         /\ \A p \in 1..Len(b) : c[Len(a) + p] = b[p]
<1>0. Len(a) \in Nat /\ Len(b) \in Nat
  OBVIOUS
<1>1. /\ c \in Seq(S) /\ Len(c) = Len(a) + Len(b) /\ DOMAIN c = 1..(Len(a) + Len(b))
      /\ \A i \in 1..Len(a) + Len(b) : c[i] = IF i <= Len(a) THEN a[i] ELSE b[i - Len(a)]
  BY ConcatProperties, LenProperties
<1>2. ASSUME NEW p \in 1..Len(a) PROVE c[p] = a[p]
  BY <1>0, <1>1
<1>3. ASSUME NEW p \in 1..Len(b) PROVE c[Len(a) + p] = b[p]
  <2>1. Len(a) + p \in 1..Len(a) + Len(b) /\ ~(Len(a) + p <= Len(a)) /\ (Len(a) + p) - Len(a) = p
    BY <1>0
  <2> QED
    BY <1>1, <2>1
<1> QED
  BY <1>1, <1>2, <1>3

LEMMA Sliced ==
  ASSUME NEW S, NEW s \in Seq(S), NEW m \in Nat \ {0}, NEW n \in Nat, n <= Len(s), NEW c, c = SubSeq(s, m, n)
  PROVE  /\ c \in Seq(S) /\ Len(c) = (IF m <= n THEN (n - m) + 1 ELSE 0) /\ DOMAIN c = 1..Len(c)
         /\ \A p \in 1..Len(c) : c[p] = s[(m + p) - 1]
<1>0. Len(s) \in Nat
  OBVIOUS
<1>1. \A i \in m..n : s[i] \in S
  BY <1>0, ElementOfSeq
<1>2. /\ c \in Seq(S) /\ Len(c) = (IF m <= n THEN n - m + 1 ELSE 0)
      /\ \A i \in 1..n - m + 1 : c[i] = s[m + i - 1]
  BY <1>1, SubSeqProperties
<1>3. DOMAIN c = 1..Len(c)
  BY <1>2, LenProperties
<1>4. ASSUME NEW p \in 1..Len(c) PROVE c[p] = s[(m + p) - 1]
  BY <1>2
<1> QED
  BY <1>2, <1>3, <1>4

LEMMA FirstIs ==
  ASSUME NEW S, NEW s \in Seq(S), NEW e, \E i \in 1..Len(s) : s[i] = e
  PROVE  \E k \in 1..Len(s) : s[k] = e /\ Pool!RemoveFirst(s, e) = Pool!RemoveAt(s, k)
<1> DEFINE I == {i \in 1..Len(s) : s[i] = e}
<1>1. I \subseteq Nat /\ I # {}
  OBVIOUS
<1>2. PICK x \in I : \A y \in I : x <= y
  BY <1>1, Least
<1>3. Pool!SelectInSeq(s, LAMBDA v : v = e) = Pool!Min(I)
  BY <1>1, Zenon DEF Pool!SelectInSeq
<1>4. Pool!Min(I) \in I
  BY <1>2 DEF Pool!Min
<1> HIDE DEF I
<1>5. PICK k : k = Pool!Min(I)
  OBVIOUS
<1>6. Pool!RemoveFirst(s, e) = Pool!RemoveAt(s, k)
  BY <1>3, <1>5, Zenon DEF Pool!RemoveFirst
<1>7. k \in 1..Len(s) /\ s[k] = e
  BY <1>4, <1>5 DEF I
<1> QED
  BY <1>6, <1>7

LEMMA LenIs ==
  ASSUME NEW S, NEW c \in Seq(S), NEW m \in Nat, DOMAIN c = 1..m
  PROVE  Len(c) = m
<1>1. PICK l : l = Len(c)
  OBVIOUS
<1>2. l \in Nat /\ \A i : i \in 1..l <=> i \in 1..m
  BY <1>1, LenProperties
<1>3. (l \in 1..l <=> l \in 1..m) /\ (m \in 1..l <=> m \in 1..m)
  BY <1>2
<1>4. l = m
  BY <1>2, <1>3
<1> QED
  BY <1>1, <1>4

LEMMA Spliced ==
  ASSUME NEW S, NEW s \in Seq(S), NEW k \in 1..Len(s), NEW c, c = Pool!RemoveAt(s, k)
  PROVE  /\ c \in Seq(S) /\ Len(c) = Len(s) - 1
         /\ \A p \in 1..(k - 1) : c[p] = s[p]
         /\ \A p \in k..Len(c) : c[p] = s[p + 1]
<1>0. Len(s) \in Nat /\ k \in Nat /\ k - 1 \in Nat /\ k - 1 <= Len(s) /\ k + 1 \in Nat \ {0} /\ k <= Len(s)
  OBVIOUS
<1>1. PICK a, b : a = SubSeq(s, 1, k - 1) /\ b = SubSeq(s, k + 1, Len(s))
  OBVIOUS
<1>2. /\ a \in Seq(S) /\ Len(a) = (IF 1 <= k - 1 THEN ((k - 1) - 1) + 1 ELSE 0)
      /\ \A p \in 1..Len(a) : a[p] = s[(1 + p) - 1]
  BY <1>0, <1>1, Sliced
<1>3. /\ b \in Seq(S) /\ Len(b) = (IF k + 1 <= Len(s) THEN (Len(s) - (k + 1)) + 1 ELSE 0)
      /\ \A p \in 1..Len(b) : b[p] = s[((k + 1) + p) - 1]
  BY <1>0, <1>1, Sliced
<1>4. a \in Seq(S) /\ b \in Seq(S) /\ Len(a) = k - 1 /\ Len(b) = Len(s) - k
  BY <1>0, <1>2, <1>3
<1>5. c = a \o b
  BY <1>1 DEF Pool!RemoveAt
<1>6. /\ c \in Seq(S) /\ DOMAIN c = 1..((k - 1) + (Len(s) - k))
      /\ \A p \in 1..(k - 1) : c[p] = a[p]
      /\ \A p \in 1..(Len(s) - k) : c[(k - 1) + p] = b[p]
  <2>1. /\ c \in Seq(S) /\ DOMAIN c = 1..(Len(a) + Len(b))
        /\ \A p \in 1..Len(a) : c[p] = a[p]
        /\ \A p \in 1..Len(b) : c[Len(a) + p] = b[p]
    <3>1. a \in Seq(S) /\ b \in Seq(S)
      BY <1>4
    <3> QED
      BY <1>5, <3>1, Joined
  <2> QED
    BY <1>4, <2>1
<1>9. Len(c) = Len(s) - 1
  <2>0. (k - 1) + (Len(s) - k) \in Nat
    BY <1>0
  <2>1. Len(c) = (k - 1) + (Len(s) - k)
    BY <1>6, <2>0, LenIs
  <2> QED
    BY <1>0, <2>1
<1>7. ASSUME NEW p \in 1..(k - 1) PROVE c[p] = s[p]
  <2>1. (1 + p) - 1 = p
    OBVIOUS
  <2> QED
    BY <1>2, <1>4, <1>6, <2>1
<1>8. ASSUME NEW p \in k..Len(c) PROVE c[p] = s[p + 1]
  <2>1. PICK q, ls : q = p - (k - 1) /\ ls = Len(s)
    OBVIOUS
  <2>2. ls \in Nat /\ k <= ls /\ p \in k..(ls - 1)
    BY <1>0, <1>9, <2>1
  <2>3. q \in 1..(ls - k) /\ (k - 1) + q = p /\ ((k + 1) + q) - 1 = p + 1
    BY <1>0, <2>1, <2>2
  <2>4. q \in 1..(Len(s) - k) /\ q \in 1..Len(b)
    BY <1>4, <2>1, <2>3
  <2>5. c[(k - 1) + q] = b[q] /\ b[q] = s[((k + 1) + q) - 1]
    BY <1>3, <1>6, <2>4
  <2> QED
    BY <2>3, <2>5
<1> QED
  BY <1>6, <1>7, <1>8, <1>9

\* What list.remove leaves.
PLeft(s, e, c) ==
    /\ Len(c) <= Len(s)
    /\ \A p \in 1..Len(s) : s[p] # e => \E q \in 1..Len(c) : c[q] = s[p]
    /\ \A q \in 1..Len(c) : \E p \in 1..Len(s) : c[q] = s[p]
    /\ (\A i, j \in 1..Len(s) : s[i] = s[j] => i = j) =>
          (\A i, j \in 1..Len(c) : c[i] = c[j] => i = j) /\ \A i \in 1..Len(c) : c[i] # e

LEMMA FirstGone ==
  ASSUME NEW S, NEW s \in Seq(S), NEW e, NEW c, c = Pool!RemoveFirst(s, e)
  PROVE  c \in Seq(S) /\ PLeft(s, e, c)
<1>0. Len(s) \in Nat
  OBVIOUS
<1>1. CASE ~\E i \in 1..Len(s) : s[i] = e
  <2>1. c = s
    BY <1>1, Zenon DEF Pool!RemoveFirst
  <2> QED
    BY <1>0, <1>1, <2>1 DEF PLeft
<1>2. CASE \E i \in 1..Len(s) : s[i] = e
  <2>1. PICK k \in 1..Len(s) : s[k] = e /\ c = Pool!RemoveAt(s, k)
    BY <1>2, FirstIs
  <2>2. /\ c \in Seq(S) /\ Len(c) = Len(s) - 1
        /\ \A p \in 1..(k - 1) : c[p] = s[p]
        /\ \A p \in k..Len(c) : c[p] = s[p + 1]
    BY <2>1, Spliced
  <2>3. ASSUME NEW p \in 1..Len(s), s[p] # e PROVE \E q \in 1..Len(c) : c[q] = s[p]
    <3>1. CASE p < k
      <4>1. p \in 1..(k - 1) /\ p \in 1..Len(c)
        BY <1>0, <2>2, <3>1
      <4> QED
        BY <2>2, <4>1
    <3>2. CASE p > k
      <4>1. p - 1 \in k..Len(c) /\ p - 1 \in 1..Len(c) /\ (p - 1) + 1 = p
        BY <1>0, <2>2, <3>2
      <4> QED
        BY <2>2, <4>1
    <3>3. p # k
      BY <2>1, <2>3
    <3> QED
      BY <3>1, <3>2, <3>3
  <2>4. ASSUME NEW q \in 1..Len(c)
        PROVE  \E p \in 1..Len(s) : c[q] = s[p] /\ p # k /\ p = (IF q < k THEN q ELSE q + 1)
    <3>1. CASE q < k
      BY <1>0, <2>2, <3>1
    <3>2. CASE ~(q < k)
      <4>1. q \in k..Len(c) /\ q + 1 \in 1..Len(s) /\ q + 1 # k
        BY <1>0, <2>2, <3>2
      <4> QED
        BY <2>2, <3>2, <4>1
    <3> QED
      BY <3>1, <3>2
  <2>5. ASSUME \A i, j \in 1..Len(s) : s[i] = s[j] => i = j
        PROVE  (\A i, j \in 1..Len(c) : c[i] = c[j] => i = j) /\ \A i \in 1..Len(c) : c[i] # e
    <3>1. ASSUME NEW i \in 1..Len(c), NEW j \in 1..Len(c), c[i] = c[j] PROVE i = j
      <4>1. PICK p \in 1..Len(s) : c[i] = s[p] /\ p # k /\ p = (IF i < k THEN i ELSE i + 1)
        BY <2>4
      <4>2. PICK q \in 1..Len(s) : c[j] = s[q] /\ q # k /\ q = (IF j < k THEN j ELSE j + 1)
        BY <2>4
      <4>3. p = q
        BY <2>5, <3>1, <4>1, <4>2
      <4> QED
        BY <4>1, <4>2, <4>3
    <3>2. ASSUME NEW i \in 1..Len(c) PROVE c[i] # e
      <4>1. PICK p \in 1..Len(s) : c[i] = s[p] /\ p # k
        BY <2>4
      <4> QED
        BY <2>1, <2>5, <4>1
    <3> QED
      BY <3>1, <3>2
  <2>6. Len(c) <= Len(s)
    BY <1>0, <2>2
  <2> QED
    BY <2>2, <2>3, <2>4, <2>5, <2>6 DEF PLeft
<1> QED
  BY <1>1, <1>2

\* The function that acquire_sync's loop computes exists.
LEMMA PurgedIs ==
  ASSUME NEW n, n = Len(available), n \in Nat
  PROVE  Pool!Purged = [m \in 0..n |-> IF m = 0 THEN connections
                                       ELSE Pool!RemoveFirst(Pool!Purged[m - 1], available[(n - m) + 1])]
<1> DEFINE Solves(g, m) ==
       g = [i \in 0..m |-> IF i = 0 THEN connections ELSE Pool!RemoveFirst(g[i - 1], available[(n - i) + 1])]
<1>1. \A m \in 0..n : \E g : Solves(g, m)
  <2> DEFINE T == {m \in 0..n : ~\E g : Solves(g, m)}
  <2>1. SUFFICES ASSUME T # {} PROVE FALSE
    OBVIOUS
  <2>2. PICK x \in T : \A y \in T : x <= y
    <3>1. T \subseteq Nat
      OBVIOUS
    <3> HIDE DEF T
    <3> QED
      BY <2>1, <3>1, Least
  <2>3. x \in 0..n /\ ~\E g : Solves(g, x)
    OBVIOUS
  <2>4. CASE x = 0
    <3>1. Solves([i \in 0..0 |-> connections], 0)
      OBVIOUS
    <3> QED
      BY <2>3, <2>4, <3>1
  <2>5. CASE x # 0
    <3>1. x - 1 \in 0..n /\ ~(x <= x - 1)
      BY <2>3, <2>5
    <3>2. PICK g : Solves(g, x - 1)
      BY <2>2, <3>1
    <3>3. PICK h : h = [i \in 0..x |-> IF i = x THEN Pool!RemoveFirst(g[x - 1], available[(n - x) + 1]) ELSE g[i]]
      OBVIOUS
    <3>4. ASSUME NEW i \in 0..x
          PROVE  h[i] = IF i = 0 THEN connections ELSE Pool!RemoveFirst(h[i - 1], available[(n - i) + 1])
      <4>1. CASE i = 0
        <5>1. 0 \in 0..(x - 1) /\ i # x
          BY <2>3, <2>5, <4>1
        <5> QED
          BY <3>2, <3>3, <4>1, <5>1
      <4>2. CASE i # 0 /\ i # x
        <5>1. i \in 0..(x - 1) /\ i - 1 \in 0..x /\ i - 1 # x
          BY <2>3, <4>2
        <5>2. h[i] = g[i] /\ h[i - 1] = g[i - 1]
          BY <3>3, <4>2, <5>1
        <5>3. g[i] = Pool!RemoveFirst(g[i - 1], available[(n - i) + 1])
          BY <3>2, <4>2, <5>1
        <5> QED
          BY <4>2, <5>2, <5>3
      <4>3. CASE i = x
        <5>1. x - 1 \in 0..x /\ x - 1 # x
          BY <2>3, <2>5
        <5>2. h[x - 1] = g[x - 1] /\ h[x] = Pool!RemoveFirst(g[x - 1], available[(n - x) + 1])
          BY <3>3, <5>1
        <5> QED
          BY <2>5, <4>3, <5>2
      <4> QED
        BY <4>1, <4>2, <4>3
    <3>5. Solves(h, x)
      BY <3>3, <3>4
    <3> QED
      BY <2>3, <3>5
  <2> QED
    BY <2>4, <2>5
<1>2. PICK g : Solves(g, n)
  BY <1>1
<1>3. Pool!Purged = CHOOSE f : f = [i \in 0..n |-> IF i = 0 THEN connections
                                                   ELSE Pool!RemoveFirst(f[i - 1], available[(n - i) + 1])]
  BY Zenon DEF Pool!Purged
<1> QED
  BY <1>2, <1>3, Zenon

\* What is left of the list after the last k candidates: the rest.
PRest(k, c) ==
    /\ Len(c) <= Len(connections)
    /\ \A q \in 1..Len(c) : \E p \in 1..Len(connections) : c[q] = connections[p]
    /\ \A p \in 1..Len(connections) :
          \/ \E q \in 1..Len(c) : c[q] = connections[p]
          \/ \E j \in ((Len(available) - k) + 1)..Len(available) : available[j] = connections[p]

LEMMA PurgedFacts ==
  ASSUME connections \in Seq(PSlots), available \in Seq(PoolConns), NEW k \in 0..Len(available), NEW c, c = Pool!Purged[k]
  PROVE  c \in Seq(PSlots) /\ PRest(k, c)
<1> DEFINE n == Len(available)
           Ok(m) ==
              /\ Pool!Purged[m] \in Seq(PSlots) /\ Len(Pool!Purged[m]) <= Len(connections)
              /\ \A q \in 1..Len(Pool!Purged[m]) : \E p \in 1..Len(connections) : Pool!Purged[m][q] = connections[p]
              /\ \A p \in 1..Len(connections) :
                    \/ \E q \in 1..Len(Pool!Purged[m]) : Pool!Purged[m][q] = connections[p]
                    \/ \E j \in ((n - m) + 1)..n : available[j] = connections[p]
           T == {m \in 0..n : ~Ok(m)}
<1>0. n \in Nat /\ Len(connections) \in Nat
  OBVIOUS
<1>1. Pool!Purged = [m \in 0..n |-> IF m = 0 THEN connections
                                    ELSE Pool!RemoveFirst(Pool!Purged[m - 1], available[(n - m) + 1])]
  BY <1>0, PurgedIs
<1>2. T = {}
  <2>1. SUFFICES ASSUME T # {} PROVE FALSE
    OBVIOUS
  <2>2. T \subseteq Nat
    BY <1>0
  <2>3. PICK x \in T : \A y \in T : x <= y
    <3> HIDE DEF T
    <3> QED
      BY <2>1, <2>2, Least
  <2> HIDE DEF Ok
  <2>4. x \in 0..n /\ ~Ok(x)
    OBVIOUS
  <2>5. CASE x = 0
    <3>1. Pool!Purged[0] = connections
      BY <1>0, <1>1
    <3>2. Ok(0)
      BY <1>0, <3>1 DEF Ok
    <3> QED
      BY <2>4, <2>5, <3>2
  <2>6. CASE x # 0
    <3>1. x - 1 \in 0..n /\ ~(x <= x - 1)
      BY <1>0, <2>4, <2>6
    <3>2. Ok(x - 1)
      BY <2>3, <3>1
    <3>3. PICK b, c0, e : b = Pool!Purged[x - 1] /\ c0 = Pool!Purged[x] /\ e = available[(n - x) + 1]
      OBVIOUS
    <3>4. c0 = Pool!RemoveFirst(b, e)
      BY <1>1, <2>4, <2>6, <3>3
    <3>5. /\ b \in Seq(PSlots) /\ Len(b) <= Len(connections)
          /\ \A q \in 1..Len(b) : \E p \in 1..Len(connections) : b[q] = connections[p]
          /\ \A p \in 1..Len(connections) :
                \/ \E q \in 1..Len(b) : b[q] = connections[p]
                \/ \E j \in ((n - (x - 1)) + 1)..n : available[j] = connections[p]
      BY <3>2, <3>3 DEF Ok
    <3>6. c0 \in Seq(PSlots) /\ PLeft(b, e, c0)
      BY <3>4, <3>5, FirstGone
    <3>7. Len(c0) <= Len(connections)
      <4>1. Len(c0) \in Nat /\ Len(b) \in Nat
        BY <3>5, <3>6
      <4> QED
        BY <1>0, <3>5, <3>6, <4>1 DEF PLeft
    <3>8. \A q \in 1..Len(c0) : \E p \in 1..Len(connections) : c0[q] = connections[p]
      BY <3>5, <3>6 DEF PLeft
    <3>9. ASSUME NEW p \in 1..Len(connections), ~\E q \in 1..Len(c0) : c0[q] = connections[p]
          PROVE  \E j \in ((n - x) + 1)..n : available[j] = connections[p]
      <4>1. CASE \E q \in 1..Len(b) : b[q] = connections[p]
        <5>1. connections[p] = e
          BY <3>6, <3>9, <4>1 DEF PLeft
        <5>2. (n - x) + 1 \in ((n - x) + 1)..n
          BY <1>0, <2>4, <2>6
        <5> QED
          BY <3>3, <5>1, <5>2
      <4>2. CASE \E j \in ((n - (x - 1)) + 1)..n : available[j] = connections[p]
        <5>1. \A j \in ((n - (x - 1)) + 1)..n : j \in ((n - x) + 1)..n
          BY <1>0, <2>4
        <5> QED
          BY <4>2, <5>1
      <4> QED
        BY <3>5, <4>1, <4>2
    <3>10. Ok(x)
      BY <3>3, <3>6, <3>7, <3>8, <3>9 DEF Ok
    <3> QED
      BY <2>4, <3>10
  <2> QED
    BY <2>5, <2>6
<1>3. Ok(k)
  BY <1>2
<1> QED
  BY <1>3 DEF PRest

\* A step of one task: its record becomes r, and whoever has which connection changes as said.
HandMove(tk, av, cn, iu, st, t, r, av2, cn2, iu2, st2) ==
    /\ \A c \in PoolConns : cn[c] # "none" => cn2[c] # "none"
    /\ st \subseteq st2
    /\ Len(av2) <= MAX_KEEPALIVE
    /\ \A i, j \in 1..Len(av2) : av2[i] = av2[j] => i = j
    /\ \A i \in 1..Len(av2) :
          \/ \E j \in 1..Len(av) : av[j] = av2[i]
          \/ tk[t].at \in PHands /\ tk[t].conn = av2[i]
    /\ r.at \in PHands => /\ r.conn \in PoolConns /\ cn2[r.conn] # "none"
                          /\ \A i \in 1..Len(av2) : av2[i] # r.conn
                          /\ \A u \in Threads : u # t /\ tk[u].at \in PHands => tk[u].conn # r.conn
    /\ \A c \in iu2 : \/ c \in st2
                      \/ c \in iu /\ ~(tk[t].at \in PHands /\ tk[t].conn = c)
                      \/ r.at \in PHands /\ r.conn = c

LEMMA HandMoved ==
  ASSUME NEW tk \in [Threads -> PTask], NEW av \in Seq(PoolConns), NEW cn, NEW iu, NEW st, NEW t \in Threads, NEW r \in PTask,
         NEW av2 \in Seq(PoolConns), NEW cn2, NEW iu2, NEW st2,
         PHand(tk, av, cn, iu, st), HandMove(tk, av, cn, iu, st, t, r, av2, cn2, iu2, st2)
  PROVE  PHand([tk EXCEPT ![t] = r], av2, cn2, iu2, st2)
<1>1. PICK tk2 : tk2 = [tk EXCEPT ![t] = r]
  OBVIOUS
<1>2. \A u \in Threads : tk2[u] = IF u = t THEN r ELSE tk[u]
  BY <1>1
<1>3. \A u \in Threads : tk2[u].at \in PHands => tk2[u].conn \in PoolConns /\ cn2[tk2[u].conn] # "none"
  BY <1>2 DEF PHand, HandMove
<1>4. \A i \in 1..Len(av2) : cn2[av2[i]] # "none"
  <2>1. ASSUME NEW i \in 1..Len(av2) PROVE cn[av2[i]] # "none" /\ av2[i] \in PoolConns
    <3>1. av2[i] \in PoolConns
      BY ElementOfSeq
    <3> QED
      BY <3>1 DEF PHand, HandMove
  <2> QED
    BY <2>1 DEF HandMove
<1>5. \A u, v \in Threads : u # v /\ tk2[u].at \in PHands /\ tk2[v].at \in PHands => tk2[u].conn # tk2[v].conn
  BY <1>2 DEF PHand, HandMove
<1>6. ASSUME NEW u \in Threads, NEW i \in 1..Len(av2), tk2[u].at \in PHands PROVE tk2[u].conn # av2[i]
  <2>1. CASE u = t
    BY <1>2, <1>6, <2>1 DEF HandMove
  <2>2. CASE u # t
    <3>1. tk2[u] = tk[u]
      BY <1>2, <2>2
    <3>2. CASE \E j \in 1..Len(av) : av[j] = av2[i]
      BY <1>6, <3>1, <3>2 DEF PHand
    <3>3. CASE tk[t].at \in PHands /\ tk[t].conn = av2[i]
      BY <1>6, <2>2, <3>1, <3>3 DEF PHand
    <3> QED
      BY <3>2, <3>3 DEF HandMove
  <2> QED
    BY <2>1, <2>2
<1>7. ASSUME NEW c \in iu2, c \notin st2 PROVE \E u \in Threads : tk2[u].at \in PHands /\ tk2[u].conn = c
  <2>1. CASE c \in iu /\ ~(tk[t].at \in PHands /\ tk[t].conn = c)
    <3>1. c \notin st
      BY <1>7 DEF HandMove
    <3>2. PICK u \in Threads : tk[u].at \in PHands /\ tk[u].conn = c
      BY <2>1, <3>1 DEF PHand
    <3> QED
      BY <1>2, <2>1, <3>2
  <2>2. CASE r.at \in PHands /\ r.conn = c
    BY <1>2, <2>2
  <2> QED
    BY <1>7, <2>1, <2>2 DEF HandMove
<1>8. PHand(tk2, av2, cn2, iu2, st2)
  BY <1>3, <1>4, <1>5, <1>6, <1>7 DEF PHand, HandMove
<1> QED
  BY <1>1, <1>8

\* The same step, for the list, the lock and the loops of the tasks that hold it.
ListMove(tk, cs, cn, st, lk, bp, t, r, cs2, cn2, st2, lk2, bp2) ==
    /\ \A c \in PoolConns : cn2[c] = "open" => cn[c] \in {"open", "none"}
    /\ \A u \in Threads : u # t /\ tk[u].at \in PLocked => lk2 = {u}
    /\ r.at \in PLocked => lk2 = {t}
    /\ PMade(cs2, cn2)
    /\ bp => bp2
    /\ bp2 \/ /\ Len(cs2) <= MAX_CONNECTIONS
              /\ PKnown(cs2, cn2, st2)
              /\ PBusy(r, cs2, cn2)
              /\ \A u \in Threads : u # t /\ tk[u].at \in PLocked => cs2 = cs

LEMMA ListMoved ==
  ASSUME NEW tk \in [Threads -> PTask], NEW cs \in Seq(PSlots), NEW cn \in [PoolConns -> PStates], NEW st, NEW lk, NEW bp,
         NEW t \in Threads, NEW r \in PTask,
         NEW cs2 \in Seq(PSlots), NEW cn2 \in [PoolConns -> PStates], NEW st2, NEW lk2, NEW bp2,
         PList(tk, cs, cn, st, lk, bp), ListMove(tk, cs, cn, st, lk, bp, t, r, cs2, cn2, st2, lk2, bp2)
  PROVE  PList([tk EXCEPT ![t] = r], cs2, cn2, st2, lk2, bp2)
<1>1. PICK tk2 : tk2 = [tk EXCEPT ![t] = r]
  OBVIOUS
<1>2. \A u \in Threads : tk2[u] = IF u = t THEN r ELSE tk[u]
  BY <1>1
<1>3. \A u \in Threads : tk2[u].at \in PLocked => lk2 = {u}
  BY <1>2 DEF ListMove
<1>4. ASSUME ~bp2, NEW u \in Threads PROVE PBusy(tk2[u], cs2, cn2)
  <2>1. CASE u = t
    BY <1>2, <1>4, <2>1 DEF ListMove
  <2>2. CASE u # t /\ tk[u].at \in PLocked
    <3>1. cs2 = cs /\ tk2[u] = tk[u] /\ PBusy(tk[u], cs, cn) /\ PMade(cs, cn)
      BY <1>2, <1>4, <2>2 DEF ListMove, PList
    <3>2. \A j \in 1..Len(cs) : cs[j] \in PoolConns => (cn2[cs[j]] = "open" => cn[cs[j]] = "open")
      BY <3>1 DEF ListMove, PMade
    <3>3. PICK x : x = tk[u]
      OBVIOUS
    <3>4. x \in PTask
      BY <3>3
    <3>5. PShutting(x, cs, cn) => PShutting(x, cs, cn2)
      <4>1. ASSUME x.n \in 1..Len(cs), NEW j \in 1..(x.n - 1) PROVE j \in 1..Len(cs)
        BY <4>1
      <4> QED
        BY <3>2, <4>1 DEF PShutting
    <3>6. PDraining(x, cs, cn) => PDraining(x, cs, cn2)
      BY <3>2 DEF PDraining
    <3> QED
      BY <3>1, <3>3, <3>5, <3>6 DEF PBusy
  <2>3. CASE u # t /\ tk[u].at \notin PLocked
    BY <1>2, <2>3 DEF PLocked, PBusy
  <2> QED
    BY <2>1, <2>2, <2>3
<1>5. PList(tk2, cs2, cn2, st2, lk2, bp2)
  BY <1>3, <1>4 DEF PList, ListMove
<1> QED
  BY <1>1, <1>5

\* Both, as a step of the pool.
LEMMA PoolMoved ==
  ASSUME PoolInv, NEW t \in Threads, NEW r \in PTask, task' = [task EXCEPT ![t] = r],
         connections' \in Seq(PSlots), available' \in Seq(PoolConns), conn' \in [PoolConns -> PStates],
         in_use' \subseteq PoolConns, strays' \subseteq PoolConns,
         HandMove(task, available, conn, in_use, strays, t, r, available', conn', in_use', strays'),
         ListMove(task, connections, conn, strays, plock, bypassed, t, r, connections', conn', strays', plock', bypassed')
  PROVE  PoolInv'
<1>1. task \in [Threads -> PTask] /\ connections \in Seq(PSlots) /\ available \in Seq(PoolConns) /\ conn \in [PoolConns -> PStates]
  BY DEF PoolInv, PoolTyped
<1>2. PHand([task EXCEPT ![t] = r], available', conn', in_use', strays')
  BY <1>1, HandMoved DEF PoolInv
<1>3. PList([task EXCEPT ![t] = r], connections', conn', strays', plock', bypassed')
  BY <1>1, ListMoved DEF PoolInv
<1>4. PHand(task', available', conn', in_use', strays') /\ PList(task', connections', conn', strays', plock', bypassed')
  BY <1>2, <1>3
<1>5. task' \in [Threads -> PTask]
  BY <1>1
<1>6. PoolTyped'
  BY <1>5 DEF PoolTyped, PTask, PSlots, PStates, PPlaces
<1>7. PHand(task, available, conn, in_use, strays)' /\ PList(task, connections, conn, strays, plock, bypassed)'
  BY <1>4 DEF PHand, PList, PMade, PKnown, PBusy, PShutting, PDraining
<1> QED
  BY <1>6, <1>7 DEF PoolInv

\* No connection is made, and a closed one stays closed.
ConnKept(cn, cn2) ==
    /\ cn2 \in [PoolConns -> PStates]
    /\ \A c \in PoolConns : (cn[c] # "none" => cn2[c] # "none") /\ (cn2[c] = "open" => cn[c] = "open")

\* The second list has nothing that the first has not, and nothing twice.
PSub(av, av2) ==
    /\ av2 \in Seq(PoolConns) /\ Len(av2) <= Len(av)
    /\ \A i, j \in 1..Len(av2) : av2[i] = av2[j] => i = j
    /\ \A i \in 1..Len(av2) : \E j \in 1..Len(av) : av[j] = av2[i]

\* A task that has no connection in hand moves, and takes none.
LEMMA HandsEmpty ==
  ASSUME PoolInv, NEW t \in Threads, NEW r \in PTask, task[t].at \notin PHands, r.at \notin PHands,
         ConnKept(conn, conn'), PSub(available, available'), strays \subseteq strays', in_use' \subseteq in_use
  PROVE  HandMove(task, available, conn, in_use, strays, t, r, available', conn', in_use', strays')
<1>1. Len(available) \in Nat /\ Len(available') \in Nat
  BY DEF PoolInv, PoolTyped, PSub
<1>2. Len(available') <= MAX_KEEPALIVE
  BY <1>1, PoolAssumption DEF PoolInv, PHand, PSub
<1> QED
  BY <1>2 DEF HandMove, PSub, ConnKept

\* A task that has none takes one that nobody has and that is no longer offered.
LEMMA HandsTake ==
  ASSUME PoolInv, NEW t \in Threads, NEW r \in PTask, task[t].at \notin PHands, r.conn \in PoolConns, conn'[r.conn] # "none",
         \A c \in PoolConns : conn[c] # "none" => conn'[c] # "none",
         PSub(available, available'), \A i \in 1..Len(available') : available'[i] # r.conn,
         \A u \in Threads : task[u].at \in PHands => task[u].conn # r.conn,
         r.at \in PHands, strays \subseteq strays', in_use' \subseteq in_use \cup {r.conn}
  PROVE  HandMove(task, available, conn, in_use, strays, t, r, available', conn', in_use', strays')
<1>1. Len(available) \in Nat /\ Len(available') \in Nat
  BY DEF PoolInv, PoolTyped, PSub
<1>2. Len(available') <= MAX_KEEPALIVE
  BY <1>1, PoolAssumption DEF PoolInv, PHand, PSub
<1>3. \A c \in in_use' : \/ c \in strays'
                         \/ c \in in_use /\ ~(task[t].at \in PHands /\ task[t].conn = c)
                         \/ r.at \in PHands /\ r.conn = c
  OBVIOUS
<1>4. \A i \in 1..Len(available') : \E j \in 1..Len(available) : available[j] = available'[i]
  BY DEF PSub
<1>5. \A i, j \in 1..Len(available') : available'[i] = available'[j] => i = j
  BY DEF PSub
<1> QED
  BY <1>2, <1>3, <1>4, <1>5 DEF HandMove

\* A step that enters nothing in the list.
LEMMA ListLess ==
  ASSUME PoolInv, NEW t \in Threads, NEW r \in PTask, ConnKept(conn, conn'),
         connections' \in Seq(PSlots), Len(connections') <= Len(connections),
         \A q \in 1..Len(connections') : \E p \in 1..Len(connections) : connections'[q] = connections[p],
         strays \subseteq strays', bypassed => bypassed',
         \A u \in Threads : u # t /\ task[u].at \in PLocked => plock' = {u},
         r.at \in PLocked => plock' = {t},
         bypassed' \/ \A u \in Threads : u # t /\ task[u].at \in PLocked => connections' = connections,
         bypassed' \/ PBusy(r, connections', conn'),
         bypassed' \/ \A p \in 1..Len(connections) :
            connections[p] \in PoolConns /\ conn'[connections[p]] = "open" /\ connections[p] \notin strays' =>
               \E q \in 1..Len(connections') : connections'[q] = connections[p]
  PROVE  ListMove(task, connections, conn, strays, plock, bypassed, t, r, connections', conn', strays', plock', bypassed')
<1>1. Len(connections) \in Nat /\ Len(connections') \in Nat
  BY DEF PoolInv, PoolTyped
<1>2. PMade(connections', conn')
  BY DEF PoolInv, PList, PMade, ConnKept
<1>3. CASE bypassed'
  BY <1>2, <1>3 DEF ListMove, ConnKept
<1>4. CASE ~bypassed'
  <2>1. Len(connections) <= MAX_CONNECTIONS /\ PKnown(connections, conn, strays)
    BY <1>4 DEF PoolInv, PList
  <2>2. Len(connections') <= MAX_CONNECTIONS
    BY <1>1, <2>1, PoolAssumption
  <2>3. ASSUME NEW c \in PoolConns, conn'[c] = "open", c \notin strays' PROVE \E q \in 1..Len(connections') : connections'[q] = c
    <3>1. conn[c] = "open" /\ c \notin strays
      BY <2>3 DEF ConnKept
    <3>2. PICK p \in 1..Len(connections) : connections[p] = c
      BY <2>1, <3>1 DEF PKnown
    <3> QED
      BY <1>4, <2>3, <3>2
  <2>4. PKnown(connections', conn', strays')
    BY <2>3 DEF PKnown
  <2> QED
    BY <1>2, <1>4, <2>2, <2>4 DEF ListMove, ConnKept
<1> QED
  BY <1>3, <1>4

\* A step that leaves the list as it is.
LEMMA ListSame ==
  ASSUME PoolInv, NEW t \in Threads, NEW r \in PTask, ConnKept(conn, conn'),
         connections' = connections, strays \subseteq strays', bypassed' = bypassed,
         \A u \in Threads : u # t /\ task[u].at \in PLocked => plock' = {u},
         r.at \in PLocked => plock' = {t},
         bypassed \/ PBusy(r, connections, conn')
  PROVE  ListMove(task, connections, conn, strays, plock, bypassed, t, r, connections', conn', strays', plock', bypassed')
<1>1. connections' \in Seq(PSlots) /\ Len(connections) \in Nat /\ Len(connections') <= Len(connections)
  BY DEF PoolInv, PoolTyped
<1> QED
  BY <1>1, ListLess

LEMMA LockFree == ASSUME PoolInv, plock = {} PROVE \A u \in Threads : task[u].at \notin PLocked
  BY DEF PoolInv, PList

LEMMA OnlyHolder ==
  ASSUME PoolInv, NEW t \in Threads, task[t].at \in PLocked
  PROVE  \A u \in Threads : u # t => task[u].at \notin PLocked
  BY DEF PoolInv, PList

\* The lock holders stay what they are when the lock does.
LEMMA Others ==
  ASSUME PoolInv, NEW t \in Threads, plock' = plock \/ plock' = plock \ {t}
  PROVE  \A u \in Threads : u # t /\ task[u].at \in PLocked => plock' = {u}
  BY DEF PoolInv, PList

LEMMA SubSame == ASSUME PoolInv PROVE PSub(available, available)
<1>1. Len(available) \in Nat /\ available \in Seq(PoolConns)
  BY DEF PoolInv, PoolTyped
<1> QED
  BY <1>1 DEF PoolInv, PHand, PSub

LEMMA SubNone == ASSUME PoolInv PROVE PSub(available, <<>>)
<1>1. Len(available) \in Nat
  BY DEF PoolInv, PoolTyped
<1>2. Len(<<>>) = 0 /\ <<>> \in Seq(PoolConns)
  OBVIOUS
<1> QED
  BY <1>1, <1>2 DEF PSub

\* The first of the available connections.
LEMMA SubFirst ==
  ASSUME PoolInv, NEW k \in 0..Len(available), NEW c, c = SubSeq(available, 1, k)
  PROVE  /\ PSub(available, c) /\ Len(c) = k /\ \A i \in 1..k : c[i] = available[i]
<1>1. Len(available) \in Nat /\ available \in Seq(PoolConns) /\ k \in Nat /\ k <= Len(available)
  BY DEF PoolInv, PoolTyped
<1>2. /\ c \in Seq(PoolConns) /\ Len(c) = (IF 1 <= k THEN (k - 1) + 1 ELSE 0)
      /\ \A i \in 1..Len(c) : c[i] = available[(1 + i) - 1]
  BY <1>1, Sliced
<1>3. Len(c) = k
  BY <1>1, <1>2
<1>4. \A i \in 1..k : c[i] = available[i] /\ i \in 1..Len(available)
  <2>1. \A i \in 1..k : (1 + i) - 1 = i /\ i \in 1..Len(available)
    BY <1>1
  <2> QED
    BY <1>2, <1>3, <2>1
<1> QED
  BY <1>1, <1>2, <1>3, <1>4 DEF PSub, PoolInv, PHand

LEMMA ConnSame == ASSUME PoolInv PROVE ConnKept(conn, conn)
  BY DEF PoolInv, PoolTyped, ConnKept

LEMMA ConnShut ==
  ASSUME PoolInv, NEW S, Pool!Shut(S)
  PROVE  ConnKept(conn, conn') /\ \A c \in PoolConns : conn'[c] = IF c \in S THEN "shut" ELSE conn[c]
  BY DEF PoolInv, PoolTyped, ConnKept, Pool!Shut, PStates

LEMMA IdleTask == Pool!Idle \in PTask /\ Pool!Idle.at = "idle"
<1>1. <<>> \in Seq(PSlots)
  OBVIOUS
<1> QED
  BY <1>1 DEF Pool!Idle, PTask, PPlaces, PSlots

LEMMA TaskIs ==
  ASSUME NEW at \in PPlaces, NEW c \in PSlots, NEW n \in Nat, NEW todo \in Seq(PSlots)
  PROVE  [at |-> at, conn |-> c, n |-> n, todo |-> todo] \in PTask
  BY DEF PTask

-----------------------------------------------------------------------------
\* The loop over the available connections, and what follows it.
LEMMA ScanStep ==
  ASSUME PoolInv, NEW t \in Threads, NEW cs, task[t].at \notin PHands, ConnKept(conn, conn'), strays' = strays, Pool!Scan(t, cs)
  PROVE  \E r \in PTask :
            /\ task' = [task EXCEPT ![t] = r]
            /\ available' \in Seq(PoolConns) /\ in_use' \subseteq PoolConns
            /\ HandMove(task, available, conn, in_use, strays, t, r, available', conn', in_use', strays')
            /\ r.at \in {"using", "closing", "creating", "idle"}
            /\ r.at = "creating" => Len(cs) < MAX_CONNECTIONS
            /\ plock' = IF r.at \in PLocked THEN {t} ELSE {}
<1>0. /\ available \in Seq(PoolConns) /\ Len(available) \in Nat /\ in_use \subseteq PoolConns
      /\ <<>> \in Seq(PSlots) /\ 0 \in PSlots /\ PoolConns \subseteq PSlots
  BY DEF PoolInv, PoolTyped, PSlots
<1>1. ASSUME available # <<>>
      PROVE  /\ Len(available) \in 1..Len(available) /\ Pool!Last(available) = available[Len(available)]
             /\ Pool!Last(available) \in PoolConns
             /\ PSub(available, Pool!Front(available)) /\ Len(Pool!Front(available)) = Len(available) - 1
             /\ \A i \in 1..Len(Pool!Front(available)) : Pool!Front(available)[i] # Pool!Last(available)
  <2>1. Len(available) > 0
    BY <1>0, <1>1
  <2>2. PICK k : k = Len(available) - 1
    OBVIOUS
  <2>3. k \in 0..Len(available) /\ k \in Nat
    BY <1>0, <2>1, <2>2
  <2>4. PICK f : f = SubSeq(available, 1, k)
    OBVIOUS
  <2>5. f = Pool!Front(available)
    BY <2>2, <2>4 DEF Pool!Front
  <2>6. PSub(available, f) /\ Len(f) = k /\ \A i \in 1..k : f[i] = available[i]
    BY <2>3, <2>4, SubFirst
  <2>7. Len(available) \in 1..Len(available) /\ Pool!Last(available) = available[Len(available)]
    BY <1>0, <2>1 DEF Pool!Last
  <2>8. Pool!Last(available) \in PoolConns
    BY <1>0, <2>7, ElementOfSeq
  <2>9. \A i \in 1..k : i \in 1..Len(available) /\ i # Len(available)
    BY <1>0, <2>2, <2>3
  <2>10. \A i \in 1..k : available[i] # available[Len(available)]
    BY <2>7, <2>9 DEF PoolInv, PHand
  <2> QED
    BY <2>2, <2>5, <2>6, <2>7, <2>8, <2>10
<1>2. CASE available # <<>> /\ Pool!_is_valid(Pool!Last(available))
  <2>1. PICK c, r : c = Pool!Last(available) /\ r = [at |-> "using", conn |-> c, n |-> 0, todo |-> <<>>]
    OBVIOUS
  <2>2. /\ available' = Pool!Front(available) /\ in_use' = in_use \cup {c} /\ plock' = {}
        /\ task' = [task EXCEPT ![t] = r]
    BY <1>2, <2>1 DEF Pool!Scan, Pool!Goto
  <2>3. c \in PoolConns /\ r \in PTask /\ r.at = "using" /\ r.conn = c
    BY <1>0, <1>1, <1>2, <2>1, TaskIs DEF PPlaces
  <2>5. conn'[c] # "none" /\ \A u \in Threads : task[u].at \in PHands => task[u].conn # c
    BY <1>1, <1>2, <2>1, <2>3 DEF PoolInv, PHand, ConnKept
  <2>6. HandMove(task, available, conn, in_use, strays, t, r, available', conn', in_use', strays')
    <3>1. /\ PSub(available, available') /\ \A i \in 1..Len(available') : available'[i] # r.conn
          /\ \A d \in PoolConns : conn[d] # "none" => conn'[d] # "none"
          /\ in_use' \subseteq in_use \cup {r.conn} /\ r.at \in PHands
      BY <1>1, <1>2, <2>1, <2>2, <2>3 DEF ConnKept, PHands
    <3> QED
      BY <2>3, <2>5, <3>1, HandsTake
  <2> QED
    BY <1>0, <1>1, <1>2, <2>2, <2>3, <2>6 DEF PSub, PLocked
<1>3. CASE available # <<>> /\ ~Pool!_is_valid(Pool!Last(available))
  <2>1. PICK c, r : c = Pool!Last(available) /\ r = [at |-> "closing", conn |-> c, n |-> 0, todo |-> <<>>]
    OBVIOUS
  <2>2. /\ available' = Pool!Front(available) /\ in_use' = in_use /\ plock' = {t}
        /\ task' = [task EXCEPT ![t] = r]
    BY <1>3, <2>1 DEF Pool!Scan, Pool!Goto
  <2>3. r \in PTask /\ r.at = "closing"
    BY <1>0, <1>1, <1>3, <2>1, TaskIs DEF PPlaces
  <2>4. HandMove(task, available, conn, in_use, strays, t, r, available', conn', in_use', strays')
    BY <1>1, <1>3, <2>2, <2>3, HandsEmpty DEF PHands
  <2> QED
    BY <1>0, <1>1, <1>3, <2>2, <2>3, <2>4 DEF PSub, PLocked
<1>4. CASE available = <<>> /\ Len(cs) < MAX_CONNECTIONS /\ factory
  <2>1. PICK r : r = [at |-> "creating", conn |-> 0, n |-> 0, todo |-> <<>>]
    OBVIOUS
  <2>2. available' = available /\ in_use' = in_use /\ plock' = {t} /\ task' = [task EXCEPT ![t] = r]
    BY <1>4, <2>1 DEF Pool!Scan, Pool!Goto
  <2>3. r \in PTask /\ r.at = "creating"
    BY <1>0, <2>1, TaskIs DEF PPlaces
  <2>4. HandMove(task, available, conn, in_use, strays, t, r, available', conn', in_use', strays')
    BY <2>2, <2>3, HandsEmpty, SubSame DEF PHands
  <2> QED
    BY <1>0, <1>4, <2>2, <2>3, <2>4 DEF PLocked
<1>5. CASE available = <<>> /\ ~(Len(cs) < MAX_CONNECTIONS /\ factory)
  <2>1. available' = available /\ in_use' = in_use /\ plock' = {} /\ task' = [task EXCEPT ![t] = Pool!Idle]
    BY <1>5 DEF Pool!Scan, Pool!Return
  <2>2. HandMove(task, available, conn, in_use, strays, t, Pool!Idle, available', conn', in_use', strays')
    BY <2>1, HandsEmpty, SubSame, IdleTask DEF PHands
  <2> QED
    BY <1>0, <2>1, <2>2, IdleTask DEF PLocked
<1> QED
  BY <1>2, <1>3, <1>4, <1>5

\* What a step leaves alone keeps its type.
LEMMA PoolTypes ==
  ASSUME PoolInv
  PROVE  /\ task \in [Threads -> PTask] /\ connections \in Seq(PSlots) /\ available \in Seq(PoolConns)
         /\ conn \in [PoolConns -> PStates] /\ in_use \subseteq PoolConns /\ strays \subseteq PoolConns
         /\ Len(connections) \in Nat /\ Len(available) \in Nat /\ <<>> \in Seq(PSlots) /\ <<>> \in Seq(PoolConns)
         /\ 0 \in PSlots /\ PoolConns \subseteq PSlots
  BY DEF PoolInv, PoolTyped, PSlots

LEMMA WantStep ==
  ASSUME PoolInv, NEW t \in Threads, Pool!Want(t)
  PROVE  PoolInv'
<1>1. PICK r : r = [at |-> "want", conn |-> 0, n |-> 0, todo |-> <<>>]
  OBVIOUS
<1>2. r \in PTask /\ r.at = "want"
  BY <1>1, PoolTypes, TaskIs DEF PPlaces
<1>3. /\ task[t].at = "idle" /\ task' = [task EXCEPT ![t] = r]
      /\ UNCHANGED <<connections, available, in_use, conn, plock, strays, bypassed>>
  BY <1>1 DEF Pool!Want, Pool!Goto, Pool!pool, Pool!history
<1>4. HandMove(task, available, conn, in_use, strays, t, r, available', conn', in_use', strays')
  BY <1>2, <1>3, HandsEmpty, SubSame, ConnSame DEF PHands
<1>5. ListMove(task, connections, conn, strays, plock, bypassed, t, r, connections', conn', strays', plock', bypassed')
  <2>1. r.at \notin PLocked /\ PBusy(r, connections, conn')
    BY <1>2 DEF PLocked, PBusy
  <2> QED
    BY <1>2, <1>3, <2>1, ListSame, ConnSame, Others
<1> QED
  BY <1>2, <1>3, <1>4, <1>5, PoolTypes, PoolMoved

LEMMA AcquireStep ==
  ASSUME PoolInv, NEW t \in Threads, Pool!acquire(t)
  PROVE  PoolInv'
<1>1. /\ task[t].at = "want" /\ plock = {} /\ UNCHANGED <<connections, conn, strays, bypassed>>
      /\ IF closed THEN Pool!Return(t) /\ UNCHANGED <<available, in_use, plock>> ELSE Pool!Scan(t, connections)
  BY DEF Pool!acquire, Pool!history
<1>2. \A u \in Threads : task[u].at \notin PLocked
  BY <1>1, LockFree
<1>3. CASE closed
  <2>1. task' = [task EXCEPT ![t] = Pool!Idle] /\ UNCHANGED <<available, in_use, plock>>
    BY <1>1, <1>3 DEF Pool!Return
  <2>2. HandMove(task, available, conn, in_use, strays, t, Pool!Idle, available', conn', in_use', strays')
    BY <1>1, <2>1, HandsEmpty, SubSame, ConnSame, IdleTask DEF PHands
  <2>3. ListMove(task, connections, conn, strays, plock, bypassed, t, Pool!Idle, connections', conn', strays', plock', bypassed')
    <3>1. Pool!Idle.at \notin PLocked /\ PBusy(Pool!Idle, connections, conn')
      BY IdleTask DEF PLocked, PBusy
    <3> QED
      BY <1>1, <1>2, <2>1, <3>1, ListSame, ConnSame, IdleTask
  <2> QED
    BY <1>1, <2>1, <2>2, <2>3, PoolTypes, PoolMoved, IdleTask
<1>4. CASE ~closed
  <2>1. Pool!Scan(t, connections) /\ task[t].at \notin PHands /\ ConnKept(conn, conn')
    BY <1>1, <1>4, ConnSame DEF PHands
  <2>2. PICK r \in PTask :
            /\ task' = [task EXCEPT ![t] = r]
            /\ available' \in Seq(PoolConns) /\ in_use' \subseteq PoolConns
            /\ HandMove(task, available, conn, in_use, strays, t, r, available', conn', in_use', strays')
            /\ r.at \in {"using", "closing", "creating", "idle"}
            /\ r.at = "creating" => Len(connections) < MAX_CONNECTIONS
            /\ plock' = IF r.at \in PLocked THEN {t} ELSE {}
    BY <1>1, <2>1, ScanStep
  <2>3. PBusy(r, connections, conn')
    BY <2>2 DEF PBusy
  <2>4. ListMove(task, connections, conn, strays, plock, bypassed, t, r, connections', conn', strays', plock', bypassed')
    BY <1>1, <1>2, <2>1, <2>2, <2>3, ListSame
  <2> QED
    BY <1>1, <2>2, <2>4, PoolTypes, PoolMoved
<1> QED
  BY <1>3, <1>4

\* What remove takes out of the list of connections, when the connection is closed or a stray.
LEMMA ListRemoved ==
  ASSUME PoolInv, NEW t \in Threads, NEW r \in PTask, ConnKept(conn, conn'), NEW c, connections' = Pool!RemoveFirst(connections, c),
         strays \subseteq strays', bypassed => bypassed',
         \A u \in Threads : u # t /\ task[u].at \in PLocked => plock' = {u},
         r.at \in PLocked => plock' = {t},
         bypassed' \/ \A u \in Threads : u # t /\ task[u].at \in PLocked => connections' = connections,
         bypassed' \/ PBusy(r, connections', conn'),
         c \in PoolConns => c \in strays' \/ conn'[c] # "open"
  PROVE  /\ connections' \in Seq(PSlots)
         /\ ListMove(task, connections, conn, strays, plock, bypassed, t, r, connections', conn', strays', plock', bypassed')
<1>1. PICK cs2 : cs2 = connections'
  OBVIOUS
<1>2. cs2 \in Seq(PSlots) /\ PLeft(connections, c, cs2)
  BY <1>1, PoolTypes, FirstGone
<1>3. /\ Len(cs2) <= Len(connections)
      /\ \A q \in 1..Len(cs2) : \E p \in 1..Len(connections) : cs2[q] = connections[p]
      /\ \A p \in 1..Len(connections) :
            connections[p] \in PoolConns /\ conn'[connections[p]] = "open" /\ connections[p] \notin strays' =>
               \E q \in 1..Len(cs2) : cs2[q] = connections[p]
  BY <1>2 DEF PLeft
<1> QED
  BY <1>1, <1>2, <1>3, ListLess

LEMMA ClosedCandidateStep ==
  ASSUME PoolInv, NEW t \in Threads, Pool!closed_candidate(t)
  PROVE  PoolInv'
<1>1. PICK c : c = task[t].conn
  OBVIOUS
<1>2. /\ task[t].at = "closing" /\ Pool!Shut({c}) /\ connections' = Pool!RemoveFirst(connections, c)
      /\ UNCHANGED <<strays, bypassed>>
      /\ IF Pool!Contains(connections, c) THEN Pool!Scan(t, connections')
         ELSE plock' = {} /\ Pool!Return(t) /\ UNCHANGED <<available, in_use>>
  BY <1>1 DEF Pool!closed_candidate, Pool!history
<1>3. \A u \in Threads : u # t => task[u].at \notin PLocked
  BY <1>2, OnlyHolder DEF PLocked
<1>4. ConnKept(conn, conn') /\ (c \in PoolConns => conn'[c] # "open")
  BY <1>2, ConnShut
<1>5. task[t].at \notin PHands
  BY <1>2 DEF PHands
<1>6. \E r \in PTask :
            /\ task' = [task EXCEPT ![t] = r]
            /\ available' \in Seq(PoolConns) /\ in_use' \subseteq PoolConns
            /\ HandMove(task, available, conn, in_use, strays, t, r, available', conn', in_use', strays')
            /\ r.at \in {"using", "closing", "creating", "idle"}
            /\ r.at = "creating" => Len(connections') < MAX_CONNECTIONS
            /\ plock' = IF r.at \in PLocked THEN {t} ELSE {}
  <2>1. CASE Pool!Contains(connections, c)
    BY <1>2, <1>4, <1>5, <2>1, ScanStep
  <2>2. CASE ~Pool!Contains(connections, c)
    <3>1. plock' = {} /\ task' = [task EXCEPT ![t] = Pool!Idle] /\ UNCHANGED <<available, in_use>>
      BY <1>2, <2>2 DEF Pool!Return
    <3>2. HandMove(task, available, conn, in_use, strays, t, Pool!Idle, available', conn', in_use', strays')
      BY <1>2, <1>4, <1>5, <3>1, HandsEmpty, SubSame, IdleTask DEF PHands
    <3>3. Pool!Idle.at \notin PLocked /\ Pool!Idle.at # "creating"
      BY IdleTask DEF PLocked
    <3> QED
      BY <3>1, <3>2, <3>3, IdleTask, PoolTypes
  <2> QED
    BY <2>1, <2>2
<1>7. PICK r \in PTask :
            /\ task' = [task EXCEPT ![t] = r]
            /\ available' \in Seq(PoolConns) /\ in_use' \subseteq PoolConns
            /\ HandMove(task, available, conn, in_use, strays, t, r, available', conn', in_use', strays')
            /\ r.at \in {"using", "closing", "creating", "idle"}
            /\ r.at = "creating" => Len(connections') < MAX_CONNECTIONS
            /\ plock' = IF r.at \in PLocked THEN {t} ELSE {}
  BY <1>6
<1>8. PBusy(r, connections', conn')
  BY <1>7 DEF PBusy
<1>9. /\ connections' \in Seq(PSlots)
      /\ ListMove(task, connections, conn, strays, plock, bypassed, t, r, connections', conn', strays', plock', bypassed')
  BY <1>2, <1>3, <1>4, <1>7, <1>8, ListRemoved
<1> QED
  BY <1>2, <1>4, <1>7, <1>9, PoolTypes, PoolMoved DEF ConnKept

\* A task that gives its connection back or is cancelled: the connection is nobody's, offered
\* again, or a stray.
LEMMA HandsDrop ==
  ASSUME PoolInv, NEW t \in Threads, NEW r \in PTask, task[t].at \in PHands, r.at \notin PHands,
         ConnKept(conn, conn'), strays \subseteq strays', in_use' \subseteq in_use,
         task[t].conn \in in_use' => task[t].conn \in strays',
         \/ available' = available
         \/ available' = Append(available, task[t].conn) /\ Len(available) < MAX_KEEPALIVE
  PROVE  /\ available' \in Seq(PoolConns)
         /\ HandMove(task, available, conn, in_use, strays, t, r, available', conn', in_use', strays')
<1>1. PICK c : c = task[t].conn
  OBVIOUS
<1>2. c \in PoolConns /\ \A i \in 1..Len(available) : available[i] # c
  BY <1>1 DEF PoolInv, PHand
<1>3. CASE available' = available
  BY <1>1, <1>2, <1>3, PoolTypes DEF HandMove, ConnKept, PoolInv, PHand
<1>4. CASE available' = Append(available, task[t].conn) /\ Len(available) < MAX_KEEPALIVE
  <2>1. PICK a : a = available'
    OBVIOUS
  <2>2. /\ a \in Seq(PoolConns) /\ Len(a) = Len(available) + 1 /\ a[Len(available) + 1] = c
        /\ \A i \in 1..Len(available) : a[i] = available[i]
    BY <1>1, <1>2, <1>4, <2>1, PoolTypes
  <2>3. \A i \in 1..Len(a) : i \in 1..Len(available) \/ i = Len(available) + 1
    BY <2>2, PoolTypes
  <2>4. \A i, j \in 1..Len(a) : a[i] = a[j] => i = j
    BY <1>2, <2>2, <2>3 DEF PoolInv, PHand
  <2>5. Len(a) <= MAX_KEEPALIVE
    BY <1>4, <2>2, PoolTypes, PoolAssumption
  <2>6. \A i \in 1..Len(a) : (\E j \in 1..Len(available) : available[j] = a[i]) \/ a[i] = c
    BY <2>2, <2>3
  <2> QED
    BY <1>1, <2>1, <2>2, <2>4, <2>5, <2>6 DEF HandMove, ConnKept
<1> QED
  BY <1>3, <1>4

LEMMA LeaveStep ==
  ASSUME PoolInv, NEW t \in Threads, NEW r \in PTask, task[t].at = "using", task' = [task EXCEPT ![t] = r],
         r.at = "returning", r.conn = task[t].conn,
         UNCHANGED <<connections, available, in_use, conn, strays, bypassed>>, plock' = plock \/ plock' = plock \ {t}
  PROVE  PoolInv'
<1>1. HandMove(task, available, conn, in_use, strays, t, r, available', conn', in_use', strays')
  BY PoolTypes DEF HandMove, PoolInv, PHand, PHands
<1>2. ListMove(task, connections, conn, strays, plock, bypassed, t, r, connections', conn', strays', plock', bypassed')
  <2>1. r.at \notin PLocked /\ PBusy(r, connections, conn')
    BY DEF PLocked, PBusy
  <2> QED
    BY <2>1, ListSame, ConnSame, Others
<1> QED
  BY <1>1, <1>2, PoolTypes, PoolMoved

LEMMA GiveBackStep ==
  ASSUME PoolInv, NEW t \in Threads, Pool!give_back(t)
  PROVE  PoolInv'
<1>1. PICK c : c = task[t].conn
  OBVIOUS
<1>2. /\ task[t].at = "returning" /\ plock = {} /\ in_use' = in_use \ {c}
      /\ IF Pool!_is_valid(c) /\ Len(available) < MAX_KEEPALIVE
         THEN available' = Append(available, c) /\ Pool!Return(t) /\ UNCHANGED plock
         ELSE plock' = {t} /\ Pool!Goto(t, "discarding", c, 0, <<>>) /\ UNCHANGED available
      /\ UNCHANGED <<connections, conn, strays, bypassed>>
  BY <1>1 DEF Pool!give_back, Pool!history
<1>3. \A u \in Threads : task[u].at \notin PLocked
  BY <1>2, LockFree
<1>4. c \in PoolConns /\ task[t].at \in PHands /\ ConnKept(conn, conn')
  BY <1>1, <1>2, ConnSame DEF PoolInv, PHand, PHands
<1>5. \E r \in PTask :
         /\ task' = [task EXCEPT ![t] = r] /\ r.at \in {"idle", "discarding"}
         /\ r.at \in PLocked => plock' = {t}
         /\ \/ available' = available
            \/ available' = Append(available, c) /\ Len(available) < MAX_KEEPALIVE
  <2>1. CASE Pool!_is_valid(c) /\ Len(available) < MAX_KEEPALIVE
    BY <1>2, <2>1, IdleTask DEF Pool!Return, PLocked
  <2>2. CASE ~(Pool!_is_valid(c) /\ Len(available) < MAX_KEEPALIVE)
    <3>1. PICK r : r = [at |-> "discarding", conn |-> c, n |-> 0, todo |-> <<>>]
      OBVIOUS
    <3>2. r \in PTask /\ r.at = "discarding"
      BY <1>4, <3>1, PoolTypes, TaskIs DEF PPlaces
    <3>3. plock' = {t} /\ task' = [task EXCEPT ![t] = r] /\ available' = available
      BY <1>2, <2>2, <3>1 DEF Pool!Goto
    <3> QED
      BY <3>2, <3>3
  <2> QED
    BY <2>1, <2>2
<1>6. PICK r \in PTask :
         /\ task' = [task EXCEPT ![t] = r] /\ r.at \in {"idle", "discarding"}
         /\ r.at \in PLocked => plock' = {t}
         /\ \/ available' = available
            \/ available' = Append(available, c) /\ Len(available) < MAX_KEEPALIVE
  BY <1>5
<1>7. /\ available' \in Seq(PoolConns)
      /\ HandMove(task, available, conn, in_use, strays, t, r, available', conn', in_use', strays')
  BY <1>1, <1>2, <1>4, <1>6, HandsDrop DEF PHands
<1>8. ListMove(task, connections, conn, strays, plock, bypassed, t, r, connections', conn', strays', plock', bypassed')
  <2>1. PBusy(r, connections, conn')
    BY <1>6 DEF PBusy
  <2> QED
    BY <1>2, <1>3, <1>4, <1>6, <2>1, ListSame
<1> QED
  BY <1>2, <1>6, <1>7, <1>8, PoolTypes, PoolMoved

LEMMA DiscardedStep ==
  ASSUME PoolInv, NEW t \in Threads, Pool!discarded(t)
  PROVE  PoolInv'
<1>1. PICK c : c = task[t].conn
  OBVIOUS
<1>2. /\ task[t].at = "discarding" /\ Pool!Shut({c}) /\ connections' = Pool!RemoveFirst(connections, c)
      /\ plock' = {} /\ task' = [task EXCEPT ![t] = Pool!Idle]
      /\ UNCHANGED <<available, in_use, strays, bypassed>>
  BY <1>1 DEF Pool!discarded, Pool!history, Pool!Return
<1>3. \A u \in Threads : u # t => task[u].at \notin PLocked
  BY <1>2, OnlyHolder DEF PLocked
<1>4. ConnKept(conn, conn') /\ (c \in PoolConns => conn'[c] # "open")
  BY <1>2, ConnShut
<1>5. HandMove(task, available, conn, in_use, strays, t, Pool!Idle, available', conn', in_use', strays')
  BY <1>2, <1>4, HandsEmpty, SubSame, IdleTask DEF PHands
<1>6. Pool!Idle.at \notin PLocked /\ PBusy(Pool!Idle, connections', conn')
  BY IdleTask DEF PLocked, PBusy
<1>7. /\ connections' \in Seq(PSlots)
      /\ ListMove(task, connections, conn, strays, plock, bypassed, t, Pool!Idle, connections', conn', strays', plock', bypassed')
  BY <1>2, <1>3, <1>4, <1>6, ListRemoved, IdleTask
<1> QED
  BY <1>2, <1>4, <1>5, <1>7, PoolTypes, PoolMoved, IdleTask DEF ConnKept

\* A step that enters one connection, or None, in what is left of the list.
LEMMA ListMore ==
  ASSUME PoolInv, NEW t \in Threads, NEW r \in PTask, conn' \in [PoolConns -> PStates],
         NEW listed \in Seq(PSlots), NEW e \in PSlots, connections' = Append(listed, e),
         \A q \in 1..Len(listed) : \E p \in 1..Len(connections) : listed[q] = connections[p],
         \A c \in PoolConns : conn[c] # "none" => conn'[c] # "none",
         \A c \in PoolConns : conn'[c] = "open" => conn[c] \in {"open", "none"},
         e \in PoolConns => conn'[e] # "none",
         bypassed => bypassed',
         \A u \in Threads : u # t /\ task[u].at \in PLocked => plock' = {u},
         r.at \notin PLocked,
         bypassed' \/ \A u \in Threads : u # t /\ task[u].at \in PLocked => connections' = connections,
         bypassed' \/ Len(listed) < MAX_CONNECTIONS,
         bypassed' \/ \A c \in PoolConns :
            conn'[c] = "open" /\ c \notin strays' => c = e \/ \E q \in 1..Len(listed) : listed[q] = c
  PROVE  /\ connections' \in Seq(PSlots)
         /\ ListMove(task, connections, conn, strays, plock, bypassed, t, r, connections', conn', strays', plock', bypassed')
<1>1. PICK cs2, n : cs2 = connections' /\ n = Len(listed)
  OBVIOUS
<1>2. /\ n \in Nat /\ cs2 \in Seq(PSlots) /\ Len(cs2) = n + 1 /\ cs2[n + 1] = e
      /\ \A i \in 1..n : cs2[i] = listed[i]
  BY <1>1
<1>3. \A i \in 1..Len(cs2) : i \in 1..n \/ i = n + 1
  BY <1>2
<1>4. \A i \in 1..n : i \in 1..Len(cs2)
  BY <1>2
<1>5. PMade(cs2, conn')
  <2>1. ASSUME NEW i \in 1..Len(cs2), cs2[i] \in PoolConns PROVE conn'[cs2[i]] # "none"
    <3>1. CASE i \in 1..n
      <4>1. PICK p \in 1..Len(connections) : cs2[i] = connections[p]
        BY <1>1, <1>2, <3>1
      <4> QED
        BY <2>1, <4>1 DEF PoolInv, PList, PMade
    <3>2. CASE i = n + 1
      BY <1>2, <2>1, <3>2
    <3> QED
      BY <1>3, <3>1, <3>2
  <2> QED
    BY <2>1 DEF PMade
<1>6. bypassed' \/ Len(cs2) <= MAX_CONNECTIONS
  BY <1>1, <1>2, PoolAssumption
<1>7. bypassed' \/ PKnown(cs2, conn', strays')
  <2>1. ASSUME ~bypassed', NEW c \in PoolConns, conn'[c] = "open", c \notin strays' PROVE \E i \in 1..Len(cs2) : cs2[i] = c
    <3>1. CASE c = e
      <4>1. n + 1 \in 1..Len(cs2)
        BY <1>2
      <4> QED
        BY <1>2, <3>1, <4>1
    <3>2. CASE \E q \in 1..Len(listed) : listed[q] = c
      BY <1>1, <1>2, <1>4, <3>2
    <3> QED
      BY <2>1, <3>1, <3>2
  <2> QED
    BY <2>1 DEF PKnown
<1>8. PBusy(r, cs2, conn')
  BY DEF PBusy, PLocked
<1> QED
  BY <1>1, <1>2, <1>5, <1>6, <1>7, <1>8 DEF ListMove

LEMMA CreateStep ==
  ASSUME PoolInv, NEW t \in Threads, NEW ok \in BOOLEAN, Pool!_create_connection(t, ok)
  PROVE  PoolInv'
<1>1. PICK c : c = CHOOSE f \in Pool!Fresh : TRUE
  OBVIOUS
<1>2. /\ task[t].at = "creating" /\ Pool!Fresh # {} /\ UNCHANGED <<available, strays, bypassed>>
      /\ CASE ok -> /\ conn' = [conn EXCEPT ![c] = "open"] /\ connections' = Append(connections, c)
                    /\ in_use' = in_use \cup {c} /\ plock' = {} /\ Pool!Goto(t, "using", c, 0, <<>>)
           [] ~ok /\ task[t].n < CONNECT_RETRIES -> /\ Pool!Goto(t, "creating", 0, task[t].n + 1, <<>>)
                                                    /\ UNCHANGED <<conn, connections, in_use, plock>>
           [] OTHER -> Pool!Return(t) /\ plock' = {} /\ UNCHANGED <<conn, connections, in_use>>
  BY <1>1, Zenon DEF Pool!_create_connection, Pool!history
<1>3. \A u \in Threads : u # t => task[u].at \notin PLocked
  BY <1>2, OnlyHolder DEF PLocked
<1>4. task[t].at \notin PHands
  BY <1>2 DEF PHands
<1>5. CASE ok
  <2>1. PICK r : r = [at |-> "using", conn |-> c, n |-> 0, todo |-> <<>>]
    OBVIOUS
  <2>2. /\ conn' = [conn EXCEPT ![c] = "open"] /\ connections' = Append(connections, c)
        /\ in_use' = in_use \cup {c} /\ plock' = {} /\ task' = [task EXCEPT ![t] = r]
    BY <1>2, <1>5, <2>1 DEF Pool!Goto
  <2>3. c \in PoolConns /\ conn[c] = "none"
    BY <1>1, <1>2 DEF Pool!Fresh
  <2>4. r \in PTask /\ r.at = "using" /\ r.conn = c
    BY <2>1, <2>3, PoolTypes, TaskIs DEF PPlaces
  <2>5. conn' \in [PoolConns -> PStates] /\ \A d \in PoolConns : conn'[d] = IF d = c THEN "open" ELSE conn[d]
    BY <2>2, <2>3, PoolTypes DEF PStates
  <2>6. /\ \A i \in 1..Len(available) : available[i] # c
        /\ \A u \in Threads : task[u].at \in PHands => task[u].conn # c
    BY <2>3 DEF PoolInv, PHand
  <2>7. HandMove(task, available, conn, in_use, strays, t, r, available', conn', in_use', strays')
    BY <1>2, <1>4, <2>2, <2>3, <2>4, <2>5, <2>6, HandsTake, SubSame DEF PHands
  <2>8. bypassed' \/ (Len(connections) < MAX_CONNECTIONS /\ PKnown(connections, conn, strays))
    BY <1>2 DEF PoolInv, PList, PBusy
  <2>9. bypassed' \/ \A d \in PoolConns :
           conn'[d] = "open" /\ d \notin strays' => d = c \/ \E q \in 1..Len(connections) : connections[q] = d
    BY <1>2, <2>5, <2>8 DEF PKnown
  <2>10. /\ connections' \in Seq(PSlots)
         /\ ListMove(task, connections, conn, strays, plock, bypassed, t, r, connections', conn', strays', plock', bypassed')
    <3>1. PICK listed, e : listed = connections /\ e = c
      OBVIOUS
    <3>2. /\ listed \in Seq(PSlots) /\ e \in PSlots /\ connections' = Append(listed, e)
          /\ \A q \in 1..Len(listed) : \E p \in 1..Len(connections) : listed[q] = connections[p]
          /\ e \in PoolConns => conn'[e] # "none"
          /\ bypassed' \/ Len(listed) < MAX_CONNECTIONS
          /\ bypassed' \/ \A d \in PoolConns :
                conn'[d] = "open" /\ d \notin strays' => d = e \/ \E q \in 1..Len(listed) : listed[q] = d
      BY <2>2, <2>3, <2>5, <2>8, <2>9, <3>1, PoolTypes
    <3>3. /\ \A d \in PoolConns : conn[d] # "none" => conn'[d] # "none"
          /\ \A d \in PoolConns : conn'[d] = "open" => conn[d] \in {"open", "none"}
          /\ r.at \notin PLocked
      BY <2>3, <2>4, <2>5 DEF PLocked
    <3>4. /\ \A u \in Threads : u # t /\ task[u].at \in PLocked => plock' = {u}
          /\ bypassed' \/ \A u \in Threads : u # t /\ task[u].at \in PLocked => connections' = connections
          /\ bypassed => bypassed'
      BY <1>2, <1>3
    <3> QED
      BY <2>4, <2>5, <3>2, <3>3, <3>4, ListMore
  <2> QED
    BY <1>2, <2>2, <2>3, <2>4, <2>5, <2>7, <2>10, PoolTypes, PoolMoved
<1>6. CASE ~ok /\ task[t].n < CONNECT_RETRIES
  <2>1. PICK r : r = [at |-> "creating", conn |-> 0, n |-> task[t].n + 1, todo |-> <<>>]
    OBVIOUS
  <2>2. task' = [task EXCEPT ![t] = r] /\ UNCHANGED <<conn, connections, in_use, plock>>
    BY <1>2, <1>6, <2>1 DEF Pool!Goto
  <2>3. task[t].n + 1 \in Nat
    BY PoolTypes DEF PTask
  <2>4. r \in PTask /\ r.at = "creating"
    BY <2>1, <2>3, PoolTypes, TaskIs DEF PPlaces
  <2>5. HandMove(task, available, conn, in_use, strays, t, r, available', conn', in_use', strays')
    BY <1>2, <1>4, <2>2, <2>4, HandsEmpty, SubSame, ConnSame DEF PHands
  <2>6. bypassed \/ PBusy(r, connections, conn')
    BY <1>2, <2>4 DEF PoolInv, PList, PBusy
  <2>7. plock' = {t}
    BY <1>2, <2>2 DEF PoolInv, PList, PLocked
  <2>8. ListMove(task, connections, conn, strays, plock, bypassed, t, r, connections', conn', strays', plock', bypassed')
    BY <1>2, <1>3, <2>2, <2>4, <2>6, <2>7, ListSame, ConnSame
  <2> QED
    BY <1>2, <2>2, <2>4, <2>5, <2>8, PoolTypes, PoolMoved
<1>7. CASE ~ok /\ ~(task[t].n < CONNECT_RETRIES)
  <2>1. task' = [task EXCEPT ![t] = Pool!Idle] /\ plock' = {} /\ UNCHANGED <<conn, connections, in_use>>
    BY <1>2, <1>7 DEF Pool!Return
  <2>2. HandMove(task, available, conn, in_use, strays, t, Pool!Idle, available', conn', in_use', strays')
    BY <1>2, <1>4, <2>1, HandsEmpty, SubSame, ConnSame, IdleTask DEF PHands
  <2>3. Pool!Idle.at \notin PLocked /\ PBusy(Pool!Idle, connections, conn')
    BY IdleTask DEF PLocked, PBusy
  <2>4. ListMove(task, connections, conn, strays, plock, bypassed, t, Pool!Idle, connections', conn', strays', plock', bypassed')
    BY <1>2, <1>3, <2>1, <2>3, ListSame, ConnSame, IdleTask
  <2> QED
    BY <1>2, <2>1, <2>2, <2>4, PoolTypes, PoolMoved, IdleTask
<1> QED
  BY <1>5, <1>6, <1>7

-----------------------------------------------------------------------------
\* A method without the lock notes that it changed the list while another held it.
LEMMA Bypassed ==
  ASSUME PoolInv, NEW t \in Threads, task[t].at \notin PLocked, Pool!Bypass(t)
  PROVE  /\ bypassed => bypassed'
         /\ bypassed' \/ \A u \in Threads : u # t /\ task[u].at \in PLocked => connections' = connections
<1>1. bypassed' <=> (bypassed \/ (connections' # connections /\ plock \ {t} # {}))
  BY DEF Pool!Bypass
<1>2. \A u \in Threads : u # t /\ task[u].at \in PLocked => plock \ {t} # {}
  BY DEF PoolInv, PList
<1> QED
  BY <1>1, <1>2

\* What closing without await does to a set of connections.
LEMMA ClosedSync ==
  ASSUME PoolInv, NEW S, S \subseteq PoolConns, Pool!_close_connection_sync(S)
  PROVE  /\ ConnKept(conn, conn')
         /\ \A c \in S : conn'[c] = "open" => c \in Pool!Abandoned(S)
<1>1. CASE conn_kind.coroutine
  <2>1. conn' = conn
    BY <1>1 DEF Pool!_close_connection_sync
  <2> QED
    BY <1>1, <2>1, ConnSame DEF Pool!Abandoned
<1>2. CASE ~conn_kind.coroutine
  <2>1. Pool!Shut(S)
    BY <1>2 DEF Pool!_close_connection_sync
  <2> QED
    BY <2>1, ConnShut
<1> QED
  BY <1>1, <1>2

LEMMA AbandonedIs == ASSUME NEW S, S \subseteq PoolConns PROVE Pool!Abandoned(S) \subseteq PoolConns
  BY DEF Pool!Abandoned

LEMMA ReleaseSyncStep ==
  ASSUME PoolInv, NEW t \in Threads, Pool!release_sync(t)
  PROVE  PoolInv'
<1>1. PICK c : c = task[t].conn
  OBVIOUS
<1>2. /\ task[t].at = "using_sync" /\ in_use' = in_use \ {c} /\ task' = [task EXCEPT ![t] = Pool!Idle] /\ plock' = plock
      /\ IF Pool!_is_valid(c) /\ Len(available) < MAX_KEEPALIVE
         THEN available' = Append(available, c) /\ UNCHANGED <<connections, conn, strays, bypassed>>
         ELSE /\ connections' = Pool!RemoveFirst(connections, c) /\ Pool!_close_connection_sync({c})
              /\ Pool!Bypass(t) /\ strays' = strays \cup Pool!Abandoned({c}) /\ UNCHANGED available
  BY <1>1 DEF Pool!release_sync, Pool!history, Pool!Return
<1>3. c \in PoolConns /\ task[t].at \in PHands /\ task[t].at \notin PLocked
  BY <1>1, <1>2 DEF PoolInv, PHand, PHands, PLocked
<1>4. Pool!Idle.at \notin PLocked /\ Pool!Idle.at \notin PHands /\ PBusy(Pool!Idle, connections', conn')
  BY IdleTask DEF PLocked, PHands, PBusy
<1>5. \A u \in Threads : u # t /\ task[u].at \in PLocked => plock' = {u}
  BY <1>2, Others
<1>6. CASE Pool!_is_valid(c) /\ Len(available) < MAX_KEEPALIVE
  <2>1. available' = Append(available, c) /\ UNCHANGED <<connections, conn, strays, bypassed>>
    BY <1>2, <1>6
  <2>2. /\ available' \in Seq(PoolConns)
        /\ HandMove(task, available, conn, in_use, strays, t, Pool!Idle, available', conn', in_use', strays')
    BY <1>1, <1>2, <1>3, <1>4, <1>6, <2>1, HandsDrop, IdleTask, ConnSame
  <2>3. ListMove(task, connections, conn, strays, plock, bypassed, t, Pool!Idle, connections', conn', strays', plock', bypassed')
    BY <1>4, <1>5, <2>1, ListSame, ConnSame, IdleTask
  <2> QED
    BY <1>2, <2>1, <2>2, <2>3, PoolTypes, PoolMoved, IdleTask
<1>7. CASE ~(Pool!_is_valid(c) /\ Len(available) < MAX_KEEPALIVE)
  <2>1. /\ connections' = Pool!RemoveFirst(connections, c) /\ Pool!_close_connection_sync({c})
        /\ Pool!Bypass(t) /\ strays' = strays \cup Pool!Abandoned({c}) /\ available' = available
    BY <1>2, <1>7
  <2>2. ConnKept(conn, conn') /\ (conn'[c] = "open" => c \in Pool!Abandoned({c})) /\ Pool!Abandoned({c}) \subseteq PoolConns
    BY <1>3, <2>1, ClosedSync, AbandonedIs
  <2>3. HandMove(task, available, conn, in_use, strays, t, Pool!Idle, available', conn', in_use', strays')
    <3>1. strays \subseteq strays' /\ in_use' \subseteq in_use /\ (task[t].conn \in in_use' => task[t].conn \in strays')
      BY <1>1, <1>2, <2>1
    <3> QED
      BY <1>3, <1>4, <2>1, <2>2, <3>1, HandsDrop, IdleTask
  <2>4. /\ bypassed => bypassed'
        /\ bypassed' \/ \A u \in Threads : u # t /\ task[u].at \in PLocked => connections' = connections
    BY <1>3, <2>1, Bypassed
  <2>5. /\ connections' \in Seq(PSlots)
        /\ ListMove(task, connections, conn, strays, plock, bypassed, t, Pool!Idle, connections', conn', strays', plock', bypassed')
    <3>1. strays \subseteq strays' /\ (c \in PoolConns => c \in strays' \/ conn'[c] # "open")
      BY <2>1, <2>2
    <3> QED
      BY <1>4, <1>5, <2>1, <2>2, <2>4, <3>1, ListRemoved, IdleTask
  <2>6. strays' \subseteq PoolConns /\ in_use' \subseteq PoolConns /\ conn' \in [PoolConns -> PStates]
    BY <1>2, <2>1, <2>2, PoolTypes DEF ConnKept
  <2> QED
    BY <1>2, <2>1, <2>3, <2>5, <2>6, PoolTypes, PoolMoved, IdleTask
<1> QED
  BY <1>6, <1>7

\* A step that empties the list, when all of it is closed or a stray.
LEMMA ListEmptied ==
  ASSUME PoolInv, NEW t \in Threads, NEW r \in PTask, ConnKept(conn, conn'), connections' = <<>>,
         strays \subseteq strays', bypassed => bypassed',
         \A u \in Threads : u # t /\ task[u].at \in PLocked => plock' = {u},
         r.at \notin PLocked,
         bypassed' \/ \A u \in Threads : u # t /\ task[u].at \in PLocked => connections' = connections,
         bypassed' \/ \A p \in 1..Len(connections) :
            connections[p] \in PoolConns => conn'[connections[p]] # "open" \/ connections[p] \in strays'
  PROVE  /\ connections' \in Seq(PSlots)
         /\ ListMove(task, connections, conn, strays, plock, bypassed, t, r, connections', conn', strays', plock', bypassed')
<1>1. PICK cs2 : cs2 = connections'
  OBVIOUS
<1>2. cs2 \in Seq(PSlots) /\ Len(cs2) = 0 /\ Len(cs2) <= Len(connections) /\ 1..Len(cs2) = {}
  BY <1>1, PoolTypes
<1>3. PBusy(r, cs2, conn')
  BY DEF PBusy, PLocked
<1> QED
  BY <1>1, <1>2, <1>3, ListLess

LEMMA CloseSyncStep ==
  ASSUME PoolInv, NEW t \in Threads, Pool!close_sync(t)
  PROVE  PoolInv'
<1>1. PICK S : S = Pool!ToSet(connections) \ {0}
  OBVIOUS
<1>2. /\ task[t].at = "idle" /\ connections' = <<>> /\ available' = <<>> /\ in_use' = {}
      /\ Pool!_close_connection_sync(S) /\ Pool!Bypass(t) /\ strays' = strays \cup Pool!Abandoned(S)
      /\ UNCHANGED <<plock, task>>
  BY <1>1 DEF Pool!close_sync
<1>3. DOMAIN connections = 1..Len(connections) /\ \A p \in 1..Len(connections) : connections[p] \in PSlots
  BY PoolTypes, LenProperties, ElementOfSeq
<1>4. S \subseteq PoolConns /\ \A p \in 1..Len(connections) : connections[p] \in PoolConns => connections[p] \in S
  BY <1>1, <1>3, PoolAssumption DEF Pool!ToSet, PSlots
<1>5. ConnKept(conn, conn') /\ (\A c \in S : conn'[c] = "open" => c \in Pool!Abandoned(S)) /\ Pool!Abandoned(S) \subseteq PoolConns
  BY <1>2, <1>4, ClosedSync, AbandonedIs
<1>6. PICK r : r = task[t]
  OBVIOUS
<1>7. r \in PTask /\ r.at = "idle" /\ task' = [task EXCEPT ![t] = r]
  BY <1>2, <1>6, PoolTypes
<1>8. HandMove(task, available, conn, in_use, strays, t, r, available', conn', in_use', strays')
  <2>1. strays \subseteq strays' /\ in_use' \subseteq in_use /\ PSub(available, available')
    BY <1>2, SubNone
  <2> QED
    BY <1>2, <1>5, <1>7, <2>1, HandsEmpty DEF PHands
<1>9. /\ bypassed => bypassed'
      /\ bypassed' \/ \A u \in Threads : u # t /\ task[u].at \in PLocked => connections' = connections
  BY <1>2, Bypassed DEF PLocked
<1>10. /\ connections' \in Seq(PSlots)
       /\ ListMove(task, connections, conn, strays, plock, bypassed, t, r, connections', conn', strays', plock', bypassed')
  <2>1. /\ strays \subseteq strays' /\ r.at \notin PLocked
        /\ \A p \in 1..Len(connections) :
              connections[p] \in PoolConns => conn'[connections[p]] # "open" \/ connections[p] \in strays'
    BY <1>2, <1>4, <1>5, <1>7 DEF PLocked
  <2>2. \A u \in Threads : u # t /\ task[u].at \in PLocked => plock' = {u}
    BY <1>2, Others
  <2> QED
    BY <1>2, <1>5, <1>7, <1>9, <2>1, <2>2, ListEmptied
<1>11. strays' \subseteq PoolConns /\ in_use' \subseteq PoolConns /\ conn' \in [PoolConns -> PStates] /\ available' \in Seq(PoolConns)
  BY <1>2, <1>5, PoolTypes DEF ConnKept
<1> QED
  BY <1>7, <1>8, <1>10, <1>11, PoolMoved

\* close goes to the i-th connection, or is through.
LEMMA ClosingStep ==
  ASSUME PoolInv, NEW t \in Threads, NEW i \in Nat \ {0}, task[t].at \in {"idle", "shutting"}, ConnKept(conn, conn'),
         UNCHANGED <<strays, bypassed>>, Pool!Closing(t, i),
         \A u \in Threads : u # t => task[u].at \notin PLocked,
         bypassed \/ \A j \in 1..Len(connections) : j < i /\ connections[j] \in PoolConns => conn'[connections[j]] # "open"
  PROVE  PoolInv'
<1>1. task[t].at \notin PHands
  BY DEF PHands
<1>2. CASE i <= Len(connections)
  <2>1. PICK r : r = [at |-> "shutting", conn |-> connections[i], n |-> i, todo |-> <<>>]
    OBVIOUS
  <2>2. task' = [task EXCEPT ![t] = r] /\ plock' = {t} /\ UNCHANGED <<connections, available, in_use>>
    BY <1>2, <2>1 DEF Pool!Closing, Pool!Goto
  <2>3. i \in 1..Len(connections)
    BY <1>2, PoolTypes
  <2>4. connections[i] \in PSlots /\ i \in Nat
    BY <2>3, PoolTypes, ElementOfSeq
  <2>5. r \in PTask /\ r.at = "shutting" /\ r.n = i /\ r.conn = connections[i]
    BY <2>1, <2>4, PoolTypes, TaskIs DEF PPlaces
  <2>6. HandMove(task, available, conn, in_use, strays, t, r, available', conn', in_use', strays')
    BY <1>1, <2>2, <2>5, HandsEmpty, SubSame DEF PHands
  <2>7. bypassed \/ PBusy(r, connections, conn')
    <3>1. \A j \in 1..(i - 1) : j \in 1..Len(connections) /\ j < i
      BY <2>3
    <3>2. bypassed \/ PShutting(r, connections, conn')
      BY <2>3, <2>5, <3>1 DEF PShutting
    <3> QED
      BY <2>5, <3>2 DEF PBusy
  <2>8. ListMove(task, connections, conn, strays, plock, bypassed, t, r, connections', conn', strays', plock', bypassed')
    BY <2>2, <2>5, <2>7, ListSame
  <2> QED
    BY <2>2, <2>5, <2>6, <2>8, PoolTypes, PoolMoved DEF ConnKept
<1>3. CASE ~(i <= Len(connections))
  <2>1. /\ task' = [task EXCEPT ![t] = Pool!Idle] /\ plock' = {} /\ connections' = <<>> /\ available' = <<>> /\ in_use' = {}
    BY <1>3 DEF Pool!Closing, Pool!Return
  <2>2. Pool!Idle.at \notin PLocked /\ Pool!Idle.at \notin PHands
    BY IdleTask DEF PLocked, PHands
  <2>3. HandMove(task, available, conn, in_use, strays, t, Pool!Idle, available', conn', in_use', strays')
    BY <1>1, <2>1, <2>2, HandsEmpty, SubNone, IdleTask
  <2>4. \A j \in 1..Len(connections) : j < i
    BY <1>3, PoolTypes
  <2>5. /\ connections' \in Seq(PSlots)
        /\ ListMove(task, connections, conn, strays, plock, bypassed, t, Pool!Idle, connections', conn', strays', plock', bypassed')
    BY <2>1, <2>2, <2>4, ListEmptied, IdleTask
  <2>6. in_use' \subseteq PoolConns /\ available' \in Seq(PoolConns) /\ strays' \subseteq PoolConns
    BY <2>1, PoolTypes
  <2> QED
    BY <2>1, <2>3, <2>5, <2>6, IdleTask, PoolMoved DEF ConnKept
<1> QED
  BY <1>2, <1>3

LEMMA CloseStep ==
  ASSUME PoolInv, NEW t \in Threads, Pool!close(t)
  PROVE  PoolInv'
<1>1. task[t].at = "idle" /\ plock = {} /\ Pool!Closing(t, 1) /\ UNCHANGED <<conn, strays, bypassed>>
  BY DEF Pool!close, Pool!history
<1>2. \A u \in Threads : u # t => task[u].at \notin PLocked
  BY <1>1, LockFree
<1>3. \A j \in 1..Len(connections) : ~(j < 1)
  OBVIOUS
<1>4. 1 \in Nat \ {0}
  OBVIOUS
<1> QED
  BY <1>1, <1>2, <1>3, <1>4, ClosingStep, ConnSame

LEMMA CloseNextStep ==
  ASSUME PoolInv, NEW t \in Threads, Pool!close_next(t)
  PROVE  PoolInv'
<1>1. PICK x, i : x = task[t] /\ i = x.n + 1
  OBVIOUS
<1>2. x.at = "shutting" /\ Pool!Shut({x.conn}) /\ Pool!Closing(t, i) /\ UNCHANGED <<strays, bypassed>>
  BY <1>1 DEF Pool!close_next, Pool!history
<1>3. \A u \in Threads : u # t => task[u].at \notin PLocked
  BY <1>1, <1>2, OnlyHolder DEF PLocked
<1>4. x \in PTask /\ x.n \in Nat /\ i \in Nat \ {0}
  <2>1. x \in PTask
    BY <1>1, PoolTypes
  <2>2. x.n \in Nat
    BY <2>1 DEF PTask
  <2> QED
    BY <1>1, <2>1, <2>2
<1>5. ConnKept(conn, conn') /\ \A c \in PoolConns : conn'[c] = IF c \in {x.conn} THEN "shut" ELSE conn[c]
  BY <1>2, ConnShut
<1>6. bypassed \/ \A j \in 1..Len(connections) : j < i /\ connections[j] \in PoolConns => conn'[connections[j]] # "open"
  <2>1. bypassed \/ PShutting(x, connections, conn)
    BY <1>1, <1>2 DEF PoolInv, PList, PBusy
  <2>2. ASSUME ~bypassed, NEW j \in 1..Len(connections), j < i, connections[j] \in PoolConns
        PROVE  conn'[connections[j]] # "open"
    <3>1. CASE j = x.n
      BY <1>5, <2>1, <2>2, <3>1 DEF PShutting
    <3>2. CASE j # x.n
      <4>1. j \in 1..(x.n - 1)
        BY <1>1, <1>4, <2>2, <3>2
      <4>2. conn[connections[j]] # "open"
        BY <2>1, <2>2, <4>1 DEF PShutting
      <4> QED
        BY <1>5, <2>2, <4>2
    <3> QED
      BY <3>1, <3>2
  <2> QED
    BY <2>2
<1> QED
  BY <1>1, <1>2, <1>3, <1>4, <1>5, <1>6, ClosingStep

\* drain goes to the next of its copy, or is through.
LEMMA DrainingStep ==
  ASSUME PoolInv, NEW t \in Threads, NEW todo \in Seq(PSlots), task[t].at \in {"idle", "draining"}, ConnKept(conn, conn'),
         UNCHANGED <<in_use, strays, bypassed>>, Pool!Draining(t, todo),
         \A u \in Threads : u # t => task[u].at \notin PLocked,
         bypassed \/ \A j \in 1..Len(connections) : connections[j] \in PoolConns =>
            conn'[connections[j]] # "open" \/ \E k \in 1..Len(todo) : todo[k] = connections[j]
  PROVE  PoolInv'
<1>1. task[t].at \notin PHands
  BY DEF PHands
<1>2. CASE todo # <<>>
  <2>1. PICK h, rest, r : h = Head(todo) /\ rest = Tail(todo) /\ r = [at |-> "draining", conn |-> h, n |-> 0, todo |-> rest]
    OBVIOUS
  <2>2. task' = [task EXCEPT ![t] = r] /\ plock' = {t} /\ UNCHANGED <<connections, available>>
    BY <1>2, <2>1 DEF Pool!Draining, Pool!Goto
  <2>3. /\ h \in PSlots /\ rest \in Seq(PSlots) /\ h = todo[1] /\ Len(rest) = Len(todo) - 1
        /\ \A k \in 1..Len(rest) : rest[k] = todo[k + 1]
    BY <1>2, <2>1, HeadTailProperties
  <2>4. r \in PTask /\ r.at = "draining" /\ r.conn = h /\ r.todo = rest
    BY <2>1, <2>3, TaskIs DEF PPlaces
  <2>5. HandMove(task, available, conn, in_use, strays, t, r, available', conn', in_use', strays')
    BY <1>1, <2>2, <2>4, HandsEmpty, SubSame DEF PHands
  <2>6. \A k \in 1..Len(todo) : todo[k] = h \/ \E m \in 1..Len(rest) : rest[m] = todo[k]
    <3>1. ASSUME NEW k \in 1..Len(todo), k # 1 PROVE \E m \in 1..Len(rest) : rest[m] = todo[k]
      <4>1. k - 1 \in 1..Len(rest) /\ (k - 1) + 1 = k
        BY <2>3, <3>1
      <4> QED
        BY <2>3, <4>1
    <3> QED
      BY <2>3, <3>1
  <2>7. bypassed \/ PBusy(r, connections, conn')
    <3>1. bypassed \/ PDraining(r, connections, conn')
      BY <2>4, <2>6 DEF PDraining
    <3> QED
      BY <2>4, <3>1 DEF PBusy
  <2>8. ListMove(task, connections, conn, strays, plock, bypassed, t, r, connections', conn', strays', plock', bypassed')
    BY <2>2, <2>4, <2>7, ListSame
  <2> QED
    BY <2>2, <2>4, <2>5, <2>8, PoolTypes, PoolMoved DEF ConnKept
<1>3. CASE todo = <<>>
  <2>1. task' = [task EXCEPT ![t] = Pool!Idle] /\ plock' = {} /\ connections' = <<>> /\ available' = <<>>
    BY <1>3 DEF Pool!Draining, Pool!Return
  <2>2. Pool!Idle.at \notin PLocked /\ Pool!Idle.at \notin PHands
    BY IdleTask DEF PLocked, PHands
  <2>3. HandMove(task, available, conn, in_use, strays, t, Pool!Idle, available', conn', in_use', strays')
    BY <1>1, <2>1, <2>2, HandsEmpty, SubNone, IdleTask
  <2>4. ~\E k \in 1..Len(todo) : TRUE
    BY <1>3
  <2>5. /\ connections' \in Seq(PSlots)
        /\ ListMove(task, connections, conn, strays, plock, bypassed, t, Pool!Idle, connections', conn', strays', plock', bypassed')
    BY <2>1, <2>2, <2>4, ListEmptied, IdleTask
  <2>6. in_use' \subseteq PoolConns /\ available' \in Seq(PoolConns) /\ strays' \subseteq PoolConns
    BY <2>1, PoolTypes
  <2> QED
    BY <2>1, <2>3, <2>5, <2>6, IdleTask, PoolMoved DEF ConnKept
<1> QED
  BY <1>2, <1>3

LEMMA DrainStep ==
  ASSUME PoolInv, NEW t \in Threads, Pool!drain(t)
  PROVE  PoolInv'
<1>1. task[t].at = "idle" /\ plock = {} /\ Pool!Draining(t, connections) /\ UNCHANGED <<in_use, conn, strays, bypassed>>
  BY DEF Pool!drain, Pool!history
<1>2. \A u \in Threads : u # t => task[u].at \notin PLocked
  BY <1>1, LockFree
<1>3. connections \in Seq(PSlots) /\ \A j \in 1..Len(connections) : \E k \in 1..Len(connections) : connections[k] = connections[j]
  BY PoolTypes
<1> QED
  BY <1>1, <1>2, <1>3, DrainingStep, ConnSame

LEMMA DrainNextStep ==
  ASSUME PoolInv, NEW t \in Threads, Pool!drain_next(t)
  PROVE  PoolInv'
<1>1. PICK x, todo : x = task[t] /\ todo = x.todo
  OBVIOUS
<1>2. x.at = "draining" /\ Pool!Shut({x.conn}) /\ Pool!Draining(t, todo) /\ UNCHANGED <<in_use, strays, bypassed>>
  BY <1>1 DEF Pool!drain_next, Pool!history
<1>3. \A u \in Threads : u # t => task[u].at \notin PLocked
  BY <1>1, <1>2, OnlyHolder DEF PLocked
<1>4. x \in PTask /\ todo \in Seq(PSlots)
  <2>1. x \in PTask
    BY <1>1, PoolTypes
  <2> QED
    BY <1>1, <2>1 DEF PTask
<1>5. ConnKept(conn, conn') /\ \A c \in PoolConns : conn'[c] = IF c \in {x.conn} THEN "shut" ELSE conn[c]
  BY <1>2, ConnShut
<1>6. bypassed \/ \A j \in 1..Len(connections) : connections[j] \in PoolConns =>
         conn'[connections[j]] # "open" \/ \E k \in 1..Len(todo) : todo[k] = connections[j]
  <2>1. bypassed \/ PDraining(x, connections, conn)
    BY <1>1, <1>2 DEF PoolInv, PList, PBusy
  <2>2. bypassed \/ \A j \in 1..Len(connections) : connections[j] \in PoolConns =>
           conn[connections[j]] # "open" \/ connections[j] = x.conn \/ \E k \in 1..Len(todo) : todo[k] = connections[j]
    BY <1>1, <2>1 DEF PDraining
  <2> QED
    BY <1>5, <2>2
<1> QED
  BY <1>1, <1>2, <1>3, <1>4, <1>5, <1>6, DrainingStep

\* What remove takes out of the available connections.
LEMMA SubRemoved ==
  ASSUME PoolInv, NEW c, NEW a, a = Pool!RemoveFirst(available, c)
  PROVE  PSub(available, a)
<1>1. a \in Seq(PoolConns) /\ PLeft(available, c, a)
  BY PoolTypes, FirstGone
<1>2. \A i, j \in 1..Len(available) : available[i] = available[j] => i = j
  BY DEF PoolInv, PHand
<1>3. \A i, j \in 1..Len(a) : a[i] = a[j] => i = j
  BY <1>1, <1>2 DEF PLeft
<1>4. Len(a) <= Len(available) /\ \A i \in 1..Len(a) : \E j \in 1..Len(available) : available[j] = a[i]
  BY <1>1 DEF PLeft
<1> QED
  BY <1>1, <1>3, <1>4 DEF PSub

\* health_check goes to the next invalid one of its copy, or gives up.
LEMMA CheckingStep ==
  ASSUME PoolInv, NEW t \in Threads, NEW todo \in Seq(PSlots), task[t].at \in {"idle", "checking"}, ConnKept(conn, conn'),
         UNCHANGED <<in_use, strays>>, Pool!Checking(t, todo)
  PROVE  \E r \in PTask :
            /\ task' = [task EXCEPT ![t] = r]
            /\ available' \in Seq(PoolConns)
            /\ HandMove(task, available, conn, in_use, strays, t, r, available', conn', in_use', strays')
            /\ r.at \in {"idle", "checking"}
<1> DEFINE bad == {i \in DOMAIN todo : ~Pool!_is_valid(todo[i])}
           i == CHOOSE j \in bad : \A k \in bad : j <= k
<1>0. task[t].at \notin PHands
  BY DEF PHands
<1>1. CASE bad = {} \/ ~Pool!Contains(available, todo[i])
  <2>1. task' = [task EXCEPT ![t] = Pool!Idle] /\ available' = available
    BY <1>1 DEF Pool!Checking, Pool!Return
  <2>2. HandMove(task, available, conn, in_use, strays, t, Pool!Idle, available', conn', in_use', strays')
    BY <1>0, <2>1, HandsEmpty, SubSame, IdleTask DEF PHands
  <2> QED
    BY <2>1, <2>2, IdleTask, PoolTypes
<1>2. CASE ~(bad = {} \/ ~Pool!Contains(available, todo[i]))
  <2>1. DOMAIN todo = 1..Len(todo) /\ Len(todo) \in Nat
    BY LenProperties
  <2>2. bad \subseteq Nat /\ bad # {} /\ bad \subseteq 1..Len(todo)
    BY <1>2, <2>1
  <2>3. \E j \in bad : \A k \in bad : j <= k
    <3> HIDE DEF bad
    <3> QED
      BY <2>2, Least
  <2>4. i \in bad
    <3> HIDE DEF bad
    <3> QED
      BY <2>3
  <2>5. PICK e, m, rest, r : /\ e = todo[i] /\ m = i /\ rest = SubSeq(todo, i + 1, Len(todo))
                             /\ r = [at |-> "checking", conn |-> e, n |-> 0, todo |-> rest]
    OBVIOUS
  <2>6. task' = [task EXCEPT ![t] = r] /\ available' = Pool!RemoveFirst(available, e)
    BY <1>2, <2>5 DEF Pool!Checking, Pool!Goto
  <2>7. m \in 1..Len(todo) /\ e = todo[m] /\ rest = SubSeq(todo, m + 1, Len(todo))
    <3> HIDE DEF bad, i
    <3> QED
      BY <2>2, <2>4, <2>5
  <2>8. e \in PSlots /\ m + 1 \in Nat \ {0}
    BY <2>1, <2>7, ElementOfSeq
  <2>9. rest \in Seq(PSlots)
    BY <2>1, <2>7, <2>8, Sliced
  <2>10. r \in PTask /\ r.at = "checking"
    BY <2>5, <2>8, <2>9, TaskIs DEF PPlaces
  <2>11. PSub(available, available')
    BY <2>6, SubRemoved
  <2>12. HandMove(task, available, conn, in_use, strays, t, r, available', conn', in_use', strays')
    BY <1>0, <2>10, <2>11, HandsEmpty DEF PHands
  <2> QED
    BY <2>6, <2>10, <2>11, <2>12 DEF PSub
<1> QED
  BY <1>1, <1>2

LEMMA HealthCheckStep ==
  ASSUME PoolInv, NEW t \in Threads, Pool!health_check(t)
  PROVE  PoolInv'
<1>1. /\ task[t].at = "idle" /\ Pool!Checking(t, available)
      /\ UNCHANGED <<connections, in_use, conn, plock, strays, bypassed>>
  BY DEF Pool!health_check, Pool!history
<1>2. available \in Seq(PSlots)
  <2>1. \A i \in 1..Len(available) : available[i] \in PSlots
    BY PoolTypes, ElementOfSeq
  <2> QED
    BY <2>1, PoolTypes
<1>3. PICK r \in PTask :
            /\ task' = [task EXCEPT ![t] = r]
            /\ available' \in Seq(PoolConns)
            /\ HandMove(task, available, conn, in_use, strays, t, r, available', conn', in_use', strays')
            /\ r.at \in {"idle", "checking"}
  BY <1>1, <1>2, CheckingStep, ConnSame
<1>4. r.at \notin PLocked /\ PBusy(r, connections, conn')
  BY <1>3 DEF PLocked, PBusy
<1>5. ListMove(task, connections, conn, strays, plock, bypassed, t, r, connections', conn', strays', plock', bypassed')
  BY <1>1, <1>4, ListSame, ConnSame, Others
<1> QED
  BY <1>1, <1>3, <1>5, PoolTypes, PoolMoved

LEMMA HealthNextStep ==
  ASSUME PoolInv, NEW t \in Threads, Pool!health_next(t)
  PROVE  PoolInv'
<1>1. PICK x, c, todo : x = task[t] /\ c = x.conn /\ todo = x.todo
  OBVIOUS
<1>2. /\ x.at = "checking" /\ Pool!Shut({c}) /\ connections' = Pool!RemoveFirst(connections, c)
      /\ Pool!Bypass(t) /\ Pool!Checking(t, todo) /\ UNCHANGED <<in_use, plock, strays>>
  BY <1>1 DEF Pool!health_next
<1>3. todo \in Seq(PSlots)
  <2>1. x \in PTask
    BY <1>1, PoolTypes
  <2> QED
    BY <1>1, <2>1 DEF PTask
<1>4. ConnKept(conn, conn') /\ (c \in PoolConns => conn'[c] # "open")
  BY <1>2, ConnShut
<1>5. PICK r \in PTask :
            /\ task' = [task EXCEPT ![t] = r]
            /\ available' \in Seq(PoolConns)
            /\ HandMove(task, available, conn, in_use, strays, t, r, available', conn', in_use', strays')
            /\ r.at \in {"idle", "checking"}
  BY <1>1, <1>2, <1>3, <1>4, CheckingStep
<1>6. r.at \notin PLocked /\ PBusy(r, connections', conn')
  BY <1>5 DEF PLocked, PBusy
<1>7. /\ bypassed => bypassed'
      /\ bypassed' \/ \A u \in Threads : u # t /\ task[u].at \in PLocked => connections' = connections
  BY <1>1, <1>2, Bypassed DEF PLocked
<1>8. /\ connections' \in Seq(PSlots)
      /\ ListMove(task, connections, conn, strays, plock, bypassed, t, r, connections', conn', strays', plock', bypassed')
  BY <1>2, <1>4, <1>6, <1>7, ListRemoved, Others
<1> QED
  BY <1>2, <1>4, <1>5, <1>8, PoolTypes, PoolMoved DEF ConnKept

LEMMA CancelStep ==
  ASSUME PoolInv, NEW t \in Threads, Pool!Cancel(t)
  PROVE  PoolInv'
<1>1. /\ task[t].at \notin {"idle", "using_sync"} /\ plock' = plock \ {t}
      /\ UNCHANGED <<connections, available, in_use, conn, bypassed>>
      /\ IF task[t].at = "using" THEN Pool!Goto(t, "returning", task[t].conn, 0, <<>>) /\ UNCHANGED strays
         ELSE Pool!Return(t) /\ strays' = strays \cup ({task[t].conn} \ {0})
  BY DEF Pool!Cancel, Pool!pool
<1>2. PICK c : c = task[t].conn
  OBVIOUS
<1>3. c \in PSlots
  BY <1>2, PoolTypes DEF PTask
<1>4. CASE task[t].at = "using"
  <2>1. PICK r : r = [at |-> "returning", conn |-> c, n |-> 0, todo |-> <<>>]
    OBVIOUS
  <2>2. r \in PTask /\ r.at = "returning" /\ r.conn = c
    BY <1>3, <2>1, PoolTypes, TaskIs DEF PPlaces
  <2>3. task' = [task EXCEPT ![t] = r] /\ strays' = strays
    BY <1>1, <1>2, <1>4, <2>1 DEF Pool!Goto
  <2> QED
    BY <1>1, <1>2, <1>4, <2>2, <2>3, LeaveStep
<1>5. CASE task[t].at # "using"
  <2>1. task' = [task EXCEPT ![t] = Pool!Idle] /\ strays' = strays \cup ({c} \ {0})
    BY <1>1, <1>2, <1>5 DEF Pool!Return
  <2>2. strays \subseteq strays' /\ strays' \subseteq PoolConns /\ (c \in PoolConns => c \in strays')
    BY <1>3, <2>1, PoolTypes, PoolAssumption DEF PSlots
  <2>3. Pool!Idle.at \notin PLocked /\ Pool!Idle.at \notin PHands /\ PBusy(Pool!Idle, connections, conn')
    BY IdleTask DEF PLocked, PHands, PBusy
  <2>4. HandMove(task, available, conn, in_use, strays, t, Pool!Idle, available', conn', in_use', strays')
    <3>1. CASE task[t].at \in PHands
      <4>1. c \in strays'
        BY <1>2, <2>2, <3>1 DEF PoolInv, PHand
      <4> QED
        BY <1>1, <1>2, <2>2, <2>3, <3>1, <4>1, HandsDrop, ConnSame, IdleTask
    <3>2. CASE task[t].at \notin PHands
      BY <1>1, <2>2, <2>3, <3>2, HandsEmpty, SubSame, ConnSame, IdleTask
    <3> QED
      BY <3>1, <3>2
  <2>5. ListMove(task, connections, conn, strays, plock, bypassed, t, Pool!Idle, connections', conn', strays', plock', bypassed')
    BY <1>1, <2>2, <2>3, ListSame, ConnSame, Others, IdleTask
  <2> QED
    BY <1>1, <2>1, <2>2, <2>4, <2>5, PoolTypes, PoolMoved, IdleTask
<1> QED
  BY <1>4, <1>5

\* Nothing changes but connections that break.
LEMMA StillStep ==
  ASSUME PoolInv, ConnKept(conn, conn'), UNCHANGED <<connections, available, in_use, plock, task, strays, bypassed>>
  PROVE  PoolInv'
<1>1. PoolTyped'
  BY DEF PoolInv, PoolTyped, ConnKept, PTask, PSlots, PStates, PPlaces
<1>2. PHand(task, available, conn, in_use, strays)'
  <2>1. \A i \in 1..Len(available) : available[i] \in PoolConns
    BY PoolTypes, ElementOfSeq
  <2>2. PHand(task, available, conn', in_use, strays)
    BY <2>1 DEF PoolInv, PHand, ConnKept
  <2> QED
    BY <2>2 DEF PHand
<1>3. PList(task, connections, conn, strays, plock, bypassed)'
  <2>1. PMade(connections, conn')
    BY DEF PoolInv, PList, PMade, ConnKept
  <2>2. bypassed \/ PKnown(connections, conn', strays)
    BY DEF PoolInv, PList, PKnown, ConnKept
  <2>3. ASSUME ~bypassed, NEW u \in Threads PROVE PBusy(task[u], connections, conn')
    <3>1. PICK x : x = task[u]
      OBVIOUS
    <3>2. x \in PTask /\ PBusy(x, connections, conn)
      BY <2>3, <3>1, PoolTypes DEF PoolInv, PList
    <3>3. PShutting(x, connections, conn) => PShutting(x, connections, conn')
      BY DEF PShutting, ConnKept
    <3>4. PDraining(x, connections, conn) => PDraining(x, connections, conn')
      BY DEF PDraining, ConnKept
    <3> QED
      BY <3>1, <3>2, <3>3, <3>4 DEF PBusy
  <2>4. PList(task, connections, conn', strays, plock, bypassed)
    BY <2>1, <2>2, <2>3 DEF PoolInv, PList
  <2> QED
    BY <2>4 DEF PList, PMade, PKnown, PBusy, PShutting, PDraining
<1> QED
  BY <1>1, <1>2, <1>3 DEF PoolInv

LEMMA BreakStep ==
  ASSUME PoolInv, NEW c \in PoolConns, Pool!Break(c)
  PROVE  PoolInv'
<1>1. /\ conn[c] = "open" /\ conn' = [conn EXCEPT ![c] = "broken"]
      /\ UNCHANGED <<connections, available, in_use, plock, task, strays, bypassed>>
  BY DEF Pool!Break, Pool!pool, Pool!history
<1>2. ConnKept(conn, conn')
  BY <1>1, PoolTypes DEF ConnKept, PStates
<1> QED
  BY <1>1, <1>2, StillStep

\* Where the loop over the candidates stops is a place among them, or before them.
LEMMA StopIs == ASSUME PoolInv PROVE Pool!Stop \in 0..Len(available)
<1> DEFINE at == {i \in DOMAIN available : Pool!_is_valid(available[i]) \/ ~Pool!Contains(connections, available[i])}
<1>1. DOMAIN available = 1..Len(available) /\ Len(available) \in Nat
  BY PoolTypes, LenProperties
<1>2. at \subseteq 0..Len(available)
  BY <1>1
<1>3. Pool!Stop = IF at = {} THEN 0 ELSE CHOOSE i \in at : \A j \in at : j <= i
  BY Zenon DEF Pool!Stop
<1> HIDE DEF at
<1>4. at # {} => \E x \in at : \A y \in at : y <= x
  BY <1>1, <1>2, Greatest
<1>5. at # {} => (CHOOSE i \in at : \A j \in at : j <= i) \in at
  BY <1>4, Zenon
<1>6. PICK y : y = CHOOSE i \in at : \A j \in at : j <= i
  OBVIOUS
<1>7. (at # {} => y \in at) /\ Pool!Stop = IF at = {} THEN 0 ELSE y
  BY <1>3, <1>5, <1>6
<1> QED
  BY <1>1, <1>2, <1>7

\* What the loop leaves: the first k candidates, and of the list everything but the others.
PLoop(k, left, bad, listed) ==
    /\ PSub(available, left) /\ Len(left) = k /\ \A i \in 1..k : left[i] = available[i]
    /\ bad \subseteq PoolConns
    /\ listed \in Seq(PSlots) /\ Len(listed) <= Len(connections)
    /\ \A q \in 1..Len(listed) : \E p \in 1..Len(connections) : listed[q] = connections[p]
    /\ \A p \in 1..Len(connections) : connections[p] \in bad \/ \E q \in 1..Len(listed) : listed[q] = connections[p]

LEMMA LoopLeft ==
  ASSUME PoolInv, NEW k \in 0..Len(available), NEW left, left = SubSeq(available, 1, k),
         NEW bad, bad = Pool!ToSet(available) \ Pool!ToSet(left),
         NEW listed, listed = Pool!Purged[Len(available) - Len(left)]
  PROVE  PLoop(k, left, bad, listed)
<1>0. Len(available) \in Nat /\ k \in Nat /\ k <= Len(available)
  BY PoolTypes
<1>1. PSub(available, left) /\ Len(left) = k /\ \A i \in 1..k : left[i] = available[i]
  BY SubFirst
<1>2. PICK n, m : n = Len(available) /\ m = Len(available) - Len(left)
  OBVIOUS
<1>3. n \in Nat /\ k <= n /\ m = n - k
  BY <1>0, <1>1, <1>2
<1>4. m \in 0..n /\ (n - m) + 1 = k + 1
  BY <1>0, <1>3
<1>5. m \in 0..Len(available) /\ listed = Pool!Purged[m]
  BY <1>2, <1>4
<1>6. /\ listed \in Seq(PSlots) /\ Len(listed) <= Len(connections)
      /\ \A q \in 1..Len(listed) : \E p \in 1..Len(connections) : listed[q] = connections[p]
      /\ \A p \in 1..Len(connections) :
            \/ \E q \in 1..Len(listed) : listed[q] = connections[p]
            \/ \E j \in ((Len(available) - m) + 1)..Len(available) : available[j] = connections[p]
  <2>1. listed \in Seq(PSlots) /\ PRest(m, listed)
    BY <1>5, PoolTypes, PurgedFacts
  <2> QED
    BY <2>1 DEF PRest
<1>7. /\ DOMAIN available = 1..Len(available) /\ DOMAIN left = 1..Len(left)
      /\ \A i \in 1..Len(available) : available[i] \in PoolConns
  BY <1>1, PoolTypes, LenProperties, ElementOfSeq DEF PSub
<1>8. bad \subseteq PoolConns
  BY <1>7 DEF Pool!ToSet
<1>9. ASSUME NEW j \in (k + 1)..Len(available) PROVE available[j] \in bad
  <2>1. j \in 1..Len(available) /\ \A i \in 1..k : i # j /\ i \in 1..Len(available)
    BY <1>0
  <2>2. \A i \in 1..k : left[i] # available[j]
    BY <1>1, <2>1 DEF PoolInv, PHand
  <2>3. available[j] \in Pool!ToSet(available)
    BY <1>7, <2>1 DEF Pool!ToSet
  <2>4. available[j] \notin Pool!ToSet(left)
    BY <1>1, <1>7, <2>2 DEF Pool!ToSet
  <2> QED
    BY <2>3, <2>4
<1>10. \A p \in 1..Len(connections) : connections[p] \in bad \/ \E q \in 1..Len(listed) : listed[q] = connections[p]
  <2>1. (Len(available) - m) + 1 = k + 1
    BY <1>2, <1>4
  <2>2. \A p \in 1..Len(connections) :
            \/ \E q \in 1..Len(listed) : listed[q] = connections[p]
            \/ \E j \in (k + 1)..Len(available) : available[j] = connections[p]
    BY <1>6, <2>1
  <2> QED
    BY <1>9, <2>2
<1> QED
  BY <1>1, <1>6, <1>8, <1>10 DEF PLoop

LEMMA AcquireSyncStep ==
  ASSUME PoolInv, NEW t \in Threads, Pool!acquire_sync(t)
  PROVE  PoolInv'
<1> DEFINE raises == Pool!Stop > 0 /\ ~Pool!_is_valid(available[Pool!Stop])
           left0 == SubSeq(available, 1, IF raises THEN Pool!Stop - 1 ELSE Pool!Stop)
           bad0 == Pool!ToSet(available) \ Pool!ToSet(left0)
           listed0 == Pool!Purged[Len(available) - Len(left0)]
           c0 == CHOOSE f \in Pool!Fresh : TRUE
<1>1. PICK k : k = IF raises THEN Pool!Stop - 1 ELSE Pool!Stop
  OBVIOUS
<1>2. k \in 0..Len(available)
  <2>1. PICK s, n : s = Pool!Stop /\ n = Len(available)
    OBVIOUS
  <2>2. s \in 0..n /\ n \in Nat /\ (k = s \/ (s > 0 /\ k = s - 1))
    BY <1>1, <2>1, StopIs, PoolTypes
  <2>3. k \in 0..n
    BY <2>2
  <2> QED
    BY <2>1, <2>3
<1>3. PICK left, bad, listed, c : left = left0 /\ bad = bad0 /\ listed = listed0 /\ c = c0
  OBVIOUS
<1>4. /\ task[t].at = "idle" /\ strays' = strays \cup Pool!Abandoned(bad) /\ Pool!Bypass(t) /\ plock' = plock
      /\ CASE raises ->
                /\ available' = left /\ connections' = listed
                /\ Pool!_close_connection_sync(bad) /\ UNCHANGED <<in_use, task>>
           [] ~raises /\ left # <<>> ->
                /\ available' = Pool!Front(left) /\ connections' = listed
                /\ in_use' = in_use \cup {Pool!Last(left)} /\ Pool!Goto(t, "using_sync", Pool!Last(left), 0, <<>>)
                /\ Pool!_close_connection_sync(bad)
           [] ~raises /\ left = <<>> /\ Len(listed) < MAX_CONNECTIONS /\ factory ->
                /\ Pool!Fresh # {} /\ available' = <<>> /\ connections' = Append(listed, c)
                /\ in_use' = in_use \cup {c} /\ Pool!Goto(t, "using_sync", c, 0, <<>>)
                /\ conn' = [d \in PoolConns |-> CASE d = c -> "open"
                                                  [] d \in bad /\ ~conn_kind.coroutine -> "shut"
                                                  [] OTHER -> conn[d]]
           [] OTHER ->
                /\ available' = <<>> /\ connections' = IF Len(listed) < MAX_CONNECTIONS THEN Append(listed, 0) ELSE listed
                /\ Pool!_close_connection_sync(bad) /\ UNCHANGED <<in_use, task>>
  BY <1>3, Zenon DEF Pool!acquire_sync
<1>5. left = SubSeq(available, 1, k) /\ bad = Pool!ToSet(available) \ Pool!ToSet(left) /\ listed = Pool!Purged[Len(available) - Len(left)]
  BY <1>1, <1>3
<1>6. c = CHOOSE f \in Pool!Fresh : TRUE
  BY <1>3
<1> HIDE DEF raises, left0, bad0, listed0, c0
<1>7. /\ PSub(available, left) /\ Len(left) = k /\ \A i \in 1..k : left[i] = available[i]
      /\ bad \subseteq PoolConns
      /\ listed \in Seq(PSlots) /\ Len(listed) <= Len(connections)
      /\ \A q \in 1..Len(listed) : \E p \in 1..Len(connections) : listed[q] = connections[p]
      /\ \A p \in 1..Len(connections) : connections[p] \in bad \/ \E q \in 1..Len(listed) : listed[q] = connections[p]
  <2>1. PLoop(k, left, bad, listed)
    BY <1>2, <1>5, LoopLeft
  <2> QED
    BY <2>1 DEF PLoop
<1>8. task[t].at \notin PHands /\ task[t].at \notin PLocked
  BY <1>4 DEF PHands, PLocked
<1>9. /\ bypassed => bypassed'
      /\ bypassed' \/ \A u \in Threads : u # t /\ task[u].at \in PLocked => connections' = connections
      /\ \A u \in Threads : u # t /\ task[u].at \in PLocked => plock' = {u}
  BY <1>4, <1>8, Bypassed, Others
<1>10. strays \subseteq strays' /\ strays' \subseteq PoolConns /\ Pool!Abandoned(bad) \subseteq strays'
  BY <1>4, <1>7, AbandonedIs, PoolTypes
<1>11. ASSUME Pool!_close_connection_sync(bad)
       PROVE  /\ ConnKept(conn, conn') /\ conn' \in [PoolConns -> PStates]
              /\ \A p \in 1..Len(connections) :
                    connections[p] \in PoolConns /\ conn'[connections[p]] = "open" /\ connections[p] \notin strays' =>
                       \E q \in 1..Len(listed) : listed[q] = connections[p]
  <2>1. ConnKept(conn, conn') /\ \A d \in bad : conn'[d] = "open" => d \in Pool!Abandoned(bad)
    BY <1>7, <1>11, ClosedSync
  <2> QED
    BY <1>7, <1>10, <2>1 DEF ConnKept
<1>12. ASSUME NEW r \in PTask, task' = [task EXCEPT ![t] = r], connections' = listed, r.at \notin PLocked,
              Pool!_close_connection_sync(bad), available' \in Seq(PoolConns), in_use' \subseteq PoolConns,
              HandMove(task, available, conn, in_use, strays, t, r, available', conn', in_use', strays')
       PROVE  PoolInv'
  <2>1. PBusy(r, connections', conn')
    BY <1>12 DEF PBusy, PLocked
  <2>2. ListMove(task, connections, conn, strays, plock, bypassed, t, r, connections', conn', strays', plock', bypassed')
    <3>1. connections' \in Seq(PSlots) /\ Len(connections') <= Len(connections)
      BY <1>7, <1>12
    <3> QED
      BY <1>7, <1>9, <1>10, <1>11, <1>12, <2>1, <3>1, ListLess
  <2> QED
    BY <1>7, <1>10, <1>11, <1>12, <2>2, PoolMoved
<1>13. PICK r0 : r0 = task[t]
  OBVIOUS
<1>14. r0 \in PTask /\ r0.at = "idle" /\ r0.at \notin PLocked /\ r0.at \notin PHands /\ task = [task EXCEPT ![t] = r0]
  BY <1>4, <1>8, <1>13, PoolTypes
<1>15. CASE raises
  <2>1. available' = left /\ connections' = listed /\ Pool!_close_connection_sync(bad) /\ UNCHANGED <<in_use, task>>
    BY <1>4, <1>15
  <2>2. HandMove(task, available, conn, in_use, strays, t, r0, available', conn', in_use', strays')
    BY <1>7, <1>8, <1>10, <1>11, <1>14, <2>1, HandsEmpty
  <2> QED
    BY <1>7, <1>12, <1>14, <2>1, <2>2, PoolTypes DEF PSub
<1>16. CASE ~raises /\ left # <<>>
  <2>1. PICK d, f, r : /\ d = Pool!Last(left) /\ f = Pool!Front(left)
                       /\ r = [at |-> "using_sync", conn |-> d, n |-> 0, todo |-> <<>>]
    OBVIOUS
  <2>2. /\ available' = f /\ connections' = listed /\ in_use' = in_use \cup {d} /\ task' = [task EXCEPT ![t] = r]
        /\ Pool!_close_connection_sync(bad)
    BY <1>4, <1>16, <2>1 DEF Pool!Goto
  <2>3. left \in Seq(PoolConns) /\ k \in Nat /\ k > 0 /\ k - 1 \in 0..Len(available)
    <3>1. left \in Seq(PoolConns) /\ Len(left) = k
      BY <1>7 DEF PSub
    <3>2. k \in Nat /\ k # 0 /\ k <= Len(available)
      BY <1>2, <1>16, <3>1, PoolTypes, EmptySeq
    <3> QED
      BY <3>1, <3>2, PoolTypes
  <2>4. k \in 1..k /\ k \in 1..Len(available) /\ d = available[k] /\ d \in PoolConns
    <3>1. k \in 1..k /\ k \in 1..Len(available)
      BY <1>2, <2>3, PoolTypes
    <3>2. d = left[k]
      BY <1>7, <2>1 DEF Pool!Last
    <3> QED
      BY <1>7, <3>1, <3>2, PoolTypes, ElementOfSeq
  <2>5. f = SubSeq(available, 1, k - 1)
    <3>1. f = SubSeq(left, 1, k - 1)
      BY <1>7, <2>1 DEF Pool!Front
    <3>2. PICK g : g = SubSeq(available, 1, k - 1)
      OBVIOUS
    <3>3. g \in Seq(PoolConns) /\ Len(g) = k - 1 /\ \A i \in 1..(k - 1) : g[i] = available[i]
      <4>1. PSub(available, g) /\ Len(g) = k - 1 /\ \A i \in 1..(k - 1) : g[i] = available[i]
        BY <2>3, <3>2, SubFirst
      <4> QED
        BY <4>1 DEF PSub
    <3>4. k - 1 \in Nat /\ k - 1 <= Len(left)
      BY <1>7, <2>3
    <3>5. f \in Seq(PoolConns) /\ Len(f) = (IF 1 <= k - 1 THEN ((k - 1) - 1) + 1 ELSE 0) /\ \A i \in 1..Len(f) : f[i] = left[(1 + i) - 1]
      BY <2>3, <3>1, <3>4, Sliced
    <3>6. Len(f) = k - 1
      BY <2>3, <3>4, <3>5
    <3>7. \A i \in 1..(k - 1) : f[i] = g[i]
      <4>1. ASSUME NEW i \in 1..(k - 1) PROVE f[i] = g[i]
        <5>1. (1 + i) - 1 = i /\ i \in 1..k /\ i \in 1..Len(f)
          BY <2>3, <3>6
        <5> QED
          BY <1>7, <3>3, <3>5, <5>1
      <4> QED
        BY <4>1
    <3>8. f = g
      BY <3>3, <3>5, <3>6, <3>7, SeqEqual
    <3> QED
      BY <3>2, <3>8
  <2>6. PSub(available, f) /\ Len(f) = k - 1 /\ \A i \in 1..(k - 1) : f[i] = available[i]
    BY <2>3, <2>5, SubFirst
  <2>7. r \in PTask /\ r.at = "using_sync" /\ r.conn = d
    BY <2>1, <2>4, PoolTypes, TaskIs DEF PPlaces
  <2>8. \A i \in 1..Len(f) : f[i] # d
    <3>1. \A i \in 1..(k - 1) : i # k /\ i \in 1..Len(available)
      BY <2>3, <2>4
    <3> QED
      BY <2>4, <2>6, <3>1 DEF PoolInv, PHand
  <2>9. conn'[d] # "none" /\ \A u \in Threads : task[u].at \in PHands => task[u].conn # d
    BY <1>11, <2>2, <2>4 DEF PoolInv, PHand, ConnKept
  <2>10. HandMove(task, available, conn, in_use, strays, t, r, available', conn', in_use', strays')
    <3>1. /\ \A e \in PoolConns : conn[e] # "none" => conn'[e] # "none"
          /\ r.at \in PHands /\ in_use' \subseteq in_use \cup {r.conn}
      BY <1>11, <2>2, <2>7 DEF ConnKept, PHands
    <3> QED
      BY <1>8, <1>10, <2>2, <2>4, <2>6, <2>7, <2>8, <2>9, <3>1, HandsTake
  <2>11. r.at \notin PLocked /\ available' \in Seq(PoolConns) /\ in_use' \subseteq PoolConns
    BY <2>2, <2>4, <2>6, <2>7, PoolTypes DEF PLocked, PSub
  <2> QED
    BY <1>12, <2>2, <2>7, <2>10, <2>11
<1>17. CASE ~raises /\ left = <<>> /\ Len(listed) < MAX_CONNECTIONS /\ factory
  <2>1. PICK r : r = [at |-> "using_sync", conn |-> c, n |-> 0, todo |-> <<>>]
    OBVIOUS
  <2>2. /\ Pool!Fresh # {} /\ available' = <<>> /\ connections' = Append(listed, c)
        /\ in_use' = in_use \cup {c} /\ task' = [task EXCEPT ![t] = r]
        /\ conn' = [d \in PoolConns |-> CASE d = c -> "open"
                                          [] d \in bad /\ ~conn_kind.coroutine -> "shut"
                                          [] OTHER -> conn[d]]
    BY <1>4, <1>17, <2>1 DEF Pool!Goto
  <2>3. c \in PoolConns /\ conn[c] = "none"
    BY <1>6, <2>2 DEF Pool!Fresh
  <2>4. \A d \in PoolConns : conn'[d] = IF d = c THEN "open" ELSE IF d \in bad /\ ~conn_kind.coroutine THEN "shut" ELSE conn[d]
    <3>1. ASSUME NEW d \in PoolConns
          PROVE  conn'[d] = IF d = c THEN "open" ELSE IF d \in bad /\ ~conn_kind.coroutine THEN "shut" ELSE conn[d]
      <4>1. conn'[d] = CASE d = c -> "open"
                         [] d \in bad /\ ~conn_kind.coroutine -> "shut"
                         [] OTHER -> conn[d]
        BY <2>2
      <4>2. d = c => d \notin bad
        <5>1. \A i \in DOMAIN available : available[i] # c
          BY <2>3, PoolTypes, LenProperties DEF PoolInv, PHand
        <5> QED
          BY <1>5, <5>1 DEF Pool!ToSet
      <4> QED
        BY <4>1, <4>2
    <3> QED
      BY <3>1
  <2>5. conn' \in [PoolConns -> PStates]
    <3>1. conn' = [d \in PoolConns |-> conn'[d]]
      BY <2>2
    <3>2. \A d \in PoolConns : conn'[d] \in PStates
      BY <2>4, PoolTypes DEF PStates
    <3> QED
      BY <3>1, <3>2
  <2>6. r \in PTask /\ r.at = "using_sync" /\ r.conn = c
    BY <2>1, <2>3, PoolTypes, TaskIs DEF PPlaces
  <2>7. HandMove(task, available, conn, in_use, strays, t, r, available', conn', in_use', strays')
    <3>1. \A u \in Threads : task[u].at \in PHands => task[u].conn # c
      BY <2>3 DEF PoolInv, PHand
    <3>2. \A d \in PoolConns : conn[d] # "none" => conn'[d] # "none"
      BY <2>4
    <3>3. PSub(available, available') /\ \A i \in 1..Len(available') : available'[i] # r.conn
      BY <2>2, SubNone
    <3> QED
      BY <1>8, <1>10, <2>2, <2>3, <2>4, <2>6, <3>1, <3>2, <3>3, HandsTake DEF PHands
  <2>8. bypassed' \/ \A d \in PoolConns :
           conn'[d] = "open" /\ d \notin strays' => d = c \/ \E q \in 1..Len(listed) : listed[q] = d
    <3>1. ASSUME ~bypassed', NEW d \in PoolConns, conn'[d] = "open", d \notin strays', d # c
          PROVE  \E q \in 1..Len(listed) : listed[q] = d
      <4>1. conn[d] = "open" /\ d \notin strays /\ PKnown(connections, conn, strays)
        BY <1>9, <1>10, <2>4, <3>1 DEF PoolInv, PList
      <4>2. PICK p \in 1..Len(connections) : connections[p] = d
        BY <4>1 DEF PKnown
      <4>3. d \notin bad
        BY <1>10, <2>4, <3>1, <4>1 DEF Pool!Abandoned
      <4> QED
        BY <1>7, <4>2, <4>3
    <3> QED
      BY <3>1
  <2>9. /\ connections' \in Seq(PSlots)
        /\ ListMove(task, connections, conn, strays, plock, bypassed, t, r, connections', conn', strays', plock', bypassed')
    <3>1. /\ \A d \in PoolConns : conn[d] # "none" => conn'[d] # "none"
          /\ \A d \in PoolConns : conn'[d] = "open" => conn[d] \in {"open", "none"}
          /\ c \in PSlots /\ conn'[c] # "none" /\ r.at \notin PLocked
      BY <2>3, <2>4, <2>6, PoolTypes DEF PLocked
    <3>2. PICK e : e = c
      OBVIOUS
    <3>3. /\ e \in PSlots /\ connections' = Append(listed, e) /\ (e \in PoolConns => conn'[e] # "none")
          /\ bypassed' \/ Len(listed) < MAX_CONNECTIONS
          /\ bypassed' \/ \A d \in PoolConns :
                conn'[d] = "open" /\ d \notin strays' => d = e \/ \E q \in 1..Len(listed) : listed[q] = d
      BY <1>17, <2>2, <2>8, <3>1, <3>2
    <3>4. listed \in Seq(PSlots) /\ \A q \in 1..Len(listed) : \E p \in 1..Len(connections) : listed[q] = connections[p]
      BY <1>7
    <3> QED
      BY <1>9, <2>5, <2>6, <3>1, <3>3, <3>4, ListMore
  <2>10. in_use' \subseteq PoolConns /\ available' \in Seq(PoolConns)
    BY <2>2, <2>3, PoolTypes
  <2> QED
    BY <1>10, <2>2, <2>5, <2>6, <2>7, <2>9, <2>10, PoolMoved
<1>18. CASE ~raises /\ left = <<>> /\ ~(Len(listed) < MAX_CONNECTIONS /\ factory)
  <2>1. /\ available' = <<>> /\ connections' = IF Len(listed) < MAX_CONNECTIONS THEN Append(listed, 0) ELSE listed
        /\ Pool!_close_connection_sync(bad) /\ UNCHANGED <<in_use, task>>
    BY <1>4, <1>18
  <2>2. HandMove(task, available, conn, in_use, strays, t, r0, available', conn', in_use', strays')
    BY <1>8, <1>10, <1>11, <1>14, <2>1, HandsEmpty, SubNone
  <2>3. CASE ~(Len(listed) < MAX_CONNECTIONS)
    BY <1>12, <1>14, <2>1, <2>2, <2>3, PoolTypes
  <2>4. CASE Len(listed) < MAX_CONNECTIONS
    <3>1. connections' = Append(listed, 0) /\ 0 \in PSlots /\ 0 \notin PoolConns
      BY <2>1, <2>4, PoolTypes, PoolAssumption
    <3>2. /\ \A d \in PoolConns : conn[d] # "none" => conn'[d] # "none"
          /\ \A d \in PoolConns : conn'[d] = "open" => conn[d] \in {"open", "none"}
          /\ conn' \in [PoolConns -> PStates]
      BY <1>11, <2>1 DEF ConnKept
    <3>3. bypassed' \/ \A d \in PoolConns :
             conn'[d] = "open" /\ d \notin strays' => d = 0 \/ \E q \in 1..Len(listed) : listed[q] = d
      <4>1. ASSUME ~bypassed', NEW d \in PoolConns, conn'[d] = "open", d \notin strays'
            PROVE  \E q \in 1..Len(listed) : listed[q] = d
        <5>1. conn[d] = "open" /\ d \notin strays /\ PKnown(connections, conn, strays)
          BY <1>9, <1>10, <1>11, <2>1, <4>1 DEF PoolInv, PList, ConnKept
        <5>2. PICK p \in 1..Len(connections) : connections[p] = d
          BY <5>1 DEF PKnown
        <5> QED
          BY <1>11, <2>1, <4>1, <5>2
      <4> QED
        BY <4>1
    <3>4. /\ connections' \in Seq(PSlots)
          /\ ListMove(task, connections, conn, strays, plock, bypassed, t, r0, connections', conn', strays', plock', bypassed')
      <4>1. PICK e : e = 0
        OBVIOUS
      <4>2. /\ e \in PSlots /\ connections' = Append(listed, e) /\ (e \in PoolConns => conn'[e] # "none")
            /\ bypassed' \/ Len(listed) < MAX_CONNECTIONS
            /\ bypassed' \/ \A d \in PoolConns :
                  conn'[d] = "open" /\ d \notin strays' => d = e \/ \E q \in 1..Len(listed) : listed[q] = d
        BY <2>4, <3>1, <3>3, <4>1
      <4>3. listed \in Seq(PSlots) /\ \A q \in 1..Len(listed) : \E p \in 1..Len(connections) : listed[q] = connections[p]
        BY <1>7
      <4> QED
        BY <1>9, <1>14, <3>2, <4>2, <4>3, ListMore
    <3>5. task' = [task EXCEPT ![t] = r0] /\ in_use' \subseteq PoolConns /\ available' \in Seq(PoolConns)
      BY <1>14, <2>1, PoolTypes
    <3> QED
      BY <1>10, <1>14, <2>2, <3>2, <3>4, <3>5, PoolMoved
  <2> QED
    BY <2>3, <2>4
<1> QED
  BY <1>15, <1>16, <1>17, <1>18

-----------------------------------------------------------------------------
LEMMA PoolInit ==
  ASSUME Pool!Init
  PROVE  PoolInv
<1>1. /\ connections = <<>> /\ available = <<>> /\ in_use = {} /\ strays = {} /\ plock = {}
      /\ conn = [c \in PoolConns |-> "none"] /\ task = [t \in Threads |-> Pool!Idle]
  BY DEF Pool!Init
<1>2. Len(connections) = 0 /\ Len(available) = 0 /\ connections \in Seq(PSlots) /\ available \in Seq(PoolConns)
  BY <1>1
<1>3. PoolTyped
  BY <1>1, <1>2, IdleTask DEF PoolTyped, PStates
<1>4. \A t \in Threads : task[t].at = "idle"
  BY <1>1, IdleTask
<1>5. PHand(task, available, conn, in_use, strays)
  <2>1. Len(available) <= MAX_KEEPALIVE /\ 1..Len(available) = {}
    BY <1>2, PoolAssumption
  <2> QED
    BY <1>1, <1>4, <2>1 DEF PHand, PHands
<1>6. PList(task, connections, conn, strays, plock, bypassed)
  <2>1. Len(connections) <= MAX_CONNECTIONS /\ 1..Len(connections) = {}
    BY <1>2, PoolAssumption
  <2>2. PMade(connections, conn) /\ PKnown(connections, conn, strays)
    BY <1>1, <2>1 DEF PMade, PKnown
  <2>3. \A t \in Threads : PBusy(task[t], connections, conn)
    BY <1>4 DEF PBusy
  <2> QED
    BY <1>4, <2>1, <2>2, <2>3 DEF PList, PLocked
<1> QED
  BY <1>3, <1>5, <1>6 DEF PoolInv

LEMMA PoolNext ==
  ASSUME PoolInv, [Pool!Next]_(Pool!vars)
  PROVE  PoolInv'
<1>1. ASSUME NEW t \in Threads, Pool!Leave(t) PROVE PoolInv'
  <2>1. PICK c, r : c = task[t].conn /\ r = [at |-> "returning", conn |-> c, n |-> 0, todo |-> <<>>]
    OBVIOUS
  <2>2. /\ task[t].at = "using" /\ task' = [task EXCEPT ![t] = r]
        /\ UNCHANGED <<connections, available, in_use, conn, plock, strays, bypassed>>
    BY <1>1, <2>1 DEF Pool!Leave, Pool!Goto, Pool!pool, Pool!history
  <2>3. c \in PSlots
    BY <2>1, PoolTypes DEF PTask
  <2>4. r \in PTask /\ r.at = "returning" /\ r.conn = c
    BY <2>1, <2>3, PoolTypes, TaskIs DEF PPlaces
  <2> QED
    BY <2>1, <2>2, <2>4, LeaveStep
<1>2. CASE Pool!set_factory
  <2>1. UNCHANGED <<connections, available, in_use, conn, plock, task, strays, bypassed>>
    BY <1>2 DEF Pool!set_factory, Pool!pool, Pool!history
  <2> QED
    BY <2>1, ConnSame, StillStep
<1>3. CASE UNCHANGED Pool!vars
  <2>1. UNCHANGED <<connections, available, in_use, conn, plock, task, strays, bypassed>>
    BY <1>3 DEF Pool!vars, Pool!pool, Pool!history
  <2> QED
    BY <2>1, ConnSame, StillStep
<1> QED
  BY <1>1, <1>2, <1>3, WantStep, AcquireStep, ClosedCandidateStep, GiveBackStep, DiscardedStep, CreateStep, AcquireSyncStep,
     ReleaseSyncStep, CloseSyncStep, CloseStep, CloseNextStep, DrainStep, DrainNextStep, HealthCheckStep, HealthNextStep,
     CancelStep, BreakStep, Zenon DEF Pool!Next

LEMMA PoolHolds ==
  ASSUME PoolInv
  PROVE  Pool!PoolSound
<1>0. /\ DOMAIN available = 1..Len(available) /\ DOMAIN connections = 1..Len(connections)
  BY PoolTypes, LenProperties
<1>1. \A t, u \in Threads : t # u /\ {task[t].at, task[u].at} \subseteq Pool!Holding => task[t].conn # task[u].conn
  BY DEF PoolInv, PHand, PHands, Pool!Holding
<1>2. Pool!Held \cap Pool!ToSet(available) = {}
  BY <1>0 DEF PoolInv, PHand, PHands, Pool!Holding, Pool!Held, Pool!ToSet
<1>3. Pool!IsInjective(available)
  BY <1>0 DEF PoolInv, PHand, Pool!IsInjective
<1>4. Len(available) <= MAX_KEEPALIVE
  BY DEF PoolInv, PHand
<1>5. in_use \subseteq Pool!Held \cup strays
  BY DEF PoolInv, PHand, PHands, Pool!Holding, Pool!Held
<1>6. bypassed \/ Len(connections) <= MAX_CONNECTIONS
  BY DEF PoolInv, PList
<1>7. bypassed \/ {c \in PoolConns : conn[c] = "open"} \subseteq Pool!ToSet(connections) \cup Pool!Held \cup strays
  <2>1. bypassed \/ PKnown(connections, conn, strays)
    BY DEF PoolInv, PList
  <2> QED
    BY <1>0, <2>1 DEF PKnown, Pool!ToSet
<1> QED
  BY <1>1, <1>2, <1>3, <1>4, <1>5, <1>6, <1>7 DEF Pool!PoolSound

LEMMA PoolSafe == Pool!Spec => []Pool!PoolSound
<1>1. Pool!Init => PoolInv
  BY PoolInit
<1>2. PoolInv /\ [Pool!Next]_(Pool!vars) => PoolInv'
  BY PoolNext
<1>3. PoolInv => Pool!PoolSound
  BY PoolHolds
<1> QED
  BY <1>1, <1>2, <1>3, PTL DEF Pool!Spec

\* What is shared has one owner: at most one llama-server is alive and tracked, and a pooled
\* connection is in one pair of hands, is not offered while in use, and is known to a pool that
\* keeps to its limits, however acquiring, releasing, checking, draining, closing, breaking and
\* cancelling overlap, for any tasks, connections, limits and bounds (llm/slm.py,
\* connection_pool.py).
THEOREM SharedIsOwned == Spec => []OneOwner
<1>1. Init /\ focus = "slm" => Slm!Init
  BY DEF Init
<1>2. [Next]_vars /\ focus = "slm" => [Slm!Next]_(Slm!vars) /\ (focus = "slm")'
  BY DEF Next, vars, svars, Slm!vars
<1>3. Init /\ focus = "pool" => Pool!Init
  BY DEF Init
<1>4. [Next]_vars /\ focus = "pool" => [Pool!Next]_(Pool!vars) /\ (focus = "pool")'
  BY DEF Next, vars, pvars, Pool!vars, Pool!pool, Pool!history
<1>5. [Next]_vars => (~(focus = "slm") => ~(focus = "slm")') /\ (~(focus = "pool") => ~(focus = "pool")')
  BY DEF Next, vars
<1>6. (focus = "slm" => Slm!OneServer) /\ (focus = "pool" => Pool!PoolSound) => OneOwner
  BY DEF OneOwner
<1>7. Spec => [](focus = "slm" => Slm!OneServer)
  BY <1>1, <1>2, <1>5, SlmSafe, PTL DEF Spec, Slm!Spec
<1>8. Spec => [](focus = "pool" => Pool!PoolSound)
  BY <1>3, <1>4, <1>5, PoolSafe, PTL DEF Spec, Pool!Spec
<1> QED
  BY <1>6, <1>7, <1>8, PTL

-----------------------------------------------------------------------------
(* The registry of tools and a batch.  The levels of a batch hold every    *)
(* tool that it knows, and each after the tools it depends on.  Levels     *)
(* before the current one are over, and no tool of a later one has         *)
(* started.                                                                *)

Providers == {"sdk", "declarative", "openapi"}
ToolHandlers == {"sync", "async", "http", "shell"}
ToolNamed(n, t) == t.name = n /\ t.provider \in Providers /\ t.handler \in ToolHandlers /\ t.max_retries \in Nat

\* What a discovery or an import may register.
ToolFound(found) == \A t \in found : t.name \in ToolNames /\ ToolNamed(t.name, t)

\* A registered tool is in the set of its provider.
Listing(ts, pts) ==
    /\ DOMAIN ts = ToolNames /\ DOMAIN pts = Providers
    /\ \A n \in ToolNames : ts[n] # NoTool => ToolNamed(n, ts[n]) /\ n \in pts[ts[n].provider]

LEMMA ToolsProviders == Tools!Providers = Providers
  BY DEF Tools!Providers, Providers

LEMMA ToolsRegistered ==
  ASSUME NEW ts, NEW pts, Listing(ts, pts), NEW found, ToolFound(found), NEW f \in Tools!Last(found),
         NEW more, NEW us, us = Tools!Registered(ts, f), NEW qts, qts = Tools!Listed(pts, more), found \subseteq more
  PROVE  Listing(us, qts)
<1>1. /\ us = [n \in ToolNames |-> IF n \in DOMAIN f THEN f[n] ELSE ts[n]]
      /\ qts = [p \in Providers |-> pts[p] \cup {t.name : t \in {u \in more : u.provider = p}}]
  BY ToolsProviders DEF Tools!Registered, Tools!Listed
<1>2. ASSUME NEW n \in DOMAIN f PROVE f[n] \in found /\ f[n].name = n
  BY DEF Tools!Last
<1>3. ASSUME NEW n \in ToolNames, us[n] # NoTool PROVE ToolNamed(n, us[n]) /\ n \in qts[us[n].provider]
  <2>1. CASE n \in DOMAIN f
    <3>1. us[n] = f[n] /\ f[n] \in more /\ ToolNamed(n, f[n]) /\ f[n].name = n
      BY <1>1, <1>2, <2>1 DEF ToolFound
    <3>2. f[n].provider \in Providers
      BY <3>1 DEF ToolNamed
    <3> QED
      BY <1>1, <3>1, <3>2
  <2>2. CASE n \notin DOMAIN f
    <3>1. us[n] = ts[n] /\ ToolNamed(n, ts[n]) /\ n \in pts[ts[n].provider]
      BY <1>1, <1>3, <2>2 DEF Listing
    <3>2. ts[n].provider \in Providers
      BY <3>1 DEF ToolNamed
    <3> QED
      BY <1>1, <3>1, <3>2
  <2> QED
    BY <2>1, <2>2
<1> QED
  BY <1>1, <1>3 DEF Listing

LEMMA ToolsRemoved ==
  ASSUME Listing(tools, provider_tools), NEW S
  PROVE  Listing(Tools!Removed(S), Tools!Unlisted(S))
<1>1. PICK us, qts : us = Tools!Removed(S) /\ qts = Tools!Unlisted(S)
  OBVIOUS
<1>2. /\ us = [n \in ToolNames |-> IF n \in S THEN NoTool ELSE tools[n]]
      /\ qts = [p \in Providers |-> provider_tools[p] \ {n \in S : tools[n] # NoTool /\ tools[n].provider = p}]
  BY <1>1, ToolsProviders DEF Tools!Removed, Tools!Unlisted
<1>3. ASSUME NEW n \in ToolNames, us[n] # NoTool PROVE ToolNamed(n, us[n]) /\ n \in qts[us[n].provider]
  <2>1. n \notin S /\ us[n] = tools[n]
    BY <1>2, <1>3
  <2>2. ToolNamed(n, tools[n]) /\ n \in provider_tools[tools[n].provider] /\ tools[n].provider \in Providers
    BY <1>3, <2>1 DEF Listing, ToolNamed
  <2> QED
    BY <1>2, <2>1, <2>2
<1>4. Listing(us, qts)
  BY <1>2, <1>3 DEF Listing
<1> QED
  BY <1>1, <1>4

\* What the providers may find.
LEMMA ToolsDiscoverable ==
  ASSUME NEW p \in Providers, NEW found \in Tools!Discoverable(p)
  PROVE  ToolFound(found)
<1>1. CASE p = "sdk"
  BY <1>1 DEF Tools!Discoverable, Tools!sdk_discover, ToolFound
<1>2. CASE p = "declarative"
  <2>1. PICK S \in SUBSET ToolEntries : found = Tools!load_from_dir(S)
    BY <1>2 DEF Tools!Discoverable
  <2>2. ASSUME NEW t \in found PROVE t.name \in ToolNames /\ ToolNamed(t.name, t)
    <3>1. PICK e \in S : t \in Tools!_parse_single(e)
      BY <2>1 DEF Tools!load_from_dir
    <3>2. e.type \in {"http", "shell"} /\ t = [name |-> e.name, provider |-> "declarative", handler |-> e.type,
                                               depends_on |-> {}, max_retries |-> e.retries]
      BY <3>1 DEF Tools!_parse_single, Tools!validate_single, Tools!_build_retry_policy
    <3>3. e.name \in ToolNames /\ e.retries \in Nat
      BY <2>1, <3>1, ToolsAssumption
    <3> QED
      BY <3>2, <3>3 DEF ToolNamed, Providers, ToolHandlers
  <2> QED
    BY <2>2 DEF ToolFound
<1>3. CASE p = "openapi"
  <2>1. ASSUME NEW o \in Operations PROVE Tools!from_endpoint(o).name \in ToolNames /\ ToolNamed(Tools!from_endpoint(o).name, Tools!from_endpoint(o))
    BY ToolsAssumption DEF Tools!from_endpoint, ToolNamed, Providers, ToolHandlers
  <2>2. found \in Tools!openapi_discover
    BY <1>3 DEF Tools!Discoverable
  <2>3. \A t \in found : \E o \in Operations : t = Tools!from_endpoint(o)
    BY <2>2 DEF Tools!openapi_discover, Tools!Fetched, Tools!_discover_auto, Tools!_discover_llm_driven
  <2> QED
    BY <2>1, <2>3 DEF ToolFound
<1> QED
  BY <1>1, <1>2, <1>3 DEF Providers

LEMMA ToolsCardinality == \A S : Tools!Cardinality(S) = Cardinality(S)
  BY DEF Tools!Cardinality, Cardinality

\* The tools that remain after each level.
Peels(rem, N, deps) ==
    /\ rem \in [0..N -> SUBSET (DOMAIN deps)] /\ rem[0] = DOMAIN deps
    /\ \A i \in 1..N : rem[i] = rem[i - 1] \ Tools!Ready(deps, rem[i - 1])
LEMMA RemainingIs ==
  ASSUME NEW deps, NEW N \in Nat, N = Tools!Cardinality(DOMAIN deps)
  PROVE  Peels(Tools!Remaining(deps), N, deps)
<1> DEFINE S == SUBSET (DOMAIN deps)
           step == [x \in (1..N) \X S |-> x[2] \ Tools!Ready(deps, x[2])]
<1>1. step \in Rounds(N, S)
  BY DEF Rounds
<1>2. DOMAIN deps \in S
  OBVIOUS
<1>3. PICK g \in [0..N -> S] : g[0] = DOMAIN deps /\ \A i \in 1..N : g[i] = step[<<i, g[i - 1]>>]
  <2>1. PICK base : base = DOMAIN deps
    OBVIOUS
  <2>2. base \in S
    BY <1>2, <2>1
  <2> HIDE DEF S, step
  <2>3. \E g : Loop(g, N, S, base, step)
    BY <1>1, <2>2, Iterates
  <2> QED
    BY <2>1, <2>3 DEF Loop
<1>4. ASSUME NEW i \in 1..N PROVE g[i] = g[i - 1] \ Tools!Ready(deps, g[i - 1])
  <2>1. i - 1 \in 0..N
    OBVIOUS
  <2>2. <<i, g[i - 1]>> \in (1..N) \X S
    BY <1>3, <2>1
  <2> QED
    BY <1>3, <2>2
<1> HIDE DEF S, step
<1>5. g = [i \in 0..N |-> IF i = 0 THEN DOMAIN deps ELSE g[i - 1] \ Tools!Ready(deps, g[i - 1])]
  <2>1. ASSUME NEW i \in 0..N
        PROVE  g[i] = IF i = 0 THEN DOMAIN deps ELSE g[i - 1] \ Tools!Ready(deps, g[i - 1])
    <3>1. CASE i = 0
      BY <1>3, <3>1
    <3>2. CASE i # 0
      <4>1. i \in 1..N
        BY <3>2
      <4> QED
        BY <1>4, <3>2, <4>1
    <3> QED
      BY <3>1, <3>2
  <2> QED
    BY <1>3, <2>1
<1>6. Tools!Remaining(deps) =
        CHOOSE f : f = [i \in 0..N |-> IF i = 0 THEN DOMAIN deps ELSE f[i - 1] \ Tools!Ready(deps, f[i - 1])]
  BY Zenon DEF Tools!Remaining
<1>7. PICK rem : rem = Tools!Remaining(deps)
  OBVIOUS
<1>8. rem = [i \in 0..N |-> IF i = 0 THEN DOMAIN deps ELSE rem[i - 1] \ Tools!Ready(deps, rem[i - 1])]
  BY <1>5, <1>6, <1>7, Zenon
<1>9. rem[0] = DOMAIN deps /\ \A i \in 1..N : rem[i] = rem[i - 1] \ Tools!Ready(deps, rem[i - 1])
  <2>1. 0 \in 0..N /\ \A i \in 1..N : i \in 0..N /\ i # 0
    OBVIOUS
  <2> QED
    BY <1>8, <2>1
<1>10. \A i \in 0..N : rem[i] \subseteq DOMAIN deps
  <2> DEFINE P == {i \in 0..N : rem[i] \subseteq DOMAIN deps}
  <2>1. 0 \in P
    BY <1>9
  <2>2. ASSUME NEW i \in 1..N, i - 1 \in P PROVE i \in P
    BY <1>9, <2>2
  <2>3. \A i \in 0..N : i \in P
    <3> HIDE DEF P
    <3> QED
      BY <2>1, <2>2, UpTo
  <2> QED
    BY <2>3
<1>11. rem \in [0..N -> SUBSET (DOMAIN deps)]
  <2>1. DOMAIN rem = 0..N
    BY <1>8
  <2>2. rem = [i \in 0..N |-> rem[i]]
    BY <1>8
  <2> QED
    BY <1>10, <2>2
<1> QED
  BY <1>7, <1>9, <1>11 DEF Peels

\* What is no longer there after m levels was taken by one of them.
LEMMA Taken ==
  ASSUME NEW rem, NEW m \in Nat, NEW x, x \in rem[0], x \notin rem[m]
  PROVE  \E i \in 1..m : x \in rem[i - 1] /\ x \notin rem[i]
<1> DEFINE T == {i \in 0..m : x \notin rem[i]}
<1>1. T \subseteq Nat /\ T # {}
  <2>1. m \in 0..m
    OBVIOUS
  <2> QED
    BY <2>1
<1>2. PICK i \in T : \A j \in T : i <= j
  <2> HIDE DEF T
  <2> QED
    BY <1>1, Least
<1>3. i \in 0..m /\ x \notin rem[i] /\ i # 0
  OBVIOUS
<1>4. i \in 1..m /\ i - 1 \in 0..m /\ ~(i <= i - 1)
  BY <1>3
<1> QED
  BY <1>2, <1>3, <1>4

\* Every tool is in a level, and after what it depends on.
Layered(lv, deps) ==
    /\ lv \in Seq(SUBSET (DOMAIN deps))
    /\ \A n \in DOMAIN deps : \E k \in 1..Len(lv) : n \in lv[k]
    /\ \A k \in 1..Len(lv) : \A n \in lv[k] : \A d \in deps[n] : \E j \in 1..Len(lv) : j < k /\ d \in lv[j]
LEMMA LevelsAre ==
  ASSUME NEW deps, IsFiniteSet(DOMAIN deps), Tools!Resolvable(deps)
  PROVE  Layered(Tools!_resolve_dependency_levels(deps), deps)
<1>1. PICK N, rem : N = Tools!Cardinality(DOMAIN deps) /\ rem = Tools!Remaining(deps)
  OBVIOUS
<1>2. N \in Nat
  BY <1>1, ToolsCardinality, FS_CardinalityType
<1>3. Peels(rem, N, deps)
  BY <1>1, <1>2, RemainingIs
<1>4. DOMAIN rem = 0..N /\ rem[0] = DOMAIN deps /\ rem[N] = {} /\ \A n \in DOMAIN deps : deps[n] \subseteq DOMAIN deps
  BY <1>1, <1>3 DEF Tools!Resolvable, Peels
<1> DEFINE Empty == {k \in 0..N : rem[k] = {}}
           First(k) == rem[k] = {} /\ \A j \in 0..(k - 1) : rem[j] # {}
<1>5. \E k \in 0..N : First(k)
  <2>1. Empty \subseteq Nat /\ Empty # {}
    <3>1. N \in 0..N
      BY <1>2
    <3> QED
      BY <1>4, <3>1
  <2>2. PICK k \in Empty : \A j \in Empty : k <= j
    <3> HIDE DEF Empty
    <3> QED
      BY <2>1, Least
  <2>3. k \in 0..N /\ rem[k] = {}
    OBVIOUS
  <2>4. ASSUME NEW j \in 0..(k - 1) PROVE rem[j] # {}
    <3>1. j \in 0..N /\ ~(k <= j)
      BY <1>2, <2>3
    <3> QED
      BY <2>2, <3>1
  <2> QED
    BY <2>3, <2>4
<1>6. PICK depth : depth = CHOOSE k \in DOMAIN rem : rem[k] = {} /\ \A j \in 0..(k - 1) : rem[j] # {}
  OBVIOUS
<1>7. depth \in 0..N /\ rem[depth] = {}
  BY <1>4, <1>5, <1>6
<1>8. PICK lv : lv = Tools!_resolve_dependency_levels(deps)
  OBVIOUS
<1>9. lv = [k \in 1..depth |-> rem[k - 1] \ rem[k]]
  BY <1>1, <1>6, <1>8 DEF Tools!_resolve_dependency_levels
<1>10. depth \in Nat /\ depth <= N
  BY <1>2, <1>7
<1>11. ASSUME NEW k \in 1..depth PROVE lv[k] = rem[k - 1] \ rem[k] /\ lv[k] \in SUBSET (DOMAIN deps) /\ k \in 1..N /\ k - 1 \in 0..N /\ k - 1 \in Nat
  <2>1. k \in 1..N /\ k - 1 \in 0..N /\ k - 1 \in Nat
    BY <1>2, <1>10
  <2>2. rem[k - 1] \in SUBSET (DOMAIN deps)
    BY <1>3, <2>1 DEF Peels
  <2> QED
    BY <1>9, <2>1, <2>2
<1>12. lv \in Seq(SUBSET (DOMAIN deps)) /\ Len(lv) = depth
  <2>1. lv \in [1..depth -> SUBSET (DOMAIN deps)]
    BY <1>9, <1>11
  <2> QED
    BY <1>10, <2>1
<1>13. ASSUME NEW n \in DOMAIN deps PROVE \E k \in 1..depth : n \in lv[k]
  <2>1. n \in rem[0] /\ n \notin rem[depth]
    BY <1>4, <1>7
  <2>2. PICK k \in 1..depth : n \in rem[k - 1] /\ n \notin rem[k]
    BY <1>10, <2>1, Taken
  <2> QED
    BY <1>11, <2>2
<1>14. ASSUME NEW k \in 1..depth, NEW n \in lv[k], NEW d \in deps[n] PROVE \E j \in 1..depth : j < k /\ d \in lv[j]
  <2>1. n \in Tools!Ready(deps, rem[k - 1])
    BY <1>3, <1>11 DEF Peels
  <2>2. d \notin rem[k - 1] /\ n \in DOMAIN deps
    BY <1>11, <2>1 DEF Tools!Ready
  <2>3. PICK m : m = k - 1
    OBVIOUS
  <2>4. m \in Nat /\ d \in rem[0] /\ d \notin rem[m]
    BY <1>4, <1>11, <2>2, <2>3
  <2>5. PICK j \in 1..m : d \in rem[j - 1] /\ d \notin rem[j]
    BY <2>4, Taken
  <2>6. j \in 1..depth /\ j < k
    BY <1>10, <2>3
  <2> QED
    BY <1>11, <2>5, <2>6
<1> QED
  BY <1>8, <1>12, <1>13, <1>14 DEF Layered

SlotRecords == [st : {"wait", "run", "sleep", "ok", "error"}, attempts : Nat, total : Nat, handler : ToolHandlers \cup {"none"}]
SlotOk(s) ==
    /\ s \in SlotRecords
    /\ s.st = "wait" => s.attempts = 0
    /\ s.st \in {"run", "sleep"} => s.attempts < s.total
    /\ s.st \in {"ok", "error"} => s.attempts \in 1..s.total
Busy(slot) == {n \in DOMAIN slot : slot[n].st \in {"run", "sleep"}}

Going(lv, i, deps, slot) ==
    /\ DOMAIN slot = DOMAIN deps /\ DOMAIN slot \subseteq ToolNames
    /\ \A n \in DOMAIN slot : SlotOk(slot[n])
    /\ Layered(lv, deps) /\ i \in Nat \ {0}
    /\ \A k \in 1..Len(lv) : k < i => \A n \in lv[k] : slot[n].st \in {"ok", "error"}
    /\ \A n \in DOMAIN slot : slot[n].st # "wait" => \E k \in 1..Len(lv) : k <= i /\ n \in lv[k]
    /\ Cardinality(Busy(slot)) <= MAX_CONCURRENCY

\* The calls have the results of their tools, which were tried as often as they may be.
Gathered(cs, slot, rs) ==
    /\ Len(rs) = Len(cs)
    /\ \A i \in DOMAIN cs :
          /\ rs[i].name = cs[i].name
          /\ cs[i].name \in DOMAIN slot => slot[cs[i].name].attempts \in 1..slot[cs[i].name].total

BatchShaped(b) ==
    b = [pc |-> b.pc, calls |-> b.calls, levels |-> b.levels, at |-> b.at, deps |-> b.deps, slot |-> b.slot, results |-> b.results]
BatchOk(b) ==
    /\ BatchShaped(b)
    /\ b.pc = "running" => b.calls \in ToolBatches /\ Going(b.levels, b.at, b.deps, b.slot)
    /\ b.pc = "done" => Gathered(b.calls, b.slot, b.results)

ToolsInv == Listing(tools, provider_tools) /\ BatchOk(batch)

LEMMA BusyFinite ==
  ASSUME NEW slot, DOMAIN slot \subseteq ToolNames
  PROVE  IsFiniteSet(Busy(slot)) /\ Cardinality(Busy(slot)) \in Nat
<1>1. Busy(slot) \in SUBSET ToolNames /\ IsFiniteSet(ToolNames)
  BY ToolsAssumption DEF Busy
<1>2. IsFiniteSet(Busy(slot))
  BY <1>1, FS_Subset
<1> QED
  BY <1>2, FS_CardinalityType

\* The end of an attempt.
LEMMA AttemptEnds ==
  ASSUME NEW s \in SlotRecords, s.attempts < s.total, NEW out
  PROVE  SlotOk(Tools!Settled(s, out)) /\ Tools!Settled(s, out).st # "wait"
<1>1. PICK r : r = Tools!Settled(s, out)
  OBVIOUS
<1>2. PICK st : st = CASE out = "ok" -> "ok" [] out # "ok" /\ s.attempts + 1 < s.total -> "sleep" [] OTHER -> "error"
  OBVIOUS
<1>3. r = [s EXCEPT !.attempts = @ + 1, !.st = st]
  BY <1>1, <1>2 DEF Tools!Settled
<1>4. s.attempts \in Nat /\ s.total \in Nat
  BY DEF SlotRecords
<1>5. /\ r \in [st : {st}, attempts : {s.attempts + 1}, total : {s.total}, handler : ToolHandlers \cup {"none"}]
      /\ r.st = st /\ r.attempts = s.attempts + 1 /\ r.total = s.total
  BY <1>3 DEF SlotRecords
<1>6. st \in {"ok", "sleep", "error"} /\ (st = "sleep" => s.attempts + 1 < s.total)
  <2>1. CASE out = "ok"
    BY <1>2, <2>1
  <2>2. CASE out # "ok" /\ s.attempts + 1 < s.total
    BY <1>2, <2>2
  <2>3. CASE out # "ok" /\ ~(s.attempts + 1 < s.total)
    BY <1>2, <2>3
  <2> QED
    BY <2>1, <2>2, <2>3
<1>7. s.attempts + 1 \in 1..s.total /\ s.attempts + 1 \in Nat
  BY <1>4
<1>8. r \in SlotRecords
  BY <1>4, <1>5, <1>6, <1>7 DEF SlotRecords
<1>9. SlotOk(r) /\ r.st # "wait"
  BY <1>5, <1>6, <1>7, <1>8 DEF SlotOk
<1> QED
  BY <1>1, <1>9

\* A tool of the current level that waits, or one that has started, goes on.
LEMMA SlotMoves ==
  ASSUME NEW lv, NEW i, NEW deps, NEW slot, Going(lv, i, deps, slot), NEW n \in DOMAIN slot, NEW s,
         SlotOk(s), s.st # "wait",
         \/ slot[n].st \in {"run", "sleep"}
         \/ /\ slot[n].st = "wait" /\ i \in 1..Len(lv) /\ n \in lv[i]
            /\ Cardinality(Busy(slot)) < MAX_CONCURRENCY
  PROVE  Going(lv, i, deps, [slot EXCEPT ![n] = s])
<1>1. PICK slot2 : slot2 = [slot EXCEPT ![n] = s]
  OBVIOUS
<1>2. DOMAIN slot2 = DOMAIN slot /\ \A m \in DOMAIN slot : slot2[m] = IF m = n THEN s ELSE slot[m]
  BY <1>1
<1>3. DOMAIN slot \subseteq ToolNames /\ DOMAIN slot = DOMAIN deps /\ Layered(lv, deps) /\ i \in Nat \ {0}
  BY DEF Going
<1>4. \A m \in DOMAIN slot2 : SlotOk(slot2[m])
  BY <1>2 DEF Going
<1>5. ASSUME NEW k \in 1..Len(lv), k < i, NEW m \in lv[k] PROVE slot2[m].st \in {"ok", "error"}
  <2>1. slot[m].st \in {"ok", "error"}
    BY <1>5 DEF Going
  <2>2. m \in DOMAIN slot
    <3>1. lv[k] \in SUBSET (DOMAIN deps)
      BY <1>3, ElementOfSeq DEF Layered
    <3> QED
      BY <1>3, <3>1
  <2> QED
    BY <1>2, <2>1, <2>2
<1>6. ASSUME NEW m \in DOMAIN slot2, slot2[m].st # "wait" PROVE \E k \in 1..Len(lv) : k <= i /\ m \in lv[k]
  <2>1. CASE slot[m].st # "wait"
    BY <1>2, <2>1 DEF Going
  <2>2. CASE slot[m].st = "wait"
    <3>1. m = n /\ i \in 1..Len(lv) /\ n \in lv[i]
      BY <1>2, <1>6, <2>2
    <3>2. i <= i
      BY <1>3
    <3> QED
      BY <3>1, <3>2
  <2> QED
    BY <2>1, <2>2
<1>7. Cardinality(Busy(slot2)) <= MAX_CONCURRENCY
  <2>1. IsFiniteSet(Busy(slot)) /\ Cardinality(Busy(slot)) \in Nat /\ Cardinality(Busy(slot2)) \in Nat
    BY <1>2, <1>3, BusyFinite
  <2>2. Cardinality(Busy(slot)) <= MAX_CONCURRENCY /\ MAX_CONCURRENCY \in Nat
    BY ToolsAssumption DEF Going
  <2>3. Busy(slot2) \in SUBSET (Busy(slot) \cup {n})
    BY <1>2 DEF Busy
  <2>4. CASE slot[n].st \in {"run", "sleep"}
    <3>1. Busy(slot2) \in SUBSET Busy(slot)
      BY <2>3, <2>4 DEF Busy
    <3>2. Cardinality(Busy(slot2)) <= Cardinality(Busy(slot))
      BY <2>1, <3>1, FS_Subset
    <3> QED
      BY <2>1, <2>2, <3>2
  <2>5. CASE Cardinality(Busy(slot)) < MAX_CONCURRENCY
    <3>1. PICK B : B = Busy(slot)
      OBVIOUS
    <3>2. IsFiniteSet(B \cup {n}) /\ Cardinality(B \cup {n}) = IF n \in B THEN Cardinality(B) ELSE Cardinality(B) + 1
      BY <2>1, <3>1, FS_AddElement
    <3>3. Cardinality(Busy(slot2)) <= Cardinality(B \cup {n})
      BY <2>3, <3>1, <3>2, FS_Subset
    <3>4. Cardinality(B) \in Nat /\ Cardinality(B) < MAX_CONCURRENCY
      BY <2>1, <2>5, <3>1
    <3>5. Cardinality(B \cup {n}) \in Nat /\ Cardinality(B \cup {n}) <= MAX_CONCURRENCY
      BY <2>2, <3>2, <3>4
    <3> QED
      BY <2>1, <2>2, <3>3, <3>5
  <2> QED
    BY <2>4, <2>5
<1>8. Going(lv, i, deps, slot2)
  BY <1>2, <1>3, <1>4, <1>5, <1>6, <1>7 DEF Going
<1> QED
  BY <1>1, <1>8

\* The registry changes.
LEMMA RegistryChanges ==
  ASSUME Listing(tools, provider_tools)
  PROVE  /\ \A t \in SdkTools : Tools!register(t) => Listing(tools', provider_tools')
         /\ \A n \in ToolNames : Tools!unregister(n) => Listing(tools', provider_tools')
         /\ \A p \in Providers : \A found \in Tools!Discoverable(p) :
               /\ Tools!discover(found, tools, provider_tools) => Listing(tools', provider_tools')
               /\ Tools!reload_provider(p, found) => Listing(tools', provider_tools')
         /\ \A d \in Tools!Discoverable("declarative"), a \in Tools!Discoverable("openapi") :
               Tools!discover_all(d, a) => Listing(tools', provider_tools')
<1>1. ASSUME NEW t \in SdkTools, Tools!register(t) PROVE Listing(tools', provider_tools')
  <2>1. PICK found, f : found = {t} /\ f = [n \in {t.name} |-> t]
    OBVIOUS
  <2>2. tools' = Tools!Registered(tools, f) /\ provider_tools' = Tools!Listed(provider_tools, found)
    BY <1>1, <2>1 DEF Tools!register
  <2>3. t.name \in ToolNames /\ ToolNamed(t.name, t)
    BY ToolsAssumption DEF ToolNamed, Providers, ToolHandlers
  <2>4. ToolFound(found)
    BY <2>1, <2>3 DEF ToolFound
  <2>5. f \in Tools!Last(found)
    BY <2>1 DEF Tools!Last
  <2> QED
    BY <2>2, <2>4, <2>5, ToolsRegistered
<1>2. ASSUME NEW n \in ToolNames, Tools!unregister(n) PROVE Listing(tools', provider_tools')
  BY <1>2, ToolsRemoved DEF Tools!unregister
<1>3. ASSUME NEW ts, NEW pts, Listing(ts, pts), NEW found, ToolFound(found), Tools!discover(found, ts, pts)
      PROVE  Listing(tools', provider_tools')
  <2>1. PICK f \in Tools!Last(found) : tools' = Tools!Registered(ts, f)
    BY <1>3 DEF Tools!discover
  <2>2. provider_tools' = Tools!Listed(pts, found)
    BY <1>3 DEF Tools!discover
  <2> QED
    BY <1>3, <2>1, <2>2, ToolsRegistered
<1>4. ASSUME NEW p \in Providers, NEW found \in Tools!Discoverable(p)
      PROVE  /\ Tools!discover(found, tools, provider_tools) => Listing(tools', provider_tools')
             /\ Tools!reload_provider(p, found) => Listing(tools', provider_tools')
  <2>1. ToolFound(found)
    BY ToolsDiscoverable
  <2>2. ASSUME Tools!reload_provider(p, found) PROVE Listing(tools', provider_tools')
    <3>1. PICK ts, pts : ts = Tools!Removed(provider_tools[p]) /\ pts = Tools!Unlisted(provider_tools[p])
      OBVIOUS
    <3>2. Listing(ts, pts)
      BY <3>1, ToolsRemoved
    <3>3. Tools!discover(found, ts, pts)
      BY <2>2, <3>1 DEF Tools!reload_provider
    <3> QED
      BY <1>3, <2>1, <3>2, <3>3
  <2> QED
    BY <1>3, <2>1, <2>2
<1>5. ASSUME NEW d \in Tools!Discoverable("declarative"), NEW a \in Tools!Discoverable("openapi"), Tools!discover_all(d, a)
      PROVE  Listing(tools', provider_tools')
  <2>1. ToolFound(d) /\ ToolFound(a)
    BY ToolsDiscoverable DEF Providers
  <2>2. PICK f \in Tools!Last(d), g \in Tools!Last(a) : tools' = Tools!Registered(Tools!Registered(tools, f), g)
    BY <1>5 DEF Tools!discover_all
  <2>3. provider_tools' = Tools!Listed(provider_tools, d \cup a)
    BY <1>5 DEF Tools!discover_all
  <2>4. PICK more, us, qts : more = d \cup a /\ us = Tools!Registered(tools, f) /\ qts = Tools!Listed(provider_tools, more)
    OBVIOUS
  <2>5. Listing(us, qts)
    BY <2>1, <2>4, ToolsRegistered
  <2>6. PICK vs, rts : vs = Tools!Registered(us, g) /\ rts = Tools!Listed(qts, more)
    OBVIOUS
  <2>7. Listing(vs, rts)
    BY <2>1, <2>4, <2>5, <2>6, ToolsRegistered
  <2>8. rts = qts
    <3>1. qts = [p \in Providers |-> provider_tools[p] \cup {t.name : t \in {u \in more : u.provider = p}}]
      BY <2>4, ToolsProviders DEF Tools!Listed
    <3>2. rts = [p \in Providers |-> qts[p] \cup {t.name : t \in {u \in more : u.provider = p}}]
      BY <2>6, ToolsProviders DEF Tools!Listed
    <3> QED
      BY <3>1, <3>2
  <2> QED
    BY <2>2, <2>3, <2>4, <2>6, <2>7, <2>8
<1> QED
  BY <1>1, <1>2, <1>4, <1>5

\* A batch begins.
LEMMA BatchBegins ==
  ASSUME ToolsInv, NEW cs \in ToolBatches, Tools!execute_all(cs)
  PROVE  BatchOk(batch')
<1> DEFINE kn == {n \in {cs[i].name : i \in DOMAIN cs} : tools[n] # NoTool}
           deps == [n \in kn |-> tools[n].depends_on]
<1>1. PICK b : b = batch'
  OBVIOUS
<1>2. kn \subseteq ToolNames /\ DOMAIN deps = kn
  <2>1. cs \in Seq([id : Nat, name : ToolNames, complete : BOOLEAN])
    BY ToolsAssumption
  <2>2. \A i \in DOMAIN cs : cs[i] \in [id : Nat, name : ToolNames, complete : BOOLEAN]
    BY <2>1, ElementOfSeq, LenProperties
  <2> QED
    BY <2>2
<1>3. CASE kn # {} /\ ~Tools!Resolvable(deps)
  <2>1. b = [Tools!NoBatch EXCEPT !.pc = "raised", !.calls = cs]
    BY <1>1, <1>3 DEF Tools!execute_all
  <2>2. BatchShaped(b) /\ b.pc = "raised"
    BY <2>1 DEF Tools!NoBatch, BatchShaped
  <2> QED
    BY <1>1, <2>2 DEF BatchOk
<1>4. CASE ~(kn # {} /\ ~Tools!Resolvable(deps))
  <2>1. PICK lv, slot : /\ lv = IF kn = {} THEN <<>> ELSE Tools!_resolve_dependency_levels(deps)
                        /\ slot = [n \in kn |-> Tools!Fresh]
    OBVIOUS
  <2>2. b = [Tools!NoBatch EXCEPT !.pc = "running", !.calls = cs, !.at = 1, !.deps = deps, !.levels = lv, !.slot = slot]
    BY <1>1, <1>4, <2>1 DEF Tools!execute_all
  <2>3. IsFiniteSet(kn)
    BY <1>2, FS_Subset, ToolsAssumption
  <2>4. Layered(lv, deps)
    <3>1. CASE kn = {}
      <4>1. lv = <<>> /\ Len(lv) = 0 /\ lv \in Seq(SUBSET (DOMAIN deps)) /\ DOMAIN deps = {}
        BY <1>2, <2>1, <3>1
      <4> HIDE DEF deps
      <4> QED
        BY <4>1 DEF Layered
    <3>2. CASE kn # {}
      <4>1. Tools!Resolvable(deps) /\ IsFiniteSet(DOMAIN deps) /\ lv = Tools!_resolve_dependency_levels(deps)
        BY <1>2, <1>4, <2>1, <2>3, <3>2
      <4> HIDE DEF deps
      <4> QED
        BY <4>1, LevelsAre
    <3> QED
      BY <3>1, <3>2
  <2>5. ASSUME NEW n \in kn PROVE SlotOk(slot[n]) /\ slot[n].st = "wait"
    BY <2>1 DEF Tools!Fresh, SlotOk, SlotRecords
  <2>6. DOMAIN slot = kn
    BY <2>1
  <2>7. Cardinality(Busy(slot)) <= MAX_CONCURRENCY
    <3>1. Busy(slot) = {}
      BY <2>5, <2>6 DEF Busy
    <3>2. Cardinality(Busy(slot)) = 0
      BY <3>1, FS_EmptySet
    <3> QED
      BY <3>2, ToolsAssumption
  <2>8. ASSUME NEW k \in 1..Len(lv), k < 1 PROVE FALSE
    BY <2>8
  <2>9. Going(lv, 1, deps, slot)
    <3> HIDE DEF deps, kn
    <3> QED
      BY <1>2, <2>4, <2>5, <2>6, <2>7, <2>8 DEF Going
  <2>10. BatchShaped(b) /\ b.pc = "running" /\ b.calls = cs /\ b.levels = lv /\ b.at = 1 /\ b.deps = deps /\ b.slot = slot
    BY <2>2 DEF Tools!NoBatch, BatchShaped
  <2> HIDE DEF deps
  <2> QED
    BY <1>1, <2>9, <2>10 DEF BatchOk
<1> QED
  BY <1>3, <1>4

\* One slot of a running batch changes.
LEMMA BatchMoves ==
  ASSUME BatchOk(batch), batch.pc = "running", NEW n \in DOMAIN batch.slot, NEW s, SlotOk(s), s.st # "wait",
         batch' = [batch EXCEPT !.slot[n] = s],
         \/ batch.slot[n].st \in {"run", "sleep"}
         \/ /\ batch.slot[n].st = "wait" /\ batch.at \in 1..Len(batch.levels) /\ n \in batch.levels[batch.at]
            /\ Cardinality(Busy(batch.slot)) < MAX_CONCURRENCY
  PROVE  BatchOk(batch')
<1>1. PICK lv, i, deps, slot : lv = batch.levels /\ i = batch.at /\ deps = batch.deps /\ slot = batch.slot
  OBVIOUS
<1>2. Going(lv, i, deps, slot) /\ batch.calls \in ToolBatches
  BY <1>1 DEF BatchOk
<1>3. PICK slot2 : slot2 = [slot EXCEPT ![n] = s]
  OBVIOUS
<1>4. Going(lv, i, deps, slot2)
  <2>1. \/ slot[n].st \in {"run", "sleep"}
        \/ slot[n].st = "wait" /\ i \in 1..Len(lv) /\ n \in lv[i] /\ Cardinality(Busy(slot)) < MAX_CONCURRENCY
    BY <1>1
  <2>2. n \in DOMAIN slot
    BY <1>1
  <2>3. Going(lv, i, deps, [slot EXCEPT ![n] = s])
    BY <1>2, <2>1, <2>2, SlotMoves
  <2> QED
    BY <1>3, <2>3
<1>5. PICK b : b = batch'
  OBVIOUS
<1>6. b = [batch EXCEPT !.slot = slot2]
  BY <1>1, <1>3, <1>5
<1>7. /\ BatchShaped(b) /\ b.pc = "running" /\ b.calls = batch.calls
      /\ b.levels = lv /\ b.at = i /\ b.deps = deps /\ b.slot = slot2
  BY <1>1, <1>6 DEF BatchOk, BatchShaped
<1> QED
  BY <1>2, <1>4, <1>5, <1>7 DEF BatchOk

LEMMA CallStarts ==
  ASSUME ToolsInv, NEW n \in ToolNames, n \in DOMAIN batch.slot, Tools!execute_single(n)
  PROVE  BatchOk(batch')
<1>1. PICK s, total : /\ s = batch.slot[n]
                      /\ total = IF s.st = "sleep" THEN s.total ELSE IF tools[n] = NoTool THEN 1 ELSE 1 + tools[n].max_retries
  OBVIOUS
<1>2. PICK r : r = [s EXCEPT !.total = total]
  OBVIOUS
<1>3. /\ batch.pc = "running" /\ n \in Tools!Level
      /\ s.st = "sleep" \/ (s.st = "wait" /\ Tools!Cardinality(Tools!Holding) < MAX_CONCURRENCY)
  BY <1>1 DEF Tools!execute_single
<1>4. SlotOk(s) /\ s \in SlotRecords
  BY <1>1, <1>3 DEF ToolsInv, BatchOk, Going, SlotOk
<1>5. tools[n] # NoTool => tools[n].max_retries \in Nat /\ tools[n].handler \in ToolHandlers
  BY DEF ToolsInv, Listing, ToolNamed
<1>6. r \in SlotRecords /\ r.attempts < r.total
  <2>1. CASE s.st = "sleep"
    <3>1. total = s.total /\ s.attempts < s.total /\ s.total \in Nat
      BY <1>1, <1>4, <2>1 DEF SlotOk, SlotRecords
    <3> QED
      BY <1>2, <1>4, <3>1 DEF SlotRecords
  <2>2. CASE s.st = "wait"
    <3>1. total \in Nat /\ 0 < total
      BY <1>1, <1>5, <2>2
    <3>2. s.attempts = 0
      BY <1>4, <2>2 DEF SlotOk
    <3> QED
      BY <1>2, <1>4, <3>1, <3>2 DEF SlotRecords
  <2> QED
    BY <1>3, <2>1, <2>2
<1>7. PICK out : /\ out = "await" => tools[n] # NoTool
                 /\ batch' = [batch EXCEPT !.slot[n] = IF out = "await" THEN [r EXCEPT !.st = "run", !.handler = tools[n].handler]
                                                       ELSE Tools!Settled(r, out)]
  <2>1. PICK out : /\ out \in IF tools[n] = NoTool \/ ~Tools!_validate_params(n) THEN {"missing"}
                              ELSE IF tools[n].handler \in {"sync", "shell"} THEN Tools!Outcomes(tools[n].handler)
                              ELSE {"await"}
                   /\ batch' = [batch EXCEPT !.slot[n] =
                                  IF out = "await" THEN [r EXCEPT !.st = "run", !.handler = tools[n].handler]
                                  ELSE Tools!Settled(r, out)]
    BY <1>1, <1>2 DEF Tools!execute_single
  <2> QED
    BY <2>1
<1>8. PICK t : t = IF out = "await" THEN [r EXCEPT !.st = "run", !.handler = tools[n].handler] ELSE Tools!Settled(r, out)
  OBVIOUS
<1>9. SlotOk(t) /\ t.st # "wait"
  <2>1. CASE out = "await"
    <3>1. t = [r EXCEPT !.st = "run", !.handler = tools[n].handler] /\ tools[n].handler \in ToolHandlers
      BY <1>5, <1>7, <1>8, <2>1
    <3>2. t \in SlotRecords /\ t.st = "run" /\ t.attempts = r.attempts /\ t.total = r.total
      BY <1>6, <3>1 DEF SlotRecords
    <3> QED
      BY <1>6, <3>2 DEF SlotOk
  <2>2. CASE out # "await"
    <3>1. t = Tools!Settled(r, out)
      BY <1>8, <2>2
    <3> QED
      BY <1>6, <3>1, AttemptEnds
  <2> QED
    BY <2>1, <2>2
<1>10. batch' = [batch EXCEPT !.slot[n] = t]
  BY <1>7, <1>8
<1>11. batch.at \in 1..Len(batch.levels) /\ n \in batch.levels[batch.at]
  <2>1. batch.at <= Len(batch.levels) /\ n \in batch.levels[batch.at]
    BY <1>3 DEF Tools!Level
  <2>2. batch.at \in Nat \ {0} /\ Len(batch.levels) \in Nat
    BY <1>3 DEF ToolsInv, BatchOk, Going, Layered
  <2> QED
    BY <2>1, <2>2
<1>12. Tools!Holding = Busy(batch.slot)
  BY DEF Tools!Holding, Busy
<1>13. s.st = "sleep" \/ (s.st = "wait" /\ Cardinality(Busy(batch.slot)) < MAX_CONCURRENCY)
  BY <1>3, <1>12, ToolsCardinality
<1> QED
  BY <1>1, <1>3, <1>9, <1>10, <1>11, <1>13, BatchMoves DEF ToolsInv

LEMMA CallReturns ==
  ASSUME ToolsInv, NEW n \in ToolNames, NEW out, Tools!execute_async(n, out)
  PROVE  BatchOk(batch')
<1>1. batch.pc = "running" /\ n \in DOMAIN batch.slot /\ batch.slot[n].st = "run"
  BY DEF Tools!execute_async
<1>2. PICK s, t : s = batch.slot[n] /\ t = Tools!Settled(s, out)
  OBVIOUS
<1>3. s \in SlotRecords /\ s.attempts < s.total
  BY <1>1, <1>2 DEF ToolsInv, BatchOk, Going, SlotOk
<1>4. SlotOk(t) /\ t.st # "wait"
  BY <1>2, <1>3, AttemptEnds
<1>5. batch' = [batch EXCEPT !.slot[n] = t]
  BY <1>2 DEF Tools!execute_async
<1> QED
  BY <1>1, <1>4, <1>5, BatchMoves DEF ToolsInv

LEMMA BatchGathers ==
  ASSUME ToolsInv, Tools!Gather
  PROVE  BatchOk(batch')
<1>1. PICK lv, i, deps, slot, cs : /\ lv = batch.levels /\ i = batch.at /\ deps = batch.deps /\ slot = batch.slot
                                   /\ cs = batch.calls
  OBVIOUS
<1>2. batch.pc = "running" /\ \A n \in Tools!Level : Tools!Over(n)
  BY DEF Tools!Gather
<1>3. Going(lv, i, deps, slot) /\ cs \in ToolBatches /\ BatchShaped(batch)
  BY <1>1, <1>2 DEF ToolsInv, BatchOk
<1>4. i \in Nat \ {0} /\ Len(lv) \in Nat /\ Layered(lv, deps) /\ DOMAIN slot = DOMAIN deps
  BY <1>3 DEF Going, Layered
<1>5. ASSUME NEW k \in 1..Len(lv), k <= i, NEW n \in lv[k] PROVE slot[n].st \in {"ok", "error"}
  <2>1. CASE k < i
    BY <1>3, <2>1 DEF Going
  <2>2. CASE ~(k < i)
    <3>1. k = i /\ i <= Len(lv)
      BY <1>4, <1>5, <2>2
    <3>2. n \in Tools!Level
      BY <1>1, <3>1 DEF Tools!Level
    <3> QED
      BY <1>1, <1>2, <3>2 DEF Tools!Over
  <2> QED
    BY <2>1, <2>2
<1>6. PICK b : b = batch'
  OBVIOUS
<1>7. CASE i < Len(lv)
  <2>1. b = [batch EXCEPT !.at = i + 1]
    BY <1>1, <1>6, <1>7 DEF Tools!Gather
  <2>2. ASSUME NEW k \in 1..Len(lv) PROVE (k < i + 1 => k <= i) /\ (k <= i => k <= i + 1)
    BY <1>4
  <2>3. i + 1 \in Nat \ {0}
    BY <1>4
  <2>4. Going(lv, i + 1, deps, slot)
    <3>1. PICK l : l = i + 1
      OBVIOUS
    <3>2. \A k \in 1..Len(lv) : k < l => \A n \in lv[k] : slot[n].st \in {"ok", "error"}
      BY <1>5, <2>2, <3>1
    <3>3. \A n \in DOMAIN slot : slot[n].st # "wait" => \E k \in 1..Len(lv) : k <= l /\ n \in lv[k]
      BY <1>3, <2>2, <3>1 DEF Going
    <3>4. Going(lv, l, deps, slot)
      BY <1>3, <2>3, <3>1, <3>2, <3>3 DEF Going
    <3> QED
      BY <3>1, <3>4
  <2>5. /\ BatchShaped(b) /\ b.pc = "running" /\ b.calls = cs
        /\ b.levels = lv /\ b.at = i + 1 /\ b.deps = deps /\ b.slot = slot
    BY <1>1, <1>2, <1>3, <2>1 DEF BatchShaped
  <2> QED
    BY <1>3, <1>6, <2>4, <2>5 DEF BatchOk
<1>8. CASE ~(i < Len(lv))
  <2>1. PICK rs : b = [batch EXCEPT !.pc = "done", !.results = rs] /\ DOMAIN rs = DOMAIN cs
                  /\ rs = [j \in DOMAIN cs |-> rs[j]] /\ \A j \in DOMAIN cs : rs[j].name = cs[j].name
    <3> DEFINE result(c) == IF c.name \in DOMAIN batch.slot
                            THEN [name |-> c.name, id |-> Tools!name_to_call(cs, c.name).id, outcome |-> batch.slot[c.name].st]
                            ELSE [name |-> c.name, id |-> c.id, outcome |-> "error"]
               rs == [j \in DOMAIN cs |-> result(cs[j])]
    <3>1. b = [batch EXCEPT !.pc = "done", !.results = rs]
      BY <1>1, <1>6, <1>8 DEF Tools!Gather
    <3>2. ASSUME NEW c PROVE result(c).name = c.name
      OBVIOUS
    <3> HIDE DEF result
    <3>3. \A j \in DOMAIN cs : rs[j].name = cs[j].name
      BY <3>2
    <3>4. DOMAIN rs = DOMAIN cs /\ rs = [j \in DOMAIN cs |-> rs[j]]
      OBVIOUS
    <3> HIDE DEF rs
    <3> QED
      BY <3>1, <3>3, <3>4
  <2>2. Len(rs) = Len(cs)
    <3>1. cs \in Seq([id : Nat, name : ToolNames, complete : BOOLEAN])
      BY <1>3, ToolsAssumption
    <3>2. Len(cs) \in Nat /\ DOMAIN cs = 1..Len(cs)
      BY <3>1, LenProperties
    <3>3. PICK len : len = Len(cs)
      OBVIOUS
    <3>4. len \in Nat /\ DOMAIN rs = 1..len
      BY <2>1, <3>2, <3>3
    <3> QED
      BY <3>3, <3>4, LenIs
  <2>3. ASSUME NEW n \in DOMAIN slot PROVE slot[n].attempts \in 1..slot[n].total
    <3>1. PICK k \in 1..Len(lv) : n \in lv[k]
      BY <1>4 DEF Layered
    <3>2. k <= i
      BY <1>4, <1>8
    <3>3. slot[n].st \in {"ok", "error"}
      BY <1>5, <3>1, <3>2
    <3> QED
      BY <1>3, <3>3 DEF Going, SlotOk
  <2>4. Gathered(cs, slot, rs)
    BY <2>1, <2>2, <2>3 DEF Gathered
  <2>5. BatchShaped(b) /\ b.pc = "done" /\ b.calls = cs /\ b.slot = slot /\ b.results = rs
    BY <1>1, <1>3, <2>1 DEF BatchShaped
  <2> QED
    BY <1>6, <2>4, <2>5 DEF BatchOk
<1> QED
  BY <1>7, <1>8

LEMMA ToolsStep == ToolsInv /\ [Tools!Next]_(Tools!vars) => ToolsInv'
<1>1. SUFFICES ASSUME ToolsInv, [Tools!Next]_(Tools!vars) PROVE ToolsInv'
  OBVIOUS
<1>2. SUFFICES Listing(tools', provider_tools') /\ BatchOk(batch')
  BY DEF ToolsInv, Listing, BatchOk, BatchShaped, Going, Gathered, SlotOk, Busy, Layered, ToolNamed
<1>3. Listing(tools, provider_tools) /\ BatchOk(batch)
  BY <1>1 DEF ToolsInv
<1>4. ASSUME NEW A, Tools!Change(A) PROVE A /\ batch' = batch
  BY <1>4 DEF Tools!Change
<1>5. CASE Tools!Next
  <2>1. ASSUME NEW t \in SdkTools, Tools!Change(Tools!register(t)) PROVE Listing(tools', provider_tools') /\ batch' = batch
    BY <1>3, <2>1, RegistryChanges DEF Tools!Change
  <2>2. ASSUME NEW n \in ToolNames, Tools!Change(Tools!unregister(n)) PROVE Listing(tools', provider_tools') /\ batch' = batch
    BY <1>3, <2>2, RegistryChanges DEF Tools!Change
  <2>3. ASSUME NEW p \in Tools!Providers, NEW found \in Tools!Discoverable(p),
               \/ Tools!Change(Tools!discover(found, tools, provider_tools))
               \/ Tools!Change(Tools!reload_provider(p, found))
        PROVE  Listing(tools', provider_tools') /\ batch' = batch
    BY <1>3, <2>3, RegistryChanges, ToolsProviders DEF Tools!Change
  <2>4. ASSUME NEW d \in Tools!Discoverable("declarative"), NEW a \in Tools!Discoverable("openapi"),
               Tools!Change(Tools!discover_all(d, a))
        PROVE  Listing(tools', provider_tools') /\ batch' = batch
    BY <1>3, <2>4, RegistryChanges DEF Tools!Change
  <2>5. ASSUME NEW cs \in ToolBatches, Tools!execute_all(cs) PROVE BatchOk(batch') /\ UNCHANGED <<tools, provider_tools>>
    BY <1>1, <2>5, BatchBegins DEF Tools!execute_all
  <2>6. ASSUME NEW n \in ToolNames, n \in DOMAIN batch.slot, Tools!execute_single(n)
        PROVE  BatchOk(batch') /\ UNCHANGED <<tools, provider_tools>>
    BY <1>1, <2>6, CallStarts DEF Tools!execute_single
  <2>7. ASSUME NEW n \in ToolNames, NEW out, Tools!execute_async(n, out)
        PROVE  BatchOk(batch') /\ UNCHANGED <<tools, provider_tools>>
    BY <1>1, <2>7, CallReturns DEF Tools!execute_async
  <2>8. ASSUME Tools!Gather PROVE BatchOk(batch') /\ UNCHANGED <<tools, provider_tools>>
    BY <1>1, <2>8, BatchGathers DEF Tools!Gather
  <2>9. \/ Listing(tools', provider_tools') /\ batch' = batch
        \/ BatchOk(batch') /\ UNCHANGED <<tools, provider_tools>>
    BY <1>5, <2>1, <2>2, <2>3, <2>4, <2>5, <2>6, <2>7, <2>8 DEF Tools!Next
  <2> QED
    BY <1>3, <2>9
<1>6. CASE UNCHANGED Tools!vars
  BY <1>3, <1>6 DEF Tools!vars
<1> QED
  BY <1>1, <1>5, <1>6

LEMMA ToolsStart == Tools!Init => ToolsInv
<1>1. SUFFICES ASSUME Tools!Init PROVE ToolsInv
  OBVIOUS
<1>2. Listing(tools, provider_tools)
  BY <1>1, ToolsProviders DEF Tools!Init, Listing
<1>3. BatchShaped(batch) /\ batch.pc = "none"
  BY <1>1 DEF Tools!Init, Tools!NoBatch, BatchShaped
<1> QED
  BY <1>2, <1>3 DEF ToolsInv, BatchOk

LEMMA ToolsHold == ToolsInv => Tools!OneResultPerCall
<1>1. SUFFICES ASSUME ToolsInv PROVE Tools!OneResultPerCall
  OBVIOUS
<1>2. ASSUME NEW n \in ToolNames, tools[n] # NoTool PROVE n \in provider_tools[tools[n].provider]
  BY <1>1, <1>2 DEF ToolsInv, Listing
<1>3. ASSUME batch.pc = "running"
      PROVE  /\ Tools!Cardinality(Tools!Holding) <= MAX_CONCURRENCY
             /\ \A n \in DOMAIN batch.slot : batch.slot[n].st # "wait" =>
                   /\ \A d \in batch.deps[n] : Tools!Over(d)
                   /\ batch.slot[n].attempts <= batch.slot[n].total
  <2>1. PICK lv, i, deps, slot : lv = batch.levels /\ i = batch.at /\ deps = batch.deps /\ slot = batch.slot
    OBVIOUS
  <2>2. Going(lv, i, deps, slot)
    BY <1>1, <1>3, <2>1 DEF ToolsInv, BatchOk
  <2>3. Tools!Holding = Busy(slot)
    BY <2>1 DEF Tools!Holding, Busy
  <2>4. Tools!Cardinality(Tools!Holding) <= MAX_CONCURRENCY
    BY <2>2, <2>3, ToolsCardinality DEF Going
  <2>5. ASSUME NEW n \in DOMAIN slot, slot[n].st # "wait" PROVE slot[n].attempts <= slot[n].total
    <3>1. SlotOk(slot[n])
      BY <2>2 DEF Going
    <3> QED
      BY <2>5, <3>1 DEF SlotOk, SlotRecords
  <2>6. ASSUME NEW n \in DOMAIN slot, slot[n].st # "wait", NEW d \in deps[n] PROVE slot[d].st \in {"ok", "error"}
    <3>1. PICK k \in 1..Len(lv) : k <= i /\ n \in lv[k]
      BY <2>2, <2>6 DEF Going
    <3>2. PICK j \in 1..Len(lv) : j < k /\ d \in lv[j]
      BY <2>2, <2>6, <3>1 DEF Going, Layered
    <3>3. i \in Nat /\ Len(lv) \in Nat
      BY <2>2 DEF Going, Layered
    <3>4. j < i
      BY <3>1, <3>2, <3>3
    <3> QED
      BY <2>2, <3>2, <3>4 DEF Going
  <2> QED
    BY <2>1, <2>4, <2>5, <2>6 DEF Tools!Over
<1>4. ASSUME batch.pc = "done" PROVE Gathered(batch.calls, batch.slot, batch.results)
  BY <1>1, <1>4 DEF ToolsInv, BatchOk
<1>5. ASSUME batch.pc = "done"
      PROVE  /\ Len(batch.results) = Len(batch.calls)
             /\ \A i \in DOMAIN batch.calls :
                   LET n == batch.calls[i].name IN
                   /\ batch.results[i].name = n
                   /\ n \in DOMAIN batch.slot => batch.slot[n].attempts \in 1..batch.slot[n].total
  <2>1. PICK cs, slot, rs : cs = batch.calls /\ slot = batch.slot /\ rs = batch.results
    OBVIOUS
  <2>2. Gathered(cs, slot, rs)
    BY <1>4, <1>5, <2>1
  <2>3. Len(rs) = Len(cs)
    BY <2>2 DEF Gathered
  <2>4. ASSUME NEW i \in DOMAIN cs
        PROVE  /\ rs[i].name = cs[i].name
               /\ cs[i].name \in DOMAIN slot => slot[cs[i].name].attempts \in 1..slot[cs[i].name].total
    BY <2>2 DEF Gathered
  <2> QED
    BY <2>1, <2>3, <2>4, Zenon
<1> QED
  BY <1>2, <1>3, <1>5, Zenon DEF Tools!OneResultPerCall

LEMMA ToolsSafe == Tools!Spec => []Tools!OneResultPerCall
  BY ToolsStart, ToolsStep, ToolsHold, PTL DEF Tools!Spec

\* However the registry is reloaded, extended and emptied under a batch, a registered tool is
\* listed under its provider, no call starts before those it depends on are over, none is tried
\* more often than its policy allowed or beyond the semaphore, and every call gets a result of its
\* own tool, for any tools, files, specs, batches and limits (tools/registry.py, orchestrator.py).
THEOREM CallsAreAnswered == Spec => []OneResultPerCall
<1>1. Init /\ focus = "tools" => Tools!Init
  BY DEF Init
<1>2. [Next]_vars /\ focus = "tools" => [Tools!Next]_(Tools!vars) /\ (focus = "tools")'
  BY DEF Next, vars, ovars, Tools!vars
<1>3. [Next]_vars => (~(focus = "tools") => ~(focus = "tools")')
  BY DEF Next, vars
<1>4. (focus = "tools" => Tools!OneResultPerCall) => OneResultPerCall
  BY DEF OneResultPerCall
<1>5. Spec => [](focus = "tools" => Tools!OneResultPerCall)
  BY <1>1, <1>2, <1>3, ToolsSafe, PTL DEF Spec, Tools!Spec
<1> QED
  BY <1>4, <1>5, PTL
=============================================================================

--------------------------- MODULE EtlBatchProofs ---------------------------
(***************************************************************************)
(* Proofs about EtlBatch, for any number of documents, any set of          *)
(* configured sources, and any bounds on changes and failures.             *)
(***************************************************************************)
EXTENDS EtlBatch, TLAPS

-----------------------------------------------------------------------------
(* The inductive invariant *)

Labels == {"end", "since", "load", "list", "docs", "save", "dump", "unlink", "acquire", "write"}

\* What the argument needs of TypeOK.
Typed ==
  /\ configured \subseteq Sources
  /\ clock \in Times /\ modified \in [Docs -> Times] /\ raw \in [Docs -> Times]
  /\ wal \in Wals
  /\ pc \in [Sources -> Labels]
  /\ since \in [Sources -> Times] /\ copy \in [Sources -> Wals]
  /\ todo \in [Sources -> SUBSET (Docs \X Times)]
  /\ passed \subseteq Docs /\ missed \subseteq Docs

\* Nothing is recorded from the future.
Timed ==
  /\ \A d \in Docs : 1 <= modified[d] /\ raw[d] <= modified[d] /\ modified[d] <= clock
  /\ \A s \in Sources : wal.last[s] <= clock /\ since[s] <= clock
  /\ \A s, t \in Sources : copy[s].last[t] <= clock

\* A document later runs need not look at, and one this run need not.
Fine(d)    == raw[d] = modified[d] \/ d \in missed
Handled(d) == Fine(d) \/ d \in passed

Covered(w)  == \A d \in Docs : modified[d] <= w.last[d[1]] => Fine(d)
Recorded(w) == \A d \in Docs : w.seen[d] <= raw[d]

\* While source s is extracted, each of its documents is handled or still to do.
Extraction(s) ==
  /\ \A d \in Of(s) : Handled(d) \/ \E e \in todo[s] : e[1] = d
  /\ \A e \in todo[s] : e[1] \in Of(s) /\ e[2] <= modified[e[1]]
  /\ \A e, f \in todo[s] : e[1] = f[1] => e = f
  /\ s = "jira" => \A e \in todo[s] : /\ raw[e[1]] <= e[2]
                                      /\ e[2] = modified[e[1]] \/ e[1] \in passed

Extracting == {"docs", "save", "dump"}
Recording  == {"unlink", "acquire", "write"}

ThreadInv(s) ==
  /\ pc[s] \in {"load", "list"} => \A d \in Of(s) : modified[d] <= since[s] => Fine(d)
  /\ pc[s] \in {"list"} \cup Extracting => Covered(copy[s])
  /\ pc[s] \in {"list", "write"} \cup Extracting => Recorded(copy[s])
  /\ pc[s] \in Extracting => Extraction(s)
  /\ pc[s] \in Recording => \A d \in Of(s) : modified[d] <= since[s] => Handled(d)
  /\ pc[s] = "write" => /\ copy[s].last[s] = since[s]
                        /\ \A d \in Docs \ Of(s) : modified[d] <= copy[s].last[d[1]] => Fine(d)

IInv ==
  /\ Typed
  /\ Timed
  /\ Covered(wal)
  /\ Recorded(wal)
  /\ \A s \in Sources : ThreadInv(s)

-----------------------------------------------------------------------------
(* Lemmas *)

\* The constants: sources of documents, and times.
LEMMA Constants ==
  /\ \A d \in Docs : d[1] \in Sources
  /\ Times \subseteq Nat /\ 0 \in Times /\ 1 \in Times
  /\ \A s \in Sources : Of(s) \subseteq Docs
  /\ \A d \in Docs : d \in Of(d[1])
  /\ \A s \in Sources : \A d \in Of(s) : d[1] = s
  BY BoundsAssumption DEF Docs, Times, Of

\* What a WAL holds are times, and so are the documents' versions.
LEMMA WalTimes ==
  ASSUME NEW w \in Wals
  PROVE  /\ \A s \in Sources : w.last[s] \in Nat
         /\ \A d \in Docs : w.seen[d] \in Nat /\ w.last[d[1]] \in Nat
         /\ w.top \in Times
  <1>1. w.last \in [Sources -> Times] /\ w.seen \in [Docs -> Times] /\ w.top \in Times
    BY DEF Wals
  <1> QED BY <1>1, Constants

LEMMA ListedOf ==
  ASSUME NEW s \in Sources
  PROVE  Listed(s) \subseteq Of(s) /\ Listed(s) \subseteq Docs
  <1>1. s \in {"confluence", "jira", "gitlab"}
    BY DEF Sources, SourceNames
  <1>2. CASE s = "confluence"
    BY <1>2 DEF Listed, Of
  <1>3. CASE s = "jira"
    BY <1>3 DEF Listed, Of
  <1>4. CASE s = "gitlab"
    BY <1>4 DEF Listed, Of
  <1> QED BY <1>1, <1>2, <1>3, <1>4

LEMMA DocTimes ==
  ASSUME Typed
  PROVE  \A d \in Docs : modified[d] \in Nat /\ raw[d] \in Nat
  BY Constants DEF Typed

\* An unreadable file, which Blank stands for, records nothing.
LEMMA BlankRecordsNothing ==
  ASSUME Typed, Timed
  PROVE  Blank \in Wals /\ Covered(Blank) /\ Recorded(Blank)
         /\ \A s \in Sources : Blank.last[s] = 0
  <1>1. Blank \in Wals /\ \A s \in Sources : Blank.last[s] = 0
    BY Constants DEF Blank, Wals
  <1>2. \A d \in Docs : Blank.seen[d] = 0
    BY DEF Blank
  <1>3. Covered(Blank)
    <2> SUFFICES ASSUME NEW d \in Docs, modified[d] <= Blank.last[d[1]]
                 PROVE  FALSE
      BY DEF Covered
    <2> QED BY <1>1, Constants, DocTimes DEF Timed
  <1>4. Recorded(Blank)
    BY <1>2, DocTimes DEF Recorded
  <1> QED BY <1>1, <1>3, <1>4

\* A step of another thread, or of none, that changes no source, forgets no
\* document and leaves those of t alone, keeps what thread t relies on.
LEMMA Untouched ==
  ASSUME Typed, Typed', NEW t \in Sources, ThreadInv(t),
         pc'[t] = pc[t], since'[t] = since[t], copy'[t] = copy[t], todo'[t] = todo[t],
         modified' = modified,
         \A d \in Docs : raw[d] <= raw'[d] /\ (Fine(d) => Fine(d)'),
         \A d \in Of(t) : raw'[d] = raw[d] /\ (d \in passed => d \in passed')
  PROVE  ThreadInv(t)'
  <1> USE Constants
  <1>1. \A d \in Of(t) : Handled(d) => Handled(d)'
    BY DEF Handled
  <1>2. Covered(copy[t]) => Covered(copy[t])'
    BY DEF Covered, Typed
  <1>3. Recorded(copy[t]) => Recorded(copy[t])'
    <2> SUFFICES ASSUME Recorded(copy[t]), NEW d \in Docs
                 PROVE  copy'[t].seen[d] <= raw'[d]
      BY DEF Recorded
    <2>1. copy[t].seen[d] <= raw[d] /\ raw[d] <= raw'[d]
      BY DEF Recorded
    <2>2. copy[t].seen[d] \in Nat /\ raw[d] \in Nat /\ raw'[d] \in Nat
      <3>1. copy[t] \in Wals
        BY DEF Typed
      <3>2. raw' \in [Docs -> Times]
        BY DEF Typed
      <3> QED BY <3>1, <3>2, WalTimes, DocTimes
    <2> QED BY <2>1, <2>2
  <1>4. Extraction(t) => Extraction(t)'
    BY <1>1 DEF Extraction, Typed
  <1>5. \A d \in Of(t) : (modified[d] <= since[t] => Fine(d))
          => (modified'[d] <= since'[t] => Fine(d)')
    OBVIOUS
  <1>6. \A d \in Docs \ Of(t) : (modified[d] <= copy[t].last[d[1]] => Fine(d))
          => (modified'[d] <= copy'[t].last[d[1]] => Fine(d)')
    OBVIOUS
  <1>7. \A d \in Of(t) : (modified[d] <= since[t] => Handled(d))
          => (modified'[d] <= since'[t] => Handled(d)')
    BY <1>1
  <1> QED BY <1>2, <1>3, <1>4, <1>5, <1>6, <1>7 DEF ThreadInv

\* The same for the file.
LEMMA FileUntouched ==
  ASSUME Typed, Typed', Covered(wal), Recorded(wal), wal' = wal, modified' = modified,
         \A d \in Docs : raw[d] <= raw'[d] /\ (Fine(d) => Fine(d)')
  PROVE  Covered(wal)' /\ Recorded(wal)'
  <1> USE Constants
  <1>1. Covered(wal)'
    BY DEF Covered
  <1>2. \A d \in Docs : wal.seen[d] \in Nat /\ raw[d] \in Nat /\ raw'[d] \in Nat
    <2>1. wal \in Wals /\ raw' \in [Docs -> Times]
      BY DEF Typed
    <2> QED BY <2>1, WalTimes, DocTimes
  <1>3. Recorded(wal)'
    BY <1>2 DEF Recorded
  <1> QED BY <1>1, <1>3

-----------------------------------------------------------------------------
(* Steps preserve Typed *)

LEMMA TypedPreserved ==
  ASSUME Typed, Next
  PROVE  Typed'
  <1> USE Constants
  <1> USE DEF Typed, Labels
  <1>b. Blank \in Wals
    BY DEF Blank, Wals
  <1>1. ASSUME NEW d \in Docs, Edit(d) PROVE Typed'
    <2>1. clock' \in Times
      BY <1>1, BoundsAssumption DEF Edit, Times
    <2> QED BY <1>1, <2>1 DEF Edit, fileVars, threadVars, runVars
  <1>2. ASSUME main PROVE Typed'
    BY <1>2 DEF main, histVars
  <1>3. ASSUME reset_all PROVE Typed'
    BY <1>3, <1>b DEF reset_all, threadVars, runVars, histVars
  <1>4. ASSUME exit PROVE Typed'
    BY <1>4 DEF exit, threadVars
  <1>5. ASSUME Signal PROVE Typed'
    BY <1>5 DEF Signal, fileVars, threadVars
  <1>6. ASSUME Crash PROVE Typed'
    BY <1>6, <1>b DEF Crash
  <1>7. ASSUME NEW s \in Sources, get_last_run(s) PROVE Typed'
    <2>1. wal.last[s] \in Times
      BY DEF Wals
    <2> QED BY <1>7, <2>1 DEF get_last_run, fileVars, runVars, histVars, Goto
  <1>8. ASSUME NEW s \in Sources, _load_wal(s) PROVE Typed'
    BY <1>8 DEF _load_wal, fileVars, runVars, histVars, Goto
  <1>9. ASSUME NEW s \in Sources, list(s) PROVE Typed'
    <2>1. Listed(s) \subseteq Docs
      BY ListedOf
    <2>2. {<<d, modified[d]>> : d \in Listed(s)} \subseteq Docs \X Times
      BY <2>1
    <2>3. Outdated(Of(s) \ Listed(s)) \subseteq Docs
      BY DEF Outdated
    <2> QED BY <1>9, <2>2, <2>3 DEF list, fileVars, runVars, Goto
  <1>10. ASSUME NEW s \in Sources, NEW e \in todo[s], skip(s, e) PROVE Typed'
    <2>1. e \in Docs \X Times
      OBVIOUS
    <2>2. Outdated({e[1]}) \subseteq Docs
      BY <2>1 DEF Outdated
    <2> QED BY <1>10, <2>2 DEF skip, Done, fileVars, runVars
  <1>11. ASSUME NEW s \in Sources, NEW e \in todo[s], extract(s, e) PROVE Typed'
    <2>1. e \in Docs \X Times
      OBVIOUS
    <2>2. copy' \in [Sources -> Wals]
      <3>1. PICK c : c = [copy[s] EXCEPT !.seen[e[1]] = e[2], !.top = clock]
        OBVIOUS
      <3>2. copy[s] \in Wals /\ e[1] \in Docs /\ e[2] \in Times /\ clock \in Times
        BY <2>1
      <3>3. c \in Wals
        BY <3>1, <3>2 DEF Wals
      <3>4. copy' = [copy EXCEPT ![s] = c]
        BY <1>11, <3>1 DEF extract
      <3> QED
        BY <3>3, <3>4
    <2>3. raw' \in [Docs -> Times] /\ passed' \subseteq Docs /\ missed' \subseteq Docs
      BY <1>11, <2>1 DEF extract, Save
    <2> QED BY <1>11, <2>2, <2>3 DEF extract, Done, Goto, fileVars, runVars
  <1>12. ASSUME NEW s \in Sources, NEW e \in todo[s], _update_wal_commit(s, e) PROVE Typed'
    <2>1. e \in Docs \X Times
      OBVIOUS
    <2>2. copy' \in [Sources -> Wals]
      BY <1>12 DEF _update_wal_commit, Wals
    <2> QED BY <1>12, <2>1, <2>2 DEF _update_wal_commit, Goto, fileVars, runVars, histVars
  <1>13. ASSUME NEW s \in Sources, NEW e \in todo[s], _save_project_data(s, e) PROVE Typed'
    <2>1. e \in Docs \X Times
      OBVIOUS
    <2>2. raw' \in [Docs -> Times] /\ passed' \subseteq Docs /\ missed' \subseteq Docs
      BY <1>13, <2>1 DEF _save_project_data, Save
    <2> QED BY <1>13, <2>2 DEF _save_project_data, Done, fileVars, runVars
  <1>14. ASSUME NEW s \in Sources, NEW e \in todo[s], extract_fails(s, e) PROVE Typed'
    <2>1. e \in Docs \X Times
      OBVIOUS
    <2>2. Outdated({e[1]}) \subseteq Docs
      BY <2>1 DEF Outdated
    <2> QED BY <1>14, <2>2 DEF extract_fails, Done, fileVars, runVars
  <1>15. ASSUME NEW s \in Sources, _save_wal(s) PROVE Typed'
    BY <1>15, <1>b DEF _save_wal, Truncate, Goto, runVars, histVars
  <1>16. ASSUME NEW s \in Sources, _save_wal_dump(s) PROVE Typed'
    BY <1>16, <1>b DEF _save_wal_dump, Dump, Goto, runVars, histVars
  <1>17. ASSUME NEW s \in Sources, interrupted(s) PROVE Typed'
    <2>1. Outdated({e[1] : e \in todo[s]}) \subseteq Docs
      BY DEF Outdated
    <2> QED BY <1>17, <2>1 DEF interrupted, fileVars, runVars
  <1>18. ASSUME NEW s \in Sources, fails(s) PROVE Typed'
    BY <1>18, <1>b DEF fails, End, Goto, fileVars
  <1>19. ASSUME NEW s \in Sources, update_last_run(s) PROVE Typed'
    BY <1>19 DEF update_last_run, Goto, fileVars, runVars, histVars
  <1>20. ASSUME NEW s \in Sources, _safe_remove(s) PROVE Typed'
    BY <1>20 DEF _safe_remove, Goto, runVars
  <1>21. ASSUME NEW s \in Sources, acquire(s) PROVE Typed'
    <2>1. [wal EXCEPT !.last[s] = since[s]] \in Wals
      BY DEF Wals
    <2> QED BY <1>21, <1>b, <2>1 DEF acquire, Truncate, Goto, runVars, histVars
  <1>22. ASSUME NEW s \in Sources, _write_raw(s) PROVE Typed'
    <2>1. missed' \subseteq Docs /\ passed' \subseteq Docs
      BY <1>22 DEF _write_raw, Outdated
    <2>2. wal' \in Wals
      BY <1>22, <1>b DEF _write_raw, Dump
    <2> QED BY <1>22, <1>b, <2>1, <2>2 DEF _write_raw, End, Goto
  <1> QED
    BY <1>1, <1>2, <1>3, <1>4, <1>5, <1>6, <1>7, <1>8, <1>9, <1>10, <1>11, <1>12, <1>13,
       <1>14, <1>15, <1>16, <1>17, <1>18, <1>19, <1>20, <1>21, <1>22
    DEF Next, Work, Thread

-----------------------------------------------------------------------------
(* Steps preserve the rest *)

\* A step of thread s that changes no source and forgets none of the others'
\* documents keeps what the other threads rely on.
LEMMA OtherThreads ==
  ASSUME IInv, Typed', NEW s \in Sources, modified' = modified,
         \A t \in Sources \ {s} : /\ pc'[t] = pc[t] /\ since'[t] = since[t]
                                  /\ copy'[t] = copy[t] /\ todo'[t] = todo[t],
         \A d \in Docs : raw[d] <= raw'[d] /\ (Fine(d) => Fine(d)'),
         \A d \in Docs \ Of(s) : raw'[d] = raw[d] /\ (d \in passed => d \in passed')
  PROVE  \A t \in Sources \ {s} : ThreadInv(t)'
  <1> SUFFICES ASSUME NEW t \in Sources \ {s} PROVE ThreadInv(t)'
    OBVIOUS
  <1>1. Of(t) \subseteq Docs \ Of(s)
    BY Constants
  <1>2. Typed /\ ThreadInv(t)
    BY DEF IInv
  <1> QED BY <1>1, <1>2, Untouched

\* Writing document d in a version between that on disk and the current one.
LEMMA SaveDoc ==
  ASSUME Typed, Timed, NEW d \in Docs, NEW v \in Times, raw[d] <= v, v <= modified[d],
         Save(d, v), modified' = modified
  PROVE  /\ raw'[d] = v /\ (v = modified[d] => Fine(d)')
         /\ v # modified[d] /\ d \in passed => d \in passed'
         /\ \A x \in Docs : /\ raw[x] <= raw'[x] /\ raw'[x] <= modified[x]
                            /\ Fine(x) => Fine(x)'
                            /\ x # d => raw'[x] = raw[x] /\ (x \in passed => x \in passed')
  <1>0. v \in Nat
    BY Constants
  <1>1. raw'[d] = v /\ \A x \in Docs \ {d} : raw'[x] = raw[x]
    BY DEF Save, Typed
  <1>2. \A x \in Docs \ {d} : Fine(x) => Fine(x)'
    BY <1>1 DEF Save, Fine
  <1>3. v = modified[d] => Fine(d)'
    BY <1>1 DEF Fine
  <1>4. v # modified[d] => raw[d] # modified[d]
    BY <1>0, DocTimes
  <1>5. v # modified[d] /\ Fine(d) => Fine(d)'
    BY <1>4 DEF Fine, Save
  <1>6. \A x \in Docs : raw[x] <= raw'[x] /\ raw'[x] <= modified[x]
    BY <1>0, <1>1, DocTimes DEF Timed
  <1>7. \A x \in passed : x # d \/ v # modified[d] => x \in passed'
    BY DEF Save
  <1> QED BY <1>1, <1>2, <1>3, <1>5, <1>6, <1>7

\* Steps that are not those of a thread.
LEMMA MainPreserves ==
  ASSUME IInv, Typed', main \/ reset_all \/ exit \/ Signal \/ Crash
  PROVE  IInv'
  <1> USE DEF IInv
  <1>u. modified' = modified /\ raw' = raw /\ missed' = missed /\ clock' = clock
    BY DEF main, reset_all, exit, Signal, Crash, histVars
  <1>f. \A d \in Docs : raw[d] <= raw'[d] /\ (Fine(d) => Fine(d)')
    BY <1>u, DocTimes DEF Fine
  <1>w. wal' = wal \/ wal' = Blank
    BY DEF main, reset_all, exit, Signal, Crash, fileVars
  <1>1. Covered(wal)' /\ Recorded(wal)'
    <2>1. CASE wal' = wal
      BY <1>f, <1>u, <2>1, FileUntouched
    <2>2. CASE wal' = Blank
      BY <1>u, <2>2, BlankRecordsNothing DEF Covered, Recorded, Fine
    <2> QED BY <1>w, <2>1, <2>2
  <1>c. (since' = since /\ copy' = copy) \/ Crash
    BY DEF main, reset_all, exit, Signal, threadVars
  <1>2. Timed'
    <2>1. \A s \in Sources : wal'[ "last" ][s] <= clock'
      BY <1>u, <1>w, BlankRecordsNothing, Constants DEF Timed, Typed
    <2>2. \A s, t \in Sources : since'[s] <= clock' /\ copy'[s].last[t] <= clock'
      <3>1. CASE since' = since /\ copy' = copy
        BY <3>1, <1>u DEF Timed
      <3>2. CASE Crash
        <4>1. \A s \in Sources : since'[s] = 0 /\ copy'[s] = Blank
          BY <3>2 DEF Crash
        <4> QED BY <4>1, <1>u, BlankRecordsNothing, Constants DEF Typed
      <3> QED BY <1>c, <3>1, <3>2
    <2> QED BY <1>u, <2>1, <2>2 DEF Timed
  <1>3. ASSUME NEW s \in Sources PROVE ThreadInv(s)'
    <2>1. CASE main \/ Crash
      <3>1. pc'[s] \in {"since", "end"}
        BY <2>1 DEF main, Crash
      <3> QED BY <3>1 DEF ThreadInv, Extracting, Recording
    <2>2. CASE reset_all \/ exit \/ Signal
      <3>1. pc' = pc /\ since' = since /\ copy' = copy /\ todo' = todo /\ passed' = passed
        BY <2>2 DEF reset_all, exit, Signal, threadVars, histVars
      <3> QED BY <3>1, <1>u, <1>f, Untouched, Constants
    <2> QED BY <2>1, <2>2
  <1> QED BY <1>1, <1>2, <1>3

\* A change at a source is later than every last_run and every since_date.
LEMMA EditPreserves ==
  ASSUME IInv, Typed', NEW d \in Docs, Edit(d)
  PROVE  IInv'
  <1> USE DEF IInv
  <1> USE Constants
  <1>c. clock \in Nat /\ clock' = clock + 1
    BY DEF Edit, Typed
  <1>m. modified'[d] = clock + 1 /\ \A x \in Docs \ {d} : modified'[x] = modified[x]
    BY <1>c DEF Edit, Typed
  <1>u. /\ raw' = raw /\ wal' = wal /\ pc' = pc /\ since' = since /\ copy' = copy /\ todo' = todo
        /\ \A x \in Docs : x \in passed => x \in passed'
        /\ pc[d[1]] \in Extracting => d \in passed'
    BY DEF Edit, fileVars, threadVars, Extracting
  <1>f. \A x \in Docs \ {d} : Fine(x) => Fine(x)'
    BY <1>m, <1>u DEF Edit, Fine
  <1>g. \A x \in Docs : modified[x] \in Nat /\ raw[x] \in Nat /\ modified[x] <= modified'[x]
    BY <1>c, <1>m, DocTimes DEF Timed
  <1>n. \A w \in Wals : (\A t \in Sources : w.last[t] <= clock) /\ Covered(w)
          => \A x \in Docs : modified'[x] <= w.last[x[1]] => Fine(x)'
    <2> SUFFICES ASSUME NEW w \in Wals, \A t \in Sources : w.last[t] <= clock, Covered(w),
                        NEW x \in Docs, modified'[x] <= w.last[x[1]]
                 PROVE  Fine(x)'
      OBVIOUS
    <2>1. x # d
      BY <1>c, <1>m, WalTimes
    <2> QED BY <2>1, <1>m, <1>f DEF Covered
  <1>1. Timed'
    <2>1. \A x \in Docs : 1 <= modified'[x] /\ raw'[x] <= modified'[x] /\ modified'[x] <= clock'
      BY <1>c, <1>m, <1>u, <1>g DEF Timed
    <2>2. \A s \in Sources : wal'["last"][s] <= clock' /\ since'[s] <= clock'
      <3>1. \A s \in Sources : wal["last"][s] \in Nat /\ since[s] \in Nat
        BY WalTimes DEF Typed
      <3> QED BY <3>1, <1>c, <1>u DEF Timed
    <2>3. \A s, t \in Sources : copy'[s].last[t] <= clock'
      <3>1. \A s, t \in Sources : copy[s].last[t] \in Nat
        BY WalTimes DEF Typed
      <3> QED BY <3>1, <1>c, <1>u DEF Timed
    <2> QED BY <2>1, <2>2, <2>3 DEF Timed
  <1>2. Covered(wal)' /\ Recorded(wal)'
    <2>1. Covered(wal)'
      BY <1>n, <1>u DEF Covered, Timed, Typed
    <2> QED BY <2>1, <1>u DEF Recorded
  <1>3. ASSUME NEW s \in Sources PROVE ThreadInv(s)'
    <2>0. ThreadInv(s) /\ copy[s] \in Wals /\ since[s] \in Nat /\ since[s] <= clock
      BY DEF Timed, Typed
    <2>1. pc[s] \in {"load", "list"} => \A x \in Of(s) : modified'[x] <= since'[s] => Fine(x)'
      <3> SUFFICES ASSUME pc[s] \in {"load", "list"}, NEW x \in Of(s), modified'[x] <= since[s]
                   PROVE  Fine(x)'
        BY <1>u
      <3>1. x # d
        BY <1>c, <1>m, <2>0
      <3> QED BY <3>1, <2>0, <1>m, <1>f DEF ThreadInv
    <2>2. Covered(copy[s]) => Covered(copy[s])'
      BY <1>n, <1>u, <2>0 DEF Covered, Timed
    <2>3. Recorded(copy[s]) => Recorded(copy[s])'
      BY <1>u DEF Recorded
    <2>4. pc[s] \in Extracting => Extraction(s)'
      <3> SUFFICES ASSUME pc[s] \in Extracting PROVE Extraction(s)'
        OBVIOUS
      <3>0. Extraction(s) /\ todo[s] \subseteq Docs \X Times
        BY <2>0 DEF ThreadInv, Typed
      <3>1. \A x \in Of(s) : Handled(x)' \/ \E e \in todo'[s] : e[1] = x
        <4> SUFFICES ASSUME NEW x \in Of(s) PROVE Handled(x)' \/ \E e \in todo[s] : e[1] = x
          BY <1>u
        <4>1. CASE x = d
          BY <4>1, <1>u DEF Handled
        <4>2. CASE x # d
          BY <4>2, <3>0, <1>u, <1>f DEF Handled, Extraction
        <4> QED BY <4>1, <4>2
      <3>2. \A e \in todo[s] : e[1] \in Of(s) /\ e[2] \in Nat /\ e[2] <= modified'[e[1]]
        <4>1. \A e \in todo[s] : e[1] \in Of(s) /\ e[2] \in Nat /\ e[2] <= modified[e[1]]
          BY <3>0 DEF Extraction
        <4>2. \A x \in Of(s) : modified[x] \in Nat /\ modified'[x] \in Nat /\ modified[x] <= modified'[x]
          BY <1>c, <1>m, <1>g
        <4> QED BY <4>1, <4>2
      <3>3. \A e \in todo[s] : e[2] = modified[e[1]] \/ e[1] \in passed =>
                               e[2] = modified'[e[1]] \/ e[1] \in passed'
        BY <3>2, <1>u, <1>m
      <3> QED BY <3>0, <3>1, <3>2, <3>3, <1>u DEF Extraction
    <2>5. pc[s] \in Recording => \A x \in Of(s) : modified'[x] <= since'[s] => Handled(x)'
      <3> SUFFICES ASSUME pc[s] \in Recording, NEW x \in Of(s), modified'[x] <= since[s]
                   PROVE  Handled(x)'
        BY <1>u
      <3>1. x # d
        BY <1>c, <1>m, <2>0
      <3> QED BY <3>1, <2>0, <1>m, <1>f, <1>u DEF ThreadInv, Handled
    <2>6. pc[s] = "write" => /\ copy'[s].last[s] = since'[s]
                             /\ \A x \in Docs \ Of(s) : modified'[x] <= copy'[s].last[x[1]] => Fine(x)'
      <3> SUFFICES ASSUME pc[s] = "write", NEW x \in Docs \ Of(s), modified'[x] <= copy[s].last[x[1]]
                   PROVE  Fine(x)'
        BY <2>0, <1>u DEF ThreadInv
      <3>1. copy[s].last[x[1]] \in Nat /\ copy[s].last[x[1]] <= clock
        BY <2>0, WalTimes DEF Timed
      <3>2. x # d
        BY <3>1, <1>c, <1>m
      <3> QED BY <3>2, <2>0, <1>m, <1>f DEF ThreadInv
    <2> QED BY <2>0, <2>1, <2>2, <2>3, <2>4, <2>5, <2>6, <1>u DEF ThreadInv
  <1> QED BY <1>1, <1>2, <1>3

\* What a step of thread s has to show.
LEMMA ThreadStep ==
  ASSUME IInv, Typed', NEW s \in Sources, modified' = modified, clock' = clock,
         \A t \in Sources \ {s} : /\ pc'[t] = pc[t] /\ since'[t] = since[t]
                                  /\ copy'[t] = copy[t] /\ todo'[t] = todo[t],
         \A d \in Docs : raw[d] <= raw'[d] /\ raw'[d] <= modified[d] /\ (Fine(d) => Fine(d)'),
         \A d \in Docs \ Of(s) : raw'[d] = raw[d] /\ (d \in passed => d \in passed'),
         since'[s] <= clock, \A t \in Sources : copy'[s].last[t] <= clock,
         \/ wal' = wal \/ wal' = Blank
         \/ Covered(wal)' /\ Recorded(wal)' /\ \A t \in Sources : wal'["last"][t] <= clock,
         ThreadInv(s)'
  PROVE  IInv'
  <1> USE DEF IInv
  <1>1. Covered(wal)' /\ Recorded(wal)' /\ \A t \in Sources : wal'["last"][t] <= clock
    <2>1. CASE wal' = wal
      BY <2>1, FileUntouched DEF Timed
    <2>2. CASE wal' = Blank
      <3>2. Covered(Blank) /\ Recorded(Blank) /\ \A t \in Sources : Blank.last[t] = 0
        BY BlankRecordsNothing
      <3>3. Covered(wal)'
        BY <2>2, <3>2 DEF Covered
      <3>4. Recorded(wal)'
        BY <2>2, <3>2, DocTimes, Constants DEF Recorded, Typed, Blank
      <3> QED BY <2>2, <3>2, <3>3, <3>4, Constants DEF Typed
    <2> QED BY <2>1, <2>2
  <1>2. Timed'
    BY <1>1 DEF Timed
  <1>3. \A t \in Sources : ThreadInv(t)'
    BY OtherThreads
  <1> QED BY <1>1, <1>2, <1>3

-----------------------------------------------------------------------------
(* The steps of thread s *)

\* Up to the list of documents.
LEMMA BeginPreserves ==
  ASSUME IInv, Typed', NEW s \in Sources, get_last_run(s) \/ _load_wal(s) \/ list(s)
  PROVE  IInv'
  <1> USE Constants
  <1>i. Typed /\ Timed /\ Covered(wal) /\ Recorded(wal) /\ ThreadInv(s)
    BY DEF IInv
  <1>t. wal \in Wals /\ since[s] \in Nat /\ clock \in Nat
    BY <1>i DEF Typed
  <1>u. modified' = modified /\ clock' = clock /\ raw' = raw /\ missed' = missed /\ wal' = wal
    BY DEF get_last_run, _load_wal, list, fileVars, histVars
  <1>f. \A d \in Docs : /\ raw[d] <= raw'[d] /\ raw'[d] <= modified[d]
                        /\ Fine(d)' = Fine(d)
    BY <1>i, <1>u, DocTimes DEF Fine, Timed
  <1>p. \A d \in Docs : raw'[d] = raw[d] /\ (d \in passed => d \in passed')
    BY <1>u DEF get_last_run, _load_wal, list, histVars
  <1>o. \A t \in Sources \ {s} : /\ pc'[t] = pc[t] /\ since'[t] = since[t]
                                 /\ copy'[t] = copy[t] /\ todo'[t] = todo[t]
    BY <1>i DEF get_last_run, _load_wal, list, Goto, Typed
  <1>1. CASE get_last_run(s)
    <2>1. pc'[s] = "load" /\ since'[s] = wal.last[s] /\ copy' = copy
      BY <1>1, <1>i DEF get_last_run, Goto, Typed
    <2>2. ThreadInv(s)'
      BY <2>1, <1>i, <1>u, <1>f DEF ThreadInv, Covered, Extracting, Recording
    <2>3. since'[s] <= clock /\ \A t \in Sources : copy'[s].last[t] <= clock
      BY <2>1, <1>i DEF Timed
    <2> QED BY <2>2, <2>3, <1>u, <1>f, <1>p, <1>o, ThreadStep
  <1>2. CASE _load_wal(s)
    <2>1. pc[s] = "load" /\ pc'[s] = "list" /\ since' = since /\ copy'[s] = wal
      BY <1>2, <1>i DEF _load_wal, Goto, Typed
    <2>2. Covered(copy[s])' /\ Recorded(copy[s])'
      BY <2>1, <1>i, <1>u, <1>f DEF Covered, Recorded
    <2>3. ThreadInv(s)'
      BY <2>1, <2>2, <1>i, <1>u, <1>f DEF ThreadInv, Extracting, Recording
    <2>4. since'[s] <= clock /\ \A t \in Sources : copy'[s].last[t] <= clock
      BY <2>1, <1>i DEF Timed
    <2> QED BY <2>3, <2>4, <1>u, <1>f, <1>p, <1>o, ThreadStep
  <1>3. CASE list(s)
    <2>1. /\ pc[s] = "list" /\ pc'[s] = "docs" /\ since' = since /\ copy' = copy
          /\ todo'[s] = {<<d, modified[d]>> : d \in Listed(s)}
      BY <1>3, <1>i DEF list, Goto, Typed
    <2>2. Covered(copy[s])' /\ Recorded(copy[s])'
      BY <2>1, <1>i, <1>u, <1>f DEF ThreadInv, Covered, Recorded
    <2>3. ASSUME NEW d \in Of(s) \ Listed(s) PROVE Handled(d)'
      <3>1. CASE since[s] = 0
        BY <3>1, <1>3, <1>u DEF list, Outdated, Handled, Fine
      <3>2. CASE since[s] # 0
        <4>1. modified[d] <= since[s] => Fine(d)
          BY <2>1, <1>i DEF ThreadInv
        <4>2. modified[d] \in Nat
          BY <1>i, DocTimes
        <4>3. s \in {"confluence", "jira", "gitlab"}
          BY DEF Sources, SourceNames
        <4>4. modified[d] <= since[s]
          <5>1. CASE s = "confluence"
            BY <5>1, <4>2, <1>t DEF Listed
          <5>2. CASE s = "jira"
            BY <5>2, <4>2, <3>2, <1>t DEF Listed
          <5>3. CASE s = "gitlab"
            BY <5>3 DEF Listed
          <5> QED BY <4>3, <5>1, <5>2, <5>3
        <4> QED BY <4>1, <4>4, <1>f DEF Handled
      <3> QED BY <3>1, <3>2
    <2>4. Extraction(s)'
      <3>1. \A d \in Of(s) : Handled(d)' \/ \E e \in todo'[s] : e[1] = d
        <4>1. \A d \in Listed(s) : <<d, modified[d]>> \in todo'[s]
          BY <2>1
        <4>2. ASSUME NEW d \in Listed(s) PROVE \E e \in todo'[s] : e[1] = d
          <5>1. <<d, modified[d]>> \in todo'[s] /\ <<d, modified[d]>>[1] = d
            BY <4>1
          <5> QED BY <5>1
        <4> QED BY <4>2, <2>3
      <3>2. \A e \in todo'[s] : e[1] \in Of(s) /\ e[2] = modified[e[1]]
        BY <2>1, ListedOf
      <3>3. \A d \in Of(s) : modified[d] <= modified[d] /\ raw[d] <= modified[d]
        BY <1>i, DocTimes DEF Timed
      <3>4. \A e, f \in todo'[s] : e[1] = f[1] => e = f
        BY <2>1
      <3> QED BY <3>1, <3>2, <3>3, <3>4, <1>u DEF Extraction
    <2>5. ThreadInv(s)'
      BY <2>1, <2>2, <2>4 DEF ThreadInv, Extracting, Recording
    <2>6. since'[s] <= clock /\ \A t \in Sources : copy'[s].last[t] <= clock
      BY <2>1, <1>i DEF Timed
    <2> QED BY <2>5, <2>6, <1>u, <1>f, <1>p, <1>o, ThreadStep
  <1> QED BY <1>1, <1>2, <1>3

\* The document of e is done with: what Extraction needs once it is handled.
LEMMA ExtractionGoesOn ==
  ASSUME IInv, Typed', NEW s \in Sources, pc[s] = "docs", NEW e \in todo[s],
         modified' = modified, todo'[s] = todo[s] \ {e}, Handled(e[1])',
         \A d \in Docs : Fine(d) => Fine(d)',
         \A d \in Docs \ {e[1]} : raw'[d] = raw[d] /\ (d \in passed => d \in passed')
  PROVE  Extraction(s)'
  <1>1. Extraction(s) /\ todo[s] \subseteq Docs \X Times
    BY DEF IInv, ThreadInv, Extracting, Typed
  <1>2. \A f \in todo[s] \ {e} : f[1] \in Docs /\ f[1] # e[1]
    BY <1>1 DEF Extraction
  <1>3. \A d \in Of(s) : Handled(d)' \/ \E f \in todo'[s] : f[1] = d
    <2> SUFFICES ASSUME NEW d \in Of(s), d # e[1] PROVE Handled(d)' \/ \E f \in todo'[s] : f[1] = d
      OBVIOUS
    <2>1. Handled(d) => Handled(d)'
      BY Constants DEF Handled
    <2> QED BY <2>1, <1>1 DEF Extraction
  <1> QED BY <1>1, <1>2, <1>3 DEF Extraction

\* One document after the other.
LEMMA DocumentPreserves ==
  ASSUME IInv, Typed', NEW s \in Sources, NEW e \in todo[s],
         \/ skip(s, e) \/ extract_fails(s, e) \/ extract(s, e)
         \/ _save_project_data(s, e) \/ _update_wal_commit(s, e)
  PROVE  IInv'
  <1> USE Constants
  <1>i. Typed /\ Timed /\ ThreadInv(s) /\ pc[s] = "docs"
    BY DEF IInv, skip, extract_fails, extract, _save_project_data, _update_wal_commit
  <1>x. Extraction(s) /\ Covered(copy[s]) /\ Recorded(copy[s])
    BY <1>i DEF ThreadInv, Extracting
  <1>t. copy[s] \in Wals /\ clock \in Nat
    BY <1>i DEF Typed
  <1>e. /\ e[1] \in Docs /\ e[1] \in Of(s) /\ e[2] \in Times /\ e[2] \in Nat
        /\ e[2] <= modified[e[1]] /\ modified[e[1]] \in Times
    <2>1. e \in Docs \X Times
      BY <1>i DEF Typed
    <2>2. e[1] \in Of(s) /\ e[2] <= modified[e[1]]
      BY <1>x DEF Extraction
    <2>3. e[1] \in Docs /\ e[2] \in Times
      BY <2>1
    <2> QED BY <2>2, <2>3, <1>i DEF Typed
  <1>u. modified' = modified /\ clock' = clock /\ since' = since /\ wal' = wal
    BY DEF skip, extract_fails, extract, _save_project_data, _update_wal_commit, fileVars
  <1>o. \A t \in Sources \ {s} : /\ pc'[t] = pc[t] /\ since'[t] = since[t]
                                 /\ copy'[t] = copy[t] /\ todo'[t] = todo[t]
    BY <1>i DEF skip, extract_fails, extract, _save_project_data, _update_wal_commit,
                Goto, Done, Typed
  <1>l. \A t \in Sources : copy'[s].last = copy[s].last
    BY <1>i, <1>t DEF skip, extract_fails, extract, _save_project_data, _update_wal_commit, Typed, Wals
  <1>c. since'[s] <= clock /\ \A t \in Sources : copy'[s].last[t] <= clock
    BY <1>i, <1>u, <1>l DEF Timed
  <1>p. pc'[s] \in {"docs", "save"}
    BY <1>i DEF skip, extract_fails, extract, _save_project_data, _update_wal_commit, Goto, Typed
  <1>d. ~_update_wal_commit(s, e) => todo'[s] = todo[s] \ {e}
    BY <1>i DEF skip, extract_fails, extract, _save_project_data, Done, Typed
  \* What is left for each of them.
  <1>q. ASSUME \A d \in Docs : raw[d] <= raw'[d] /\ raw'[d] <= modified[d] /\ (Fine(d) => Fine(d)'),
               \A d \in Docs \ {e[1]} : raw'[d] = raw[d] /\ (d \in passed => d \in passed'),
               Extraction(s)', Recorded(copy[s])'
        PROVE  IInv'
    <2>1. Covered(copy[s])'
      BY <1>q, <1>x, <1>u, <1>l DEF Covered
    <2>2. ThreadInv(s)'
      BY <2>1, <1>q, <1>p DEF ThreadInv, Extracting, Recording
    <2> QED BY <2>2, <1>q, <1>u, <1>o, <1>c, <1>e, ThreadStep
  <1>1. CASE skip(s, e) \/ extract_fails(s, e)
    <2>1. raw' = raw /\ missed' = missed /\ copy' = copy /\ passed' = passed \cup Outdated({e[1]})
      BY <1>1 DEF skip, extract_fails
    <2>2. \A d \in Docs : raw[d] <= raw'[d] /\ raw'[d] <= modified[d] /\ (Fine(d) => Fine(d)')
      BY <2>1, <1>i, <1>u, DocTimes DEF Fine, Timed
    <2>3. Handled(e[1])'
      BY <2>1, <1>u DEF Handled, Fine, Outdated
    <2>4. Extraction(s)'
      <3>1. ~_update_wal_commit(s, e)
        BY <1>1, <1>i DEF skip, extract_fails, _update_wal_commit, Goto, Typed
      <3> QED BY <3>1, <2>1, <2>2, <2>3, <1>i, <1>u, <1>d, ExtractionGoesOn
    <2> QED BY <2>1, <2>2, <2>4, <1>q, <1>x DEF Recorded
  <1>2. CASE extract(s, e) \/ _save_project_data(s, e)
    <2> DEFINE v == IF s = "jira" THEN e[2] ELSE modified[e[1]]
    <2>1. Save(e[1], v)
      BY <1>2 DEF extract, _save_project_data
    <2>2. raw[e[1]] \in Nat /\ modified[e[1]] \in Nat /\ v \in Times /\ v \in Nat
      BY <1>e, <1>i, DocTimes
    <2>3. raw[e[1]] <= v /\ v <= modified[e[1]] /\ e[2] <= v
      BY <2>2, <1>e, <1>i, <1>x DEF Extraction, Timed
    <2>4. v = modified[e[1]] \/ e[1] \in passed
      BY <1>x DEF Extraction
    <2>a. /\ raw'[e[1]] = v /\ (v = modified[e[1]] => Fine(e[1])')
          /\ v # modified[e[1]] /\ e[1] \in passed => e[1] \in passed'
          /\ \A x \in Docs : /\ raw[x] <= raw'[x] /\ raw'[x] <= modified[x]
                             /\ Fine(x) => Fine(x)'
                             /\ x # e[1] => raw'[x] = raw[x] /\ (x \in passed => x \in passed')
      <3> HIDE DEF v
      <3> QED BY <2>1, <2>2, <2>3, <1>e, <1>i, <1>u, SaveDoc
    <2>5. Handled(e[1])'
      BY <2>4, <2>a DEF Handled
    <2>6. Extraction(s)'
      <3>1. todo'[s] = todo[s] \ {e}
        BY <1>2, <1>i DEF extract, _save_project_data, Done, Typed
      <3> QED BY <3>1, <2>5, <2>a, <1>i, <1>u, ExtractionGoesOn
    <2>7. Recorded(copy[s])'
      <3>1. copy[s].seen \in [Docs -> Times]
        BY <1>t DEF Wals
      <3>2. /\ copy'[s].seen[e[1]] \in {copy[s].seen[e[1]], e[2]}
            /\ \A d \in Docs \ {e[1]} : copy'[s].seen[d] = copy[s].seen[d]
        BY <3>1, <1>2, <1>i, <1>t, <1>e DEF extract, _save_project_data, Typed, Wals
      <3>3. \A d \in Docs : copy[s].seen[d] \in Nat /\ raw[d] \in Nat /\ raw'[d] \in Nat
        BY <1>i, <1>t, WalTimes, DocTimes DEF Typed
      <3>4. ASSUME NEW d \in Docs PROVE copy'[s].seen[d] <= raw'[d]
        <4>1. copy[s].seen[d] <= raw[d] /\ raw[d] <= raw'[d]
          BY <1>x, <2>a DEF Recorded
        <4>2. e[2] <= raw'[e[1]]
          BY <2>a, <2>3
        <4> QED BY <4>1, <4>2, <3>2, <3>3
      <3> QED BY <3>4 DEF Recorded
    <2> QED BY <2>a, <2>6, <2>7, <1>q
  <1>3. CASE _update_wal_commit(s, e)
    <2>1. /\ raw' = raw /\ missed' = missed /\ passed' = passed /\ s # "jira"
          /\ todo'[s] = (todo[s] \ {e}) \cup {<<e[1], 0>>}
      BY <1>3, <1>i DEF _update_wal_commit, histVars, Typed
    <2>2. \A d \in Docs : raw[d] <= raw'[d] /\ raw'[d] <= modified[d] /\ (Fine(d) => Fine(d)')
      BY <2>1, <1>i, <1>u, DocTimes DEF Fine, Timed
    <2>3. Extraction(s)'
      <3>1. \A d \in Of(s) : Handled(d)' \/ \E f \in todo'[s] : f[1] = d
        <4> SUFFICES ASSUME NEW d \in Of(s) PROVE Handled(d)' \/ \E f \in todo'[s] : f[1] = d
          OBVIOUS
        <4>1. CASE d = e[1]
          <5>1. <<e[1], 0>> \in todo'[s] /\ <<e[1], 0>>[1] = d
            BY <4>1, <2>1
          <5> QED BY <5>1
        <4>2. CASE d # e[1]
          BY <4>2, <2>1, <2>2, <1>x DEF Extraction, Handled
        <4> QED BY <4>1, <4>2
      <3>2. \A f \in todo'[s] : f[1] \in Of(s) /\ f[2] <= modified'[f[1]]
        <4>1. 0 <= modified[e[1]]
          BY <1>e, DocTimes, <1>i
        <4> QED BY <4>1, <2>1, <1>x, <1>e, <1>u DEF Extraction
      <3>3. \A f, g \in todo'[s] : f[1] = g[1] => f = g
        BY <2>1, <1>x DEF Extraction
      <3> QED BY <3>1, <3>2, <3>3, <2>1 DEF Extraction
    <2>4. Recorded(copy[s])'
      <3>1. copy'[s].seen = copy[s].seen
        BY <1>3, <1>i, <1>t DEF _update_wal_commit, Typed, Wals
      <3> QED BY <3>1, <2>1, <1>x DEF Recorded
    <2> QED BY <2>1, <2>2, <2>3, <2>4, <1>q
  <1> QED BY <1>1, <1>2, <1>3

\* The extractor saves its copy of the WAL, and its ways to the end of run().
LEMMA ExtractorPreserves ==
  ASSUME IInv, Typed', NEW s \in Sources,
         _save_wal(s) \/ _save_wal_dump(s) \/ interrupted(s) \/ fails(s)
  PROVE  IInv'
  <1> USE Constants
  <1>i. Typed /\ Timed /\ ThreadInv(s)
    BY DEF IInv
  <1>t. copy[s] \in Wals /\ clock \in Nat
    BY <1>i DEF Typed
  <1>u. modified' = modified /\ clock' = clock /\ raw' = raw /\ missed' = missed
    BY DEF _save_wal, _save_wal_dump, interrupted, fails, histVars
  <1>f. \A d \in Docs : /\ raw[d] <= raw'[d] /\ raw'[d] <= modified[d]
                        /\ Fine(d)' = Fine(d)
    BY <1>i, <1>u, DocTimes DEF Fine, Timed
  <1>o. \A t \in Sources \ {s} : /\ pc'[t] = pc[t] /\ since'[t] = since[t]
                                 /\ copy'[t] = copy[t] /\ todo'[t] = todo[t]
    BY <1>i DEF _save_wal, _save_wal_dump, interrupted, fails, End, Goto, Typed
  <1>p. \A d \in Docs \ Of(s) : raw'[d] = raw[d] /\ (d \in passed => d \in passed')
    BY <1>u DEF _save_wal, _save_wal_dump, interrupted, fails, histVars
  <1>1. CASE fails(s)
    <2>1. pc'[s] = "end" /\ since'[s] = 0 /\ copy'[s] = Blank /\ wal' = wal
      BY <1>1, <1>i DEF fails, End, Goto, Typed, fileVars
    <2>2. ThreadInv(s)'
      BY <2>1 DEF ThreadInv, Extracting, Recording
    <2>3. since'[s] <= clock /\ \A t \in Sources : copy'[s].last[t] <= clock
      BY <2>1, <1>i, <1>t, BlankRecordsNothing
    <2> QED BY <2>1, <2>2, <2>3, <1>u, <1>f, <1>p, <1>o, ThreadStep
  <1>2. CASE _save_wal(s) \/ _save_wal_dump(s) \/ interrupted(s)
    <2>1. /\ since' = since /\ copy' = copy
          /\ pc[s] \in Extracting /\ pc'[s] \in Extracting
      BY <1>2, <1>i DEF _save_wal, _save_wal_dump, interrupted, Goto, Typed, Extracting
    <2>2. Extraction(s) /\ Covered(copy[s]) /\ Recorded(copy[s])
      BY <2>1, <1>i DEF ThreadInv
    <2>3. Covered(copy[s])' /\ Recorded(copy[s])'
      BY <2>1, <2>2, <1>u, <1>f DEF Covered, Recorded
    <2>4. Extraction(s)'
      <3>1. CASE interrupted(s)
        <4>1. todo'[s] = {} /\ passed' = passed \cup Outdated({e[1] : e \in todo[s]})
          BY <3>1, <1>i DEF interrupted, Typed
        <4>2. ASSUME NEW d \in Of(s) PROVE Handled(d)'
          <5>1. CASE Handled(d)
            BY <5>1, <4>1, <1>f DEF Handled
          <5>2. CASE \E e \in todo[s] : e[1] = d
            BY <5>2, <4>1, <1>u DEF Handled, Outdated, Fine
          <5> QED BY <5>1, <5>2, <2>2 DEF Extraction
        <4> QED BY <4>1, <4>2 DEF Extraction
      <3>2. CASE _save_wal(s) \/ _save_wal_dump(s)
        <4>1. todo' = todo /\ passed' = passed
          BY <3>2 DEF _save_wal, _save_wal_dump, histVars
        <4>2. \A d \in Docs : Handled(d)' = Handled(d)
          BY <4>1, <1>f DEF Handled
        <4> QED BY <4>1, <4>2, <2>2, <1>u DEF Extraction
      <3> QED BY <1>2, <3>1, <3>2
    <2>5. ThreadInv(s)'
      BY <2>1, <2>3, <2>4 DEF ThreadInv, Extracting, Recording
    <2>6. since'[s] <= clock /\ \A t \in Sources : copy'[s].last[t] <= clock
      BY <2>1, <1>i DEF Timed
    <2>7. wal' = wal \/ wal' = Blank \/ wal' = copy[s]
      BY <1>2 DEF _save_wal, _save_wal_dump, interrupted, Truncate, Dump, fileVars
    <2>8. CASE wal' = copy[s]
      <3>1. Covered(wal)' /\ Recorded(wal)'
        BY <2>8, <2>2, <1>u, <1>f DEF Covered, Recorded
      <3>2. \A t \in Sources : wal'["last"][t] <= clock
        BY <2>8, <2>6, <2>1
      <3> QED BY <3>1, <3>2, <2>5, <2>6, <1>u, <1>f, <1>p, <1>o, ThreadStep
    <2> QED BY <2>5, <2>6, <2>7, <2>8, <1>u, <1>f, <1>p, <1>o, ThreadStep
  <1> QED BY <1>1, <1>2

\* The last run is recorded.
LEMMA RecordingPreserves ==
  ASSUME IInv, Typed', NEW s \in Sources,
         update_last_run(s) \/ _safe_remove(s) \/ acquire(s) \/ _write_raw(s)
  PROVE  IInv'
  <1> USE Constants
  <1>i. Typed /\ Timed /\ Covered(wal) /\ Recorded(wal) /\ ThreadInv(s)
    BY DEF IInv
  <1>t. copy[s] \in Wals /\ wal \in Wals /\ clock \in Nat /\ since[s] \in Nat
    BY <1>i DEF Typed
  <1>u. modified' = modified /\ clock' = clock /\ raw' = raw
    BY DEF update_last_run, _safe_remove, acquire, _write_raw, histVars
  <1>m. \A d \in missed : d \in missed'
    BY DEF update_last_run, _safe_remove, acquire, _write_raw, histVars
  <1>f. \A d \in Docs : raw[d] <= raw'[d] /\ raw'[d] <= modified[d] /\ (Fine(d) => Fine(d)')
    BY <1>i, <1>u, <1>m, DocTimes DEF Fine, Timed
  <1>o. \A t \in Sources \ {s} : /\ pc'[t] = pc[t] /\ since'[t] = since[t]
                                 /\ copy'[t] = copy[t] /\ todo'[t] = todo[t]
    BY <1>i DEF update_last_run, _safe_remove, acquire, _write_raw, End, Goto, Typed
  <1>p. \A d \in Docs \ Of(s) : raw'[d] = raw[d] /\ (d \in passed => d \in passed')
    BY <1>u DEF update_last_run, _safe_remove, acquire, _write_raw, histVars
  <1>h. ASSUME passed' = passed PROVE \A d \in Docs : Handled(d) => Handled(d)'
    BY <1>h, <1>f DEF Handled
  <1>1. CASE update_last_run(s)
    <2>1. /\ pc[s] = "docs" /\ todo[s] = {} /\ pc'[s] \in {"unlink", "acquire"}
          /\ since'[s] = clock /\ copy' = copy /\ wal' = wal /\ passed' = passed
      BY <1>1, <1>i DEF update_last_run, Goto, Typed, fileVars, histVars
    <2>2. \A d \in Of(s) : Handled(d)'
      BY <2>1, <1>i, <1>h DEF ThreadInv, Extracting, Extraction
    <2>3. ThreadInv(s)'
      BY <2>1, <2>2 DEF ThreadInv, Extracting, Recording
    <2>4. since'[s] <= clock /\ \A t \in Sources : copy'[s].last[t] <= clock
      BY <2>1, <1>i, <1>t DEF Timed
    <2> QED BY <2>1, <2>3, <2>4, <1>u, <1>f, <1>p, <1>o, ThreadStep
  <1>2. CASE _safe_remove(s)
    <2>1. /\ pc[s] = "unlink" /\ pc'[s] = "acquire"
          /\ since' = since /\ copy' = copy /\ wal' = wal /\ passed' = passed
      BY <1>2, <1>i DEF _safe_remove, Goto, Typed
    <2>2. ThreadInv(s)'
      BY <2>1, <1>i, <1>u, <1>h DEF ThreadInv, Extracting, Recording
    <2>3. since'[s] <= clock /\ \A t \in Sources : copy'[s].last[t] <= clock
      BY <2>1, <1>i DEF Timed
    <2> QED BY <2>1, <2>2, <2>3, <1>u, <1>f, <1>p, <1>o, ThreadStep
  <1>3. CASE acquire(s)
    <2>1. /\ pc[s] = "acquire" /\ pc'[s] = "write" /\ since' = since /\ wal' = Blank
          /\ copy'[s] = [wal EXCEPT !.last[s] = since[s]] /\ passed' = passed
      BY <1>3, <1>i DEF acquire, Truncate, Goto, Typed, histVars
    <2>2. /\ copy'[s].last[s] = since[s] /\ copy'[s].seen = wal.seen
          /\ \A t \in Sources \ {s} : copy'[s].last[t] = wal.last[t]
      BY <2>1, <1>t DEF Wals
    <2>3. Recorded(copy[s])'
      BY <2>2, <1>i, <1>u DEF Recorded
    <2>4. \A d \in Docs \ Of(s) : modified'[d] <= copy'[s].last[d[1]] => Fine(d)'
      BY <2>2, <1>i, <1>u, <1>f DEF Covered
    <2>5. \A d \in Of(s) : modified'[d] <= since'[s] => Handled(d)'
      BY <2>1, <1>i, <1>u, <1>h DEF ThreadInv, Recording
    <2>6. ThreadInv(s)'
      BY <2>1, <2>2, <2>3, <2>4, <2>5 DEF ThreadInv, Extracting, Recording
    <2>7. since'[s] <= clock /\ \A t \in Sources : copy'[s].last[t] <= clock
      BY <2>1, <2>2, <1>i DEF Timed
    <2> QED BY <2>1, <2>6, <2>7, <1>u, <1>f, <1>p, <1>o, ThreadStep
  <1>4. CASE _write_raw(s)
    <2>1. pc[s] = "write" /\ pc'[s] = "end" /\ since'[s] = 0 /\ copy'[s] = Blank
      BY <1>4, <1>i DEF _write_raw, End, Goto, Typed
    <2>2. ThreadInv(s)'
      BY <2>1 DEF ThreadInv, Extracting, Recording
    <2>3. since'[s] <= clock /\ \A t \in Sources : copy'[s].last[t] <= clock
      BY <2>1, <1>i, <1>t, BlankRecordsNothing
    \* Documents passed over now count as missed, which is what wal' needs.
    <2>4. \A d \in Of(s) : modified[d] <= copy[s].last[d[1]] => Fine(d)'
      <3> SUFFICES ASSUME NEW d \in Of(s), modified[d] <= copy[s].last[d[1]]
                   PROVE  Fine(d)'
        OBVIOUS
      <3>1. modified[d] <= since[s] /\ Handled(d)
        BY <2>1, <1>i DEF ThreadInv, Recording
      <3>2. CASE d \in passed
        BY <3>1, <3>2, <1>4, <1>u DEF _write_raw, Outdated, Fine
      <3> QED BY <3>1, <3>2, <1>f DEF Handled
    <2>6. CASE wal' = copy[s]
      <3>1. Covered(wal)'
        BY <2>6, <2>4, <2>1, <1>i, <1>u, <1>f DEF Covered, ThreadInv
      <3>2. Recorded(wal)'
        BY <2>6, <2>1, <1>i, <1>u DEF Recorded, ThreadInv
      <3>3. \A t \in Sources : wal'["last"][t] <= clock
        BY <2>6, <1>i DEF Timed
      <3> QED BY <3>1, <3>2, <3>3, <2>2, <2>3, <1>u, <1>f, <1>p, <1>o, ThreadStep
    <2>7. wal' = Blank \/ wal' = copy[s]
      BY <1>4 DEF _write_raw, Dump
    <2> QED BY <2>2, <2>3, <2>6, <2>7, <1>u, <1>f, <1>p, <1>o, ThreadStep
  <1> QED BY <1>1, <1>2, <1>3, <1>4

-----------------------------------------------------------------------------
(* Theorems *)

LEMMA InitEstablishes == Init => IInv
  <1> SUFFICES ASSUME Init PROVE IInv
    OBVIOUS
  <1> USE Constants
  <1>1. Blank \in Wals /\ \A s \in Sources : Blank.last[s] = 0
    BY DEF Blank, Wals
  <1>2. Typed
    BY <1>1 DEF Init, Typed, Labels
  <1>3. Timed
    BY <1>1 DEF Init, Timed
  <1>4. Covered(wal) /\ Recorded(wal)
    BY <1>2, <1>3, BlankRecordsNothing DEF Init
  <1>5. \A s \in Sources : ThreadInv(s)
    BY DEF Init, ThreadInv, Extracting, Recording
  <1> QED BY <1>2, <1>3, <1>4, <1>5 DEF IInv

LEMMA StepPreserves == IInv /\ [Next]_vars => IInv'
  <1>1. ASSUME IInv, Next PROVE IInv'
    <2>1. Typed'
      BY <1>1, TypedPreserved DEF IInv
    <2>2. configured \subseteq Sources /\ \A s \in Sources : Of(s) \subseteq Docs
      BY <1>1, Constants DEF IInv, Typed
    <2>3. CASE \E s \in configured : \E d \in Of(s) : Edit(d)
      BY <2>3, <2>1, <2>2, <1>1, EditPreserves
    <2>4. CASE main \/ reset_all \/ exit \/ Signal \/ Crash
      BY <2>4, <2>1, <1>1, MainPreserves
    <2>5. ASSUME NEW s \in configured, Thread(s) PROVE IInv'
      <3>1. s \in Sources
        BY <2>2
      <3>2. CASE get_last_run(s) \/ _load_wal(s) \/ list(s)
        BY <3>1, <3>2, <2>1, <1>1, BeginPreserves
      <3>3. CASE \E e \in todo[s] : \/ skip(s, e) \/ extract(s, e) \/ _update_wal_commit(s, e)
                                    \/ _save_project_data(s, e) \/ extract_fails(s, e)
        BY <3>1, <3>3, <2>1, <1>1, DocumentPreserves
      <3>4. CASE _save_wal(s) \/ _save_wal_dump(s) \/ interrupted(s) \/ fails(s)
        BY <3>1, <3>4, <2>1, <1>1, ExtractorPreserves
      <3>5. CASE update_last_run(s) \/ _safe_remove(s) \/ acquire(s) \/ _write_raw(s)
        BY <3>1, <3>5, <2>1, <1>1, RecordingPreserves
      <3> QED BY <2>5, <3>2, <3>3, <3>4, <3>5 DEF Thread
    <2> QED BY <1>1, <2>3, <2>4, <2>5 DEF Next, Work
  <1>2. ASSUME IInv, UNCHANGED vars PROVE IInv'
    <2>1. /\ configured' = configured /\ clock' = clock /\ modified' = modified /\ raw' = raw
          /\ wal' = wal /\ pc' = pc /\ since' = since /\ copy' = copy /\ todo' = todo
          /\ passed' = passed /\ missed' = missed
      BY <1>2 DEF vars, fileVars, threadVars, histVars
    <2>2. \A d \in Docs : Fine(d)' = Fine(d) /\ Handled(d)' = Handled(d)
      BY <2>1 DEF Fine, Handled
    <2>3. Typed' /\ Timed' /\ Covered(wal)' /\ Recorded(wal)'
      BY <1>2, <2>1, <2>2 DEF IInv, Typed, Timed, Covered, Recorded
    <2>4. \A s \in Sources : ThreadInv(s)'
      BY <1>2, <2>1, <2>2, Constants
      DEF IInv, ThreadInv, Covered, Recorded, Extraction
    <2> QED BY <2>3, <2>4 DEF IInv
  <1> QED BY <1>1, <1>2

LEMMA Invariance == Spec => []IInv
  BY InitEstablishes, StepPreserves, PTL DEF Spec

\* run_etl: whatever the threads, which write the shared WAL file over each
\* other, the signals and the crashes do, the last_run a later run starts from
\* hides no change: every document changed before it is on disk in its current
\* version or was passed over by the run that recorded it.
THEOREM CheckpointsCover == Spec => []CheckpointCovers
  <1>1. IInv => CheckpointCovers
    BY DEF IInv, Covered, Fine, CheckpointCovers
  <1> QED BY <1>1, Invariance, PTL

\* run_etl: a page or issue the shared WAL file records as processed is on
\* disk, in the recorded version or a later one.
THEOREM RecordsAreOnDisk == Spec => []RecordedIsOnDisk
  <1>1. IInv => RecordedIsOnDisk
    BY DEF IInv, Recorded, RecordedIsOnDisk
  <1> QED BY <1>1, Invariance, PTL

-----------------------------------------------------------------------------
(* The lock *)

\* Until a held lock file is removed, the thread that writes a checkpoint is the
\* owner of the lock.
WriterOwns == stolen \/ \A s \in Sources : pc[s] = "write" => owner = s

\* Steps after which no thread writes that did not write before.
LEMMA NoNewWriter ==
  ASSUME WriterOwns, stolen' = stolen, owner' = owner,
         \A s \in Sources : pc'[s] = "write" => pc[s] = "write"
  PROVE  WriterOwns'
  BY DEF WriterOwns

LEMMA WriterOwnsPreserved == IInv /\ WriterOwns /\ [Next]_vars => WriterOwns'
  <1> SUFFICES ASSUME IInv, WriterOwns, [Next]_vars PROVE WriterOwns'
    OBVIOUS
  <1>t. pc \in [Sources -> Labels] /\ configured \subseteq Sources
    BY DEF IInv, Typed
  <1>n. "none" \notin Sources
    BY Constants DEF Sources, SourceNames
  <1>1. CASE main \/ Crash \/ exit
    BY <1>1 DEF main, Crash, exit, WriterOwns, threadVars
  <1>2. CASE reset_all \/ Signal \/ UNCHANGED vars \/ \E s \in configured : \E d \in Of(s) : Edit(d)
    BY <1>2, NoNewWriter DEF reset_all, Signal, Edit, vars, fileVars, threadVars, histVars
  <1>3. ASSUME NEW s \in configured, Thread(s) PROVE WriterOwns'
    <2>s. s \in Sources
      BY <1>t
    <2>1. CASE get_last_run(s) \/ _load_wal(s) \/ list(s) \/ _save_wal(s) \/ _save_wal_dump(s)
               \/ interrupted(s) \/ fails(s) \/ update_last_run(s)
      <3>1. /\ stolen' = stolen /\ owner' = owner
            /\ \A t \in Sources : pc'[t] = "write" => pc[t] = "write"
        BY <2>1, <2>s, <1>t DEF get_last_run, _load_wal, list, _save_wal, _save_wal_dump, interrupted,
             fails, update_last_run, End, Goto, fileVars, histVars
      <3> QED BY <3>1, NoNewWriter
    <2>2. ASSUME NEW e \in todo[s],
                 \/ skip(s, e) \/ extract(s, e) \/ _update_wal_commit(s, e)
                 \/ _save_project_data(s, e) \/ extract_fails(s, e)
          PROVE  WriterOwns'
      <3>1. /\ stolen' = stolen /\ owner' = owner
            /\ \A t \in Sources : pc'[t] = "write" => pc[t] = "write"
        BY <2>2, <2>s, <1>t DEF skip, extract, _update_wal_commit, _save_project_data, extract_fails,
             Goto, fileVars, histVars
      <3> QED BY <3>1, NoNewWriter
    <2>3. CASE _safe_remove(s)
      BY <2>3, <2>s, <1>t, <1>n DEF _safe_remove, Goto, WriterOwns
    <2>4. CASE acquire(s)
      BY <2>4, <2>s, <1>t, <1>n DEF acquire, Goto, WriterOwns, histVars
    <2>5. CASE _write_raw(s)
      BY <2>5, <2>s, <1>t, <1>n DEF _write_raw, End, Goto, WriterOwns
    <2> QED BY <1>3, <2>1, <2>2, <2>3, <2>4, <2>5 DEF Thread
  <1> QED BY <1>1, <1>2, <1>3 DEF Next, Work

\* WALManager: with any number of runs, signals, crashes and lock timeouts, two
\* threads are inside _update_wal at once only in a run that removed a lock
\* file somebody held.
THEOREM LockIsExclusive == Spec => []LockExcludes
  <1>1. Init => WriterOwns
    BY DEF Init, WriterOwns
  <1>2. WriterOwns => LockExcludes
    BY DEF WriterOwns, LockExcludes
  <1> QED BY <1>1, <1>2, WriterOwnsPreserved, Invariance, PTL DEF Spec
=============================================================================

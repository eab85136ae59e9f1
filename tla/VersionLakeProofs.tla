------------------------- MODULE VersionLakeProofs -------------------------
(***************************************************************************)
(* For any chunks and versions, and however many edits: the differences    *)
(* sync_document computes keep Qdrant, and the lake history, equal to the  *)
(* hot file.                                                               *)
(***************************************************************************)
EXTENDS VersionLake, SequenceTheorems, TLAPS

\* Applying what is still to be done to Qdrant gives the version being synced.
Pending == (qdrant \cup added) \ deleted = new

\* An unknown document has nothing stored.
Blank == ~known => hot = {}

\* What holds at each point of sync_document.
AtPoint ==
  /\ pc \in {"idle", "save_hot", "save_wal", "index", "delete", "cold"}
  /\ pc \in {"idle", "cold"} => qdrant = hot /\ Blank
  /\ pc = "save_hot" => qdrant = hot /\ Pending
  /\ pc = "save_wal" => hot = new /\ Pending
  /\ pc = "index" => hot = new /\ Pending /\ (~known => new = {})
  /\ pc = "delete" => hot = new /\ qdrant \ deleted = new /\ (~known => new = {})

IInv == Undisturbed => AtPoint

LEMMA InitIInv == Init => IInv
  BY DEF Init, IInv, AtPoint, Blank

\* The comparison against the hot file is exact when the file is what Qdrant has.
LEMMA SyncStarts ==
  ASSUME AtPoint, sync_document PROVE AtPoint'
<1> USE DEF AtPoint, sync_document, Pending, Blank, stores
<1>1. CASE ~known
  BY <1>1 DEF AddedBy, DeletedBy
<1>2. CASE known /\ stripped
  <2>1. added' = source /\ deleted' = hot \ source /\ new' = source
    BY <1>2 DEF AddedBy, DeletedBy
  <2> QED BY <1>2, <2>1
<1>3. CASE known /\ ~stripped
  <2>1. added' = source \ hot /\ deleted' = hot \ source /\ new' = source
    BY <1>3 DEF AddedBy, DeletedBy
  <2>2. (qdrant' \cup added') \ deleted' = new'
    BY <2>1
  <2>3. ~(added' # {} \/ deleted' # {}) => hot = source
    BY <2>1
  <2> QED BY <1>3, <2>1, <2>2, <2>3
<1> QED BY <1>1, <1>2, <1>3

LEMMA NextIInv == IInv /\ [Next]_vars => IInv'
<1> SUFFICES ASSUME IInv, [Next]_vars, Undisturbed' PROVE AtPoint'
  BY DEF IInv
<1> USE DEF IInv, Undisturbed, stores, locals, history, budget
<1>1. CASE sync_document
  <2>1. Undisturbed BY <1>1 DEF sync_document
  <2> QED BY <1>1, <2>1, SyncStarts
<1>2. CASE reset
  BY <1>2 DEF reset, AtPoint
<1>3. CASE _save_chunks_to_hot
  BY <1>3 DEF _save_chunks_to_hot, AtPoint, Pending, Blank
<1>4. CASE _update_wal
  BY <1>4 DEF _update_wal, AtPoint, Pending, Blank
<1>5. CASE index_chunks
  BY <1>5 DEF index_chunks, AtPoint, Pending, Blank
<1>6. CASE delete_chunks
  BY <1>6 DEF delete_chunks, AtPoint, Pending, Blank
<1>7. CASE _append_to_cold_storage
  BY <1>7 DEF _append_to_cold_storage, AtPoint, Pending, Blank
<1>8. CASE Edit
  BY <1>8 DEF Edit, AtPoint, Pending, Blank
<1>9. CASE force_reindex
  BY <1>9 DEF force_reindex
<1>10. CASE run_cleanup
  BY <1>10 DEF run_cleanup, AtPoint, Pending, Blank
<1>11. CASE \E t \in 1..Len(cold) : rollback_document(t)
  BY <1>11 DEF rollback_document
<1>12. CASE index_chunks_partly \/ delete_chunks_fails
  BY <1>12 DEF index_chunks_partly, delete_chunks_fails
<1>13. CASE Crash
  BY <1>13 DEF Crash
<1>14. CASE UNCHANGED vars
  BY <1>14 DEF vars, AtPoint, Pending, Blank
<1> QED
  BY <1>1, <1>2, <1>3, <1>4, <1>5, <1>6, <1>7, <1>8, <1>9, <1>10, <1>11, <1>12,
     <1>13, <1>14 DEF Next, Sync

\* For every set of chunks and every number of edits: as long as no store call
\* failed, no job died and nobody rolled back or recreated the collection,
\* sync_document leaves in Qdrant exactly what the hot file holds.
THEOREM IndexIsExact == Spec => []IndexMatchesStore
<1>1. IInv => IndexMatchesStore
  BY DEF IInv, AtPoint, IndexMatchesStore
<1> QED BY InitIInv, NextIInv, <1>1, PTL DEF Spec

-----------------------------------------------------------------------------
(* Type correctness. *)

LEMMA InitTypeOK == Init => TypeOK
<1> SUFFICES ASSUME Init PROVE TypeOK
  OBVIOUS
<1>1. <<>> \in Seq([up : SUBSET Chunks, del : SUBSET Chunks])
  OBVIOUS
<1>2. {hot, qdrant, new, added, deleted} \subseteq SUBSET Chunks
  BY DEF Init
<1>3. /\ {known, walTorn, hotTorn, stripped} \subseteq BOOLEAN
      /\ {erred, crashed, rolled, recreated} \subseteq BOOLEAN
  BY DEF Init
<1> QED BY <1>1, <1>2, <1>3, BoundsAssumption DEF Init, TypeOK

\* Appending a record to the lake history.
LEMMA AppendTyped ==
  ASSUME cold \in Seq([up : SUBSET Chunks, del : SUBSET Chunks]),
         NEW U \in SUBSET Chunks, NEW D \in SUBSET Chunks,
         cold' = Append(cold, [up |-> U, del |-> D])
  PROVE  cold' \in Seq([up : SUBSET Chunks, del : SUBSET Chunks])
<1>1. [up |-> U, del |-> D] \in [up : SUBSET Chunks, del : SUBSET Chunks]
  OBVIOUS
<1> QED BY <1>1, AppendProperties

LEMMA NextTypeOK == TypeOK /\ [Next]_vars => TypeOK'
<1> SUFFICES ASSUME TypeOK, [Next]_vars PROVE TypeOK'
  OBVIOUS
<1> USE BoundsAssumption, VersionsAssumption DEF TypeOK, stores, locals, history, budget
<1>1. CASE sync_document
  <2>1. source \in SUBSET Chunks
    OBVIOUS
  <2>2. AddedBy(source) \in SUBSET Chunks /\ DeletedBy(source) \in SUBSET Chunks
    BY <2>1 DEF AddedBy, DeletedBy
  <2> QED BY <1>1, <2>1, <2>2 DEF sync_document
<1>2. CASE reset BY <1>2 DEF reset
<1>3. CASE _save_chunks_to_hot
  <2>1. {hot', qdrant', new', added', deleted'} \subseteq SUBSET Chunks
    BY <1>3 DEF _save_chunks_to_hot
  <2>2. {known', walTorn', hotTorn', stripped'} \subseteq BOOLEAN
    BY <1>3 DEF _save_chunks_to_hot
  <2> QED BY <1>3, <2>1, <2>2 DEF _save_chunks_to_hot
<1>4. CASE _update_wal BY <1>4 DEF _update_wal
<1>5. CASE index_chunks BY <1>5 DEF index_chunks
<1>6. CASE delete_chunks BY <1>6 DEF delete_chunks
<1>7. CASE _append_to_cold_storage
  <2>1. cold' \in Seq([up : SUBSET Chunks, del : SUBSET Chunks])
    BY <1>7, AppendTyped DEF _append_to_cold_storage
  <2> QED BY <1>7, <2>1 DEF _append_to_cold_storage
<1>8. CASE Edit BY <1>8 DEF Edit
<1>9. CASE force_reindex BY <1>9 DEF force_reindex
<1>10. CASE run_cleanup BY <1>10 DEF run_cleanup
<1>11. ASSUME NEW t \in 1..Len(cold), rollback_document(t) PROVE TypeOK'
  <2>1. \A i \in 1..t : cold[i] \in [up : SUBSET Chunks, del : SUBSET Chunks]
    <3>1. cold \in Seq([up : SUBSET Chunks, del : SUBSET Chunks]) /\ Len(cold) \in Nat
      BY LenProperties
    <3>2. \A i \in 1..t : i \in 1..Len(cold)
      BY <3>1
    <3> HIDE DEF TypeOK
    <3> QED BY <3>1, <3>2, ElementOfSeq
  <2>2. Snapshot(t) \in SUBSET Chunks
    BY <2>1 DEF Snapshot
  <2>3. {hot', qdrant', new', added', deleted'} \subseteq SUBSET Chunks
    BY <1>11, <2>2 DEF rollback_document
  <2>4. /\ {known', walTorn', hotTorn', stripped'} \subseteq BOOLEAN
        /\ {erred', crashed', rolled', recreated'} \subseteq BOOLEAN
    BY <1>11 DEF rollback_document
  <2> QED BY <1>11, <2>3, <2>4 DEF rollback_document
<1>12. CASE index_chunks_partly BY <1>12 DEF index_chunks_partly
<1>13. CASE delete_chunks_fails BY <1>13 DEF delete_chunks_fails
<1>14. CASE Crash
  <2>1. cold' \in Seq([up : SUBSET Chunks, del : SUBSET Chunks])
    <3>1. cold' = cold \/ cold' = Append(cold, [up |-> added, del |-> {}])
      BY <1>14 DEF Crash
    <3>2. added \in SUBSET Chunks /\ {} \in SUBSET Chunks
      OBVIOUS
    <3> QED BY <3>1, <3>2, AppendTyped
  <2> QED BY <1>14, <2>1 DEF Crash
<1>15. CASE UNCHANGED vars BY <1>15 DEF vars
<1> QED
  BY <1>1, <1>2, <1>3, <1>4, <1>5, <1>6, <1>7, <1>8, <1>9, <1>10, <1>11, <1>12,
     <1>13, <1>14, <1>15 DEF Next, Sync

\* The three stores, the lake history and the locals of sync_document keep
\* their types, whatever fails, dies or is rolled back.
THEOREM TypeCorrect == Spec => []TypeOK
  BY InitTypeOK, NextTypeOK, PTL DEF Spec

-----------------------------------------------------------------------------
(* The lake history. *)

\* What replaying the history gives once the record of this sync is appended.
Logged == (Replay \ deleted) \cup added = new

\* What holds at each point of a sync.  Qdrant is not part of it.
HistoryAt ==
  /\ pc # "reset_wal"
  /\ pc = "idle" => Replay = hot /\ Blank
  /\ pc = "save_hot" => Logged
  /\ pc = "save_wal" => hot = new /\ Logged
  /\ pc \in {"index", "delete", "cold"} => hot = new /\ Logged /\ (~known => new = {})

History == TypeOK /\ (~crashed /\ ~rolled => HistoryAt)

\* One more record: its deletions leave, its upserts stay or come.
LEMMA ReplayAppend ==
  ASSUME cold \in Seq([up : SUBSET Chunks, del : SUBSET Chunks]),
         NEW U \in SUBSET Chunks, NEW D \in SUBSET Chunks,
         cold' = Append(cold, [up |-> U, del |-> D])
  PROVE  Replay' = (Replay \ D) \cup U
<1> DEFINE n == Len(cold)
<1>1. /\ n \in Nat /\ Len(cold') = n + 1
      /\ cold'[n + 1].up = U /\ cold'[n + 1].del = D
      /\ \A i \in 1..n : cold'[i] = cold[i]
  BY AppendProperties, LenProperties
<1> HIDE DEF n
<1>2. ASSUME NEW c \in Replay' PROVE c \in (Replay \ D) \cup U
  <2>1. PICK i \in 1..(n + 1) : c \in cold'[i].up /\ \A j \in (i + 1)..(n + 1) : c \notin cold'[j].del
    BY <1>1, <1>2 DEF Replay
  <2>2. CASE i = n + 1
    BY <2>1, <2>2, <1>1
  <2>3. CASE i # n + 1
    <3>1. i \in 1..n /\ n + 1 \in (i + 1)..(n + 1)
      BY <2>1, <2>3, <1>1
    <3>2. c \notin D /\ c \in cold[i].up
      BY <3>1, <2>1, <1>1
    <3>3. \A j \in (i + 1)..n : c \notin cold[j].del
      BY <3>1, <2>1, <1>1
    <3> QED BY <3>1, <3>2, <3>3, <1>2 DEF Replay, n
  <2> QED BY <2>2, <2>3
<1>3. ASSUME NEW c \in U PROVE c \in Replay'
  <2>1. n + 1 \in 1..(n + 1) /\ \A j \in (n + 1 + 1)..(n + 1) : FALSE
    BY <1>1
  <2>2. \E i \in 1..Len(cold') : c \in cold'[i].up /\ \A j \in (i + 1)..Len(cold') : c \notin cold'[j].del
    BY <2>1, <1>1, <1>3
  <2> QED BY <2>2 DEF Replay
<1>4. ASSUME NEW c \in Replay \ D PROVE c \in Replay'
  <2>1. PICK i \in 1..n : c \in cold[i].up /\ \A j \in (i + 1)..n : c \notin cold[j].del
    BY <1>4 DEF Replay, n
  <2>2. i \in 1..(n + 1) /\ c \in cold'[i].up
    BY <2>1, <1>1
  <2>3. \A j \in (i + 1)..(n + 1) : c \notin cold'[j].del
    <3> TAKE j \in (i + 1)..(n + 1)
    <3>1. CASE j = n + 1 BY <3>1, <1>1, <1>4
    <3>2. CASE j # n + 1
      <4>1. j \in (i + 1)..n /\ j \in 1..n BY <3>2, <1>1, <2>1
      <4> QED BY <4>1, <2>1, <1>1
    <3> QED BY <3>1, <3>2
  <2> QED BY <2>2, <2>3, <1>1 DEF Replay
<1> QED BY <1>2, <1>3, <1>4

LEMMA InitHistory == Init => History
<1> SUFFICES ASSUME Init PROVE History
  OBVIOUS
<1>1. Len(cold) = 0
  BY DEF Init
<1>2. Replay = {}
  BY <1>1 DEF Replay
<1> QED BY <1>2, InitTypeOK DEF History, HistoryAt, Init, Blank

\* Whatever the comparison says, logging it brings the history to the version.
LEMMA SyncHistory ==
  ASSUME TypeOK, HistoryAt, sync_document PROVE HistoryAt'
<1> USE DEF HistoryAt, sync_document, stores
<1>0. Replay' = Replay /\ Replay = hot /\ Blank /\ new' = source
  BY DEF Replay
<1>1. CASE ~known
  <2>1. added' = source /\ deleted' = {} /\ hot = {} /\ pc' = "save_hot"
    BY <1>0, <1>1 DEF AddedBy, DeletedBy, Blank
  <2> QED BY <1>0, <2>1 DEF Logged
<1>2. CASE known
  <2>1. added' \in {source, source \ hot} /\ deleted' = hot \ source
    BY <1>2 DEF AddedBy, DeletedBy
  <2>2. Logged'
    BY <1>0, <2>1 DEF Logged
  <2>3. added' = {} /\ deleted' = {} => hot = source
    BY <2>1
  <2> QED BY <1>0, <1>2, <2>2, <2>3
<1> QED BY <1>1, <1>2

LEMMA NextHistory == History /\ [Next]_vars => History'
<1> SUFFICES ASSUME History, [Next]_vars, ~crashed', ~rolled' PROVE HistoryAt'
  BY NextTypeOK DEF History
<1> USE DEF stores, locals, history, budget
<1>1. CASE sync_document
  BY <1>1, SyncHistory DEF History, sync_document
<1>2. CASE _append_to_cold_storage
  <2>1. TypeOK /\ HistoryAt /\ pc = "cold" /\ pc' = "idle" /\ hot' = hot /\ known' = known
    BY <1>2 DEF _append_to_cold_storage, History
  <2>2. Replay' = (Replay \ deleted) \cup added
    <3>1. CASE added = {} /\ deleted = {}
      BY <3>1, <1>2 DEF _append_to_cold_storage, Replay
    <3>2. CASE ~(added = {} /\ deleted = {})
      BY <3>2, <1>2, <2>1, ReplayAppend DEF _append_to_cold_storage, TypeOK
    <3> QED BY <3>1, <3>2
  <2> QED BY <2>1, <2>2 DEF HistoryAt, Logged, Blank
<1>3. CASE Crash
  BY <1>3 DEF Crash
<1>4. ASSUME NEW t \in 1..Len(cold), rollback_document(t) PROVE FALSE
  BY <1>4 DEF rollback_document
<1>5. CASE reset \/ _save_chunks_to_hot \/ _update_wal \/ index_chunks \/ delete_chunks
           \/ Edit \/ force_reindex \/ run_cleanup \/ index_chunks_partly \/ delete_chunks_fails
           \/ UNCHANGED vars
  <2> USE DEF reset, _save_chunks_to_hot, _update_wal, index_chunks, delete_chunks, Edit,
              force_reindex, run_cleanup, index_chunks_partly, delete_chunks_fails, vars
  <2>1. cold' = cold /\ crashed' = crashed /\ rolled' = rolled
    BY <1>5
  <2>2. Replay' = Replay
    BY <2>1 DEF Replay
  <2>3. HistoryAt
    BY <2>1 DEF History
  <2>4. CASE reset \/ _save_chunks_to_hot \/ _update_wal \/ index_chunks \/ delete_chunks
    BY <2>2, <2>3, <2>4 DEF HistoryAt, Logged
  <2>5. CASE Edit \/ force_reindex \/ run_cleanup
    BY <2>2, <2>3, <2>5 DEF HistoryAt, Logged, Blank
  <2>6. CASE index_chunks_partly \/ delete_chunks_fails \/ UNCHANGED vars
    BY <2>2, <2>3, <2>6 DEF HistoryAt, Logged, Blank
  <2> QED BY <1>5, <2>4, <2>5, <2>6
<1> QED
  BY <1>1, <1>2, <1>3, <1>4, <1>5 DEF Next, Sync

\* For every set of chunks and any number of edits, refused Qdrant writes,
\* recreated collections and cleanups: until a job dies or somebody rolls back,
\* replaying the cold history gives exactly the version in the hot file.
THEOREM HistoryIsExact == Spec => []HistoryReplays
<1>1. History => HistoryReplays
  BY DEF History, HistoryAt, HistoryReplays
<1> QED BY InitHistory, NextHistory, <1>1, PTL DEF Spec
=============================================================================

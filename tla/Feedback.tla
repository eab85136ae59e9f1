---------------------------- MODULE Feedback ----------------------------
(***************************************************************************)
(* Feedback and expert review: core/hitl.py (the JSONL interaction log and *)
(* its rotation), api/feedback.py over core/feedback_store.py and          *)
(* core/enricher.py, api/admin_feedback.py and api/expert_kb.py.           *)
(*                                                                         *)
(* log_interaction runs in a worker thread per request and takes no lock:  *)
(* the size check, each file of the shift of the backups, the move of the  *)
(* active file, the opening and the write are steps of their own.  An open *)
(* file follows its handle, not its name, so a file is the set of records  *)
(* that were opened for it, those still to be written included.  (The      *)
(* copy that shutil.move falls back to when its rename fails is left out.) *)
(* The endpoints do not yield between their store calls.                   *)
(***************************************************************************)
EXTENDS Integers, Sequences, FiniteSets

CONSTANTS Threads,           \* worker threads that log an interaction
          Answers,           \* feedback ids
          MAX_BACKUP_COUNT,  \* _MAX_BACKUP_COUNT
          MaxFile,           \* records that make a file exceed its maximum size
          MaxRecords, MaxFlags

VARIABLES active,    \* interactions.jsonl: its records, numbered as opened, or NoFile
          backup,    \* interactions.jsonl.1 ... .MAX_BACKUP_COUNT + 1
          opened,    \* records for which the active file was opened so far
          thread,    \* the threads inside log_interaction
          store,     \* feedback.db
          metric,    \* rag_enrichment_total{status="success"} per feedback id
          chunks,    \* feedback ids whose answer was indexed as a chunk
          flags      \* _flagged_documents and _reviews

vars == <<active, backup, opened, thread, store, metric, chunks, flags>>
logs == <<active, backup, opened, thread>>
books == <<store, metric, chunks, flags>>

NoFile == {0}
Slots == 1..(MAX_BACKUP_COUNT + 1)
Files == SUBSET (1..MaxRecords) \cup {NoFile}

\* A thread in the shift is at backup i; one that writes holds the file opened for record rec.
Idle == [at |-> "idle", i |-> 0, rec |-> 0]
At(a, i) == [at |-> a, i |-> i, rec |-> 0]
Writing(n) == [at |-> "write", i |-> 0, rec |-> n]

NoEntry == [rating |-> "none", correction |-> FALSE, status |-> "none"]
Entries == [rating: {"positive", "negative"}, correction: BOOLEAN,
            status: {"pending", "reviewed", "accepted", "rejected"}]

TypeOK ==
    /\ active \in Files
    /\ backup \in [Slots -> Files]
    /\ opened \in 0..MaxRecords
    /\ \A t \in Threads :
         /\ thread[t].at \in {"idle", "unlink", "exists", "rename", "move", "open", "write"}
         /\ thread[t].i \in 0..MAX_BACKUP_COUNT /\ thread[t].rec \in 0..opened
    /\ store \in [Answers -> Entries \cup {NoEntry}]
    /\ metric \subseteq Answers /\ chunks \subseteq Answers
    /\ Len(flags) <= MaxFlags

\* InteractionLogger.__init__, FeedbackStore._init_db
Init ==
    /\ active = NoFile /\ backup = [i \in Slots |-> NoFile]
    /\ opened = 0
    /\ thread = [t \in Threads |-> Idle]
    /\ store = [a \in Answers |-> NoEntry]
    /\ metric = {} /\ chunks = {} /\ flags = <<>>

-----------------------------------------------------------------------------
Goto(t, h) == thread' = [thread EXCEPT ![t] = h]

\* The records of the active file that are on disk: not those a handle still has to write.
OnDisk == active \ {thread[t].rec : t \in Threads}

\* log_interaction and the size check of _rotate_if_needed.
log_interaction(t) ==
    /\ thread[t] = Idle
    /\ opened + Cardinality({u \in Threads : thread[u].at \notin {"idle", "write"}}) < MaxRecords
    /\ Goto(t, IF active # NoFile /\ Cardinality(OnDisk) >= MaxFile
               THEN At("unlink", MAX_BACKUP_COUNT) ELSE At("open", 0))
    /\ UNCHANGED <<active, backup, opened>>

\* _rotate_if_needed, the slot after the last backup: its file is unlinked.
unlink_oldest(t) ==
    /\ thread[t].at = "unlink"
    /\ backup' = [backup EXCEPT ![MAX_BACKUP_COUNT + 1] = NoFile]
    /\ Goto(t, [thread[t] EXCEPT !.at = "exists"])
    /\ UNCHANGED <<active, opened>>

\* The next, older-first, round of the loop over the backups; after .1 the active file's turn.
NextRound(i) == IF i = 1 THEN At("move", 0) ELSE At("exists", i - 1)

exists_backup(t) ==
    /\ thread[t].at = "exists"
    /\ Goto(t, IF backup[thread[t].i] # NoFile THEN [thread[t] EXCEPT !.at = "rename"]
               ELSE NextRound(thread[t].i))
    /\ UNCHANGED <<active, backup, opened>>

\* The rename replaces what has the new name.  A source that is gone by now raises, and the
\* handler of log_interaction drops the record it was about to write.
rename_backup(t) ==
    LET i == thread[t].i IN
    /\ thread[t].at = "rename"
    /\ IF backup[i] = NoFile
       THEN /\ Goto(t, Idle)
            /\ UNCHANGED backup
       ELSE /\ backup' = [backup EXCEPT ![i + 1] = backup[i], ![i] = NoFile]
            /\ Goto(t, NextRound(i))
    /\ UNCHANGED <<active, opened>>

\* Variant: no backup is ever replaced, the rotated file takes the first free number.
move_active_free(t) ==
    LET taken == {i \in Slots : \A j \in 1..i : backup[j] # NoFile}
        free  == IF Cardinality(taken) <= MAX_BACKUP_COUNT THEN Cardinality(taken) + 1 ELSE 1 IN
    /\ thread[t].at = "move"
    /\ IF active = NoFile
       THEN /\ Goto(t, Idle)
            /\ UNCHANGED <<active, backup>>
       ELSE /\ backup' = [backup EXCEPT ![free] = active]
            /\ active' = NoFile
            /\ Goto(t, At("open", 0))
    /\ UNCHANGED opened

\* shutil.move onto .1, replacing it; a missing source raises, as above.
move_active(t) ==
    /\ thread[t].at = "move"
    /\ IF active = NoFile
       THEN /\ Goto(t, Idle)
            /\ UNCHANGED <<active, backup>>
       ELSE /\ backup' = [backup EXCEPT ![1] = active]
            /\ active' = NoFile
            /\ Goto(t, At("open", 0))
    /\ UNCHANGED opened

\* open(active_file, "a") creates the file when there is none.
open_active(t) ==
    /\ thread[t].at = "open"
    /\ opened' = opened + 1
    /\ active' = (active \ NoFile) \cup {opened + 1}
    /\ Goto(t, Writing(opened + 1))
    /\ UNCHANGED backup

\* write and close: the record is in the file its handle has, whatever that is called by now.
write_record(t) ==
    /\ thread[t].at = "write"
    /\ Goto(t, Idle)
    /\ UNCHANGED <<active, backup, opened>>

-----------------------------------------------------------------------------
\* The keys of a logged record, and the key the enricher reads the question from.
RecordKeys == {"request_id", "timestamp", "user_query", "context", "response", "metadata"}
QuestionKey == "query"

\* extract_qa_pair and chunk_qa_pair: no question, no chunk.
extract_qa_pair == QuestionKey \in RecordKeys

\* enrich_from_feedback: find the interaction, extract, index; FALSE is not an error.
enrich_from_feedback(a, indexed) ==
    chunks' = IF extract_qa_pair /\ indexed THEN chunks \cup {a} ELSE chunks

\* FeedbackStore.insert: INSERT OR REPLACE under the response's id.
insert(a, r, c) == store' = [store EXCEPT ![a] = [rating |-> r, correction |-> c,
                                                  status |-> "pending"]]

\* submit_feedback past the rate limit and the role check; the enrichment finds and indexes the
\* interaction, does not, or raises.
submit_feedback(a, r, c, outcome) ==
    /\ insert(a, r, c)
    /\ IF r = "positive" \/ c
       THEN /\ enrich_from_feedback(a, outcome = "indexed")
            /\ metric' = IF outcome = "raised" THEN metric ELSE metric \cup {a}
       ELSE UNCHANGED <<chunks, metric>>
    /\ UNCHANGED flags

\* update_feedback: 404 without an entry; the status may go anywhere.
update_feedback(a, s) ==
    /\ store[a] # NoEntry
    /\ store' = [store EXCEPT ![a].status = s]
    /\ UNCHANGED <<metric, chunks, flags>>

\* flag_document and review_document: lists in memory, under their lock.
flag_document(kind, a) ==
    /\ Len(flags) < MaxFlags
    /\ flags' = Append(flags, <<kind, a>>)
    /\ UNCHANGED <<store, metric, chunks>>

\* export_training_dataset: corrections and positive answers.
export_training_dataset == {a \in Answers : store[a].correction \/ store[a].rating = "positive"}

Next ==
    \/ /\ \E t \in Threads : \/ log_interaction(t) \/ unlink_oldest(t) \/ exists_backup(t)
                             \/ rename_backup(t) \/ move_active(t) \/ open_active(t) \/ write_record(t)
       /\ UNCHANGED books
    \/ /\ \/ \E a \in Answers, r \in {"positive", "negative"}, c \in BOOLEAN,
                outcome \in {"indexed", "missed", "raised"} : submit_feedback(a, r, c, outcome)
          \/ \E a \in Answers, s \in {"pending", "reviewed", "accepted", "rejected"} :
                 update_feedback(a, s)
          \/ \E a \in Answers, k \in {"flag", "review"} : flag_document(k, a)
       /\ UNCHANGED logs

Spec == Init /\ [][Next]_vars

-----------------------------------------------------------------------------
InOrder(newer, older) == \A m \in newer \ NoFile, n \in older \ NoFile : n < m

(***************************************************************************)
(* The numbers of the rotated logs tell their age: whatever threads that   *)
(* all decided to rotate do to each other between an exists and its        *)
(* rename, a backup with a smaller number, and the active file before all  *)
(* of them, holds records that were opened later                           *)
(* (hitl.InteractionLogger._rotate_if_needed, log_interaction).  The order *)
(* is that of the opens, not of the writes: a thread that opened the       *)
(* active file and was overtaken by a rotation writes its record into a    *)
(* backup, after newer ones are in the new active file.  Nor does the      *)
(* order keep a backup: a rotation that moves onto a .1 which another has  *)
(* just moved replaces it.                                                 *)
(***************************************************************************)
BackupOrder ==
    /\ \A i \in Slots : InOrder(active, backup[i])
    /\ \A i, j \in Slots : i < j => InOrder(backup[i], backup[j])
=============================================================================

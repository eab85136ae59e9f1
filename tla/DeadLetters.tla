---------------------------- MODULE DeadLetters ----------------------------
(***************************************************************************)
(* The dead letter queue (proxy/app/shared/dlq.py): messages in a SQLite   *)
(* table, worked off by threads that each retry all pending messages.      *)
(* nack reads the retry count in one statement and writes it in another.   *)
(***************************************************************************)
EXTENDS Naturals, FiniteSets

CONSTANTS Threads, MAX_RETRIES, MaxMessages, MaxRounds

VARIABLES rows,       \* ids in the table -> [status, retry_count]
          thread,     \* thread -> the retry() it is in
          added,      \* AUTOINCREMENT
          failures,   \* id -> failed handler calls
          handled,    \* ids that a handler accepted
          cleared,    \* ids removed by clear
          rounds

vars == <<rows, thread, added, failures, handled, cleared, rounds>>

Ids == 1..MaxMessages
Pending == [status |-> "pending", retry_count |-> 0]
Free == [pc |-> "idle", todo |-> {}, count |-> 0]

TypeOK ==
    /\ DOMAIN rows \subseteq 1..added /\ added \in 0..MaxMessages /\ rounds \in 0..MaxRounds
    /\ \A i \in DOMAIN rows : rows[i].status \in {"pending", "dead"} /\ rows[i].retry_count \in Nat
    /\ \A t \in Threads : /\ thread[t].pc \in {"idle", "handle", "nack", "update"}
                          /\ thread[t].todo \subseteq Ids
    /\ failures \in [Ids -> Nat] /\ {handled, cleared} \subseteq SUBSET Ids

Init ==
    /\ rows = [i \in {} |-> Pending] /\ added = 0 /\ rounds = 0
    /\ thread = [t \in Threads |-> Free]
    /\ failures = [i \in Ids |-> 0] /\ handled = {} /\ cleared = {}

add ==
    /\ added < MaxMessages
    /\ added' = added + 1
    /\ rows' = [i \in DOMAIN rows \cup {added + 1} |-> IF i \in DOMAIN rows THEN rows[i] ELSE Pending]
    /\ UNCHANGED <<thread, failures, handled, cleared, rounds>>

Without(S) == [i \in DOMAIN rows \ S |-> rows[i]]

\* retry: the pending messages as they are now, oldest first.  next_retry_at is not looked at.
retry(t) ==
    LET todo == {i \in DOMAIN rows : rows[i].status = "pending"} IN
    /\ thread[t].pc = "idle" /\ rounds < MaxRounds /\ todo # {}
    /\ rounds' = rounds + 1
    /\ thread' = [thread EXCEPT ![t] = [Free EXCEPT !.pc = "handle", !.todo = todo]]
    /\ UNCHANGED <<rows, added, failures, handled, cleared>>

Current(t) == CHOOSE i \in thread[t].todo : \A j \in thread[t].todo : i <= j
Following(t) == LET left == thread[t].todo \ {Current(t)} IN
                IF left = {} THEN Free ELSE [Free EXCEPT !.pc = "handle", !.todo = left]

\* The handler accepts the message, and ack deletes it if it is still there.
ack(t) ==
    /\ thread[t].pc = "handle"
    /\ rows' = Without({Current(t)})
    /\ handled' = handled \cup {Current(t)}
    /\ thread' = [thread EXCEPT ![t] = Following(t)]
    /\ UNCHANGED <<added, failures, cleared, rounds>>

\* Variant: the message is acknowledged although the handler raised.
fail_acked(t) ==
    /\ thread[t].pc = "handle"
    /\ failures' = [failures EXCEPT ![Current(t)] = @ + 1]
    /\ rows' = Without({Current(t)})
    /\ thread' = [thread EXCEPT ![t] = Following(t)]
    /\ UNCHANGED <<added, handled, cleared, rounds>>

\* The handler raises.
fail(t) ==
    /\ thread[t].pc = "handle"
    /\ failures' = [failures EXCEPT ![Current(t)] = @ + 1]
    /\ thread' = [thread EXCEPT ![t].pc = "nack"]
    /\ UNCHANGED <<rows, added, handled, cleared, rounds>>

\* nack begins with the SELECT, and ends there if the message is gone.
nack_select(t) ==
    LET i == Current(t) IN
    /\ thread[t].pc = "nack"
    /\ thread' = [thread EXCEPT ![t] = IF i \in DOMAIN rows
                                       THEN [@ EXCEPT !.pc = "update", !.count = rows[i].retry_count + 1]
                                       ELSE Following(t)]
    /\ UNCHANGED <<rows, added, failures, handled, cleared, rounds>>

\* The UPDATE writes the count of the SELECT, whatever it is by now.
nack(t) ==
    LET i == Current(t) n == thread[t].count IN
    /\ thread[t].pc = "update"
    /\ rows' = [j \in DOMAIN rows |->
                  IF j = i THEN [status |-> IF n >= MAX_RETRIES THEN "dead" ELSE "pending",
                                 retry_count |-> n]
                  ELSE rows[j]]
    /\ thread' = [thread EXCEPT ![t] = Following(t)]
    /\ UNCHANGED <<added, failures, handled, cleared, rounds>>

requeue(i) ==
    /\ i \in DOMAIN rows /\ rows[i].status = "dead" /\ rounds < MaxRounds
    /\ rows' = [rows EXCEPT ![i] = Pending]
    /\ rounds' = rounds + 1
    /\ UNCHANGED <<thread, added, failures, handled, cleared>>

\* clear(status), or of every message.
clear(statuses) ==
    LET gone == {i \in DOMAIN rows : rows[i].status \in statuses} IN
    /\ gone # {}
    /\ rows' = Without(gone)
    /\ cleared' = cleared \cup gone
    /\ UNCHANGED <<thread, added, failures, handled, rounds>>

\* The process dies: the table stays.
Restart ==
    /\ \E t \in Threads : thread[t].pc # "idle"
    /\ thread' = [t \in Threads |-> Free]
    /\ UNCHANGED <<rows, added, failures, handled, cleared, rounds>>

Next ==
    \/ add \/ Restart
    \/ \E t \in Threads : retry(t) \/ ack(t) \/ fail(t) \/ nack_select(t) \/ nack(t)
    \/ \E i \in Ids : requeue(i)
    \/ \E S \in {{"pending"}, {"dead"}, {"pending", "dead"}} : clear(S)

Spec == Init /\ [][Next]_vars

-----------------------------------------------------------------------------
(***************************************************************************)
(* A message leaves the queue only after a handler took it or by clear;    *)
(* one that is dead has failed at least MAX_RETRIES times, however the     *)
(* threads' counts overwrote each other; and the status follows the count. *)
(***************************************************************************)
DeadLettersKept ==
    /\ 1..added \ DOMAIN rows \subseteq handled \cup cleared
    /\ \A i \in DOMAIN rows :
          /\ rows[i].status = "dead" => failures[i] >= MAX_RETRIES
          /\ rows[i].status = "dead" <=> rows[i].retry_count >= MAX_RETRIES
=============================================================================

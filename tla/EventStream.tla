---------------------------- MODULE EventStream ----------------------------
(***************************************************************************)
(* Event-driven indexing (etl/scheduler): webhook_server and               *)
(* stream_producer append events to a Redis stream; worker processes, each *)
(* an EventPipeline with one ProcessingStreamConsumer, read it as one      *)
(* consumer group and apply the events to Qdrant through EventProcessor.   *)
(*                                                                         *)
(* The events are those of one Confluence page, in the order they were     *)
(* accepted; an event is its position in the stream.  The chunks of the    *)
(* page as event e has it are <<e, p>> for p in Parts.                     *)
(***************************************************************************)
EXTENDS Integers, Sequences, FiniteSets

CONSTANTS
  Workers,      \* worker processes
  Fragile,      \* those that may be killed, signalled, or start without Redis
  Parts,        \* the chunks of one version of the page
  BatchSize,    \* count of XREADGROUP
  MaxLen,       \* maxlen of XADD, 10000 in the code
  MaxEvents, MaxFaults  \* bounds on events and on failures of any kind

ASSUME WorkersAssumption == IsFiniteSet(Workers) /\ Fragile \subseteq Workers
ASSUME PartsAssumption == IsFiniteSet(Parts) /\ Parts # {}
ASSUME LimitsAssumption ==
  /\ BatchSize \in Nat \ {0} /\ MaxLen \in Nat \ {0}
  /\ MaxEvents \in Nat /\ MaxFaults \in Nat

VARIABLES
  stream,    \* the kinds of all accepted events
  trimmed,   \* how many of the oldest entries XADD has trimmed
  cursor,    \* last-delivered-id of the consumer group
  pend,      \* pending entries: delivered and not acknowledged
  acked,     \* acknowledged entries
  batch,     \* per worker, the rest of the batch it is processing
  status,    \* per worker, EventPipeline.state
  task,      \* per worker, its consumer task
  shutdown,  \* per worker, is _shutdown_event set?
  signalled, \* per worker, has a signal arrived that nobody handled yet?
  index,     \* chunks of the page in Qdrant
  faults,    \* how many failures there have been
  applied,   \* history: chunks ever written to Qdrant
  failed,    \* history: events whose processing or acknowledgement failed
  orphaned,  \* history: events of a batch whose worker was killed
  lost,      \* history: events trimmed before they were delivered
  blurred    \* history: did Qdrant errors get swallowed, or workers overlap?

streamVars == <<stream, trimmed, cursor>>
lifeVars   == <<status, task, shutdown, signalled>>
histVars   == <<applied, failed, orphaned, lost, blurred>>
vars == <<streamVars, pend, acked, batch, lifeVars, index, faults, histVars>>

Kinds == {"update", "delete", "skip"}
Chunks(e) == {e} \X Parts

Init ==
  /\ stream = <<>> /\ trimmed = 0 /\ cursor = 0
  /\ pend = {} /\ acked = {}
  /\ batch = [w \in Workers |-> <<>>]
  /\ status = [w \in Workers |-> "idle"]
  /\ task = [w \in Workers |-> "none"]
  /\ shutdown = [w \in Workers |-> FALSE]
  /\ signalled = [w \in Workers |-> FALSE]
  /\ index = {}
  /\ faults = 0
  /\ applied = {} /\ failed = {} /\ orphaned = {} /\ lost = {} /\ blurred = FALSE

Fails == faults < MaxFaults /\ faults' = faults + 1

-----------------------------------------------------------------------------
(* Producer.  A request that is refused (401, 422, 503) adds nothing.      *)

produce_event(k) ==
  /\ Len(stream) < MaxEvents
  /\ stream' = Append(stream, k)
  /\ \E t \in trimmed..Len(stream') :    \* approximate trimming may keep more
       /\ t > trimmed => t <= Len(stream') - MaxLen
       /\ trimmed' = t
       /\ lost' = lost \cup ((cursor + 1)..t)
  /\ UNCHANGED <<cursor, pend, acked, batch, lifeVars, index, faults, applied,
                 failed, orphaned, blurred>>

-----------------------------------------------------------------------------
(* Lifecycle of a worker.  The consumer task never awaits while it loops,  *)
(* so once it loops no other coroutine of the process runs: stop() can run *)
(* only before the loop, after it, or when there is no consumer.           *)

start(w) ==
  /\ status[w] \in {"idle", "stopped"}
  /\ status' = [status EXCEPT ![w] = "running"]
  /\ task' = [task EXCEPT ![w] = "ready"]
  /\ UNCHANGED <<streamVars, pend, acked, batch, shutdown, signalled, index,
                 faults, histVars>>

\* Redis cannot be reached: RUNNING without a consumer.
start_idle_mode(w) ==
  /\ w \in Fragile
  /\ status[w] \in {"idle", "stopped"}
  /\ Fails
  /\ status' = [status EXCEPT ![w] = "running"]
  /\ UNCHANGED <<streamVars, pend, acked, batch, task, shutdown, signalled,
                 index, histVars>>

\* Variant: the loop condition is inverted.
_run_consumer_loop_inverted(w) ==
  /\ task[w] = "ready"
  /\ task' = [task EXCEPT ![w] = IF shutdown[w] THEN "looping" ELSE "ended"]
  /\ UNCHANGED <<streamVars, pend, acked, batch, status, shutdown, signalled,
                 index, faults, histVars>>

\* The consumer task gets its first turn.  claim_pending makes this consumer
\* the owner of the idle pending entries and drops their contents; all workers
\* use the same consumer name, so nothing changes.
_run_consumer_loop(w) ==
  /\ task[w] = "ready"
  /\ task' = [task EXCEPT ![w] = IF shutdown[w] THEN "ended" ELSE "looping"]
  /\ UNCHANGED <<streamVars, pend, acked, batch, status, shutdown, signalled,
                 index, faults, histVars>>

Signal(w) ==
  /\ w \in Fragile
  /\ status[w] = "running" /\ ~signalled[w]
  /\ Fails
  /\ signalled' = [signalled EXCEPT ![w] = TRUE]
  /\ UNCHANGED <<streamVars, pend, acked, batch, status, task, shutdown, index,
                 histVars>>

\* The signal handler runs stop(): the task is cancelled and the pipeline ends.
stop(w) ==
  /\ signalled[w]
  /\ task[w] # "looping"
  /\ status' = [status EXCEPT ![w] = "stopped"]
  /\ shutdown' = [shutdown EXCEPT ![w] = TRUE]
  /\ task' = [task EXCEPT ![w] = IF @ = "ready" THEN "ended" ELSE @]
  /\ signalled' = [signalled EXCEPT ![w] = FALSE]
  /\ UNCHANGED <<streamVars, pend, acked, batch, index, faults, histVars>>

\* What Qdrant may hold when a worker stops in the middle of its event.
Midway(w) ==
  IF batch[w] = <<>> THEN {index}
  ELSE LET e == Head(batch[w])
       IN  CASE stream[e] = "update" -> {index \cup some : some \in SUBSET Chunks(e)}
             [] stream[e] = "delete" -> SUBSET index
             [] stream[e] = "skip"   -> {index}

\* The process is killed; what it had read stays pending.
Kill(w) ==
  /\ w \in Fragile
  /\ status[w] = "running"
  /\ Fails
  /\ status' = [status EXCEPT ![w] = "idle"]
  /\ task' = [task EXCEPT ![w] = "none"]
  /\ shutdown' = [shutdown EXCEPT ![w] = FALSE]
  /\ signalled' = [signalled EXCEPT ![w] = FALSE]
  /\ batch' = [batch EXCEPT ![w] = <<>>]
  /\ orphaned' = orphaned \cup {batch[w][i] : i \in 1..Len(batch[w])}
  /\ index' \in Midway(w)
  /\ applied' = applied \cup index'
  /\ UNCHANGED <<streamVars, pend, acked, failed, lost, blurred>>

-----------------------------------------------------------------------------
(* Consumer. *)

\* Variant: the entries are read without moving the group's cursor.
consume_batch_unmoved(w) ==
  LET from == IF trimmed > cursor THEN trimmed ELSE cursor
      upto == IF from + BatchSize < Len(stream) THEN from + BatchSize ELSE Len(stream)
  IN  /\ task[w] = "looping"
      /\ batch[w] = <<>>
      /\ from < upto
      /\ batch' = [batch EXCEPT ![w] = [i \in 1..(upto - from) |-> from + i]]
      /\ cursor' = cursor
      /\ pend' = pend \cup (from + 1)..upto
      /\ blurred' = (blurred \/ \E v \in Workers \ {w} : batch[v] # <<>>)
      /\ UNCHANGED <<stream, trimmed, acked, lifeVars, index, faults, applied,
                     failed, orphaned, lost>>

\* XREADGROUP with ">": entries no consumer of the group has seen.
consume_batch(w) ==
  LET from == IF trimmed > cursor THEN trimmed ELSE cursor
      upto == IF from + BatchSize < Len(stream) THEN from + BatchSize ELSE Len(stream)
  IN  /\ task[w] = "looping"
      /\ batch[w] = <<>>
      /\ from < upto
      /\ batch' = [batch EXCEPT ![w] = [i \in 1..(upto - from) |-> from + i]]
      /\ cursor' = upto
      /\ pend' = pend \cup (from + 1)..upto
      /\ blurred' = (blurred \/ \E v \in Workers \ {w} : batch[v] # <<>>)
      /\ UNCHANGED <<stream, trimmed, acked, lifeVars, index, faults, applied,
                     failed, orphaned, lost>>

Handles(w, e, k) == batch[w] # <<>> /\ e = Head(batch[w]) /\ stream[e] = k
Done(w)   == batch' = [batch EXCEPT ![w] = Tail(@)]
Ack(e)    == pend' = pend \ {e} /\ acked' = acked \cup {e} /\ UNCHANGED failed
NoAck(e)  == failed' = failed \cup {e} /\ UNCHANGED <<pend, acked>>

\* Variant: a document none of whose chunks could be indexed is acknowledged.
index_chunks_partly_unchecked(w, e) ==
  /\ Handles(w, e, "update")
  /\ Fails
  /\ \E some \in SUBSET Chunks(e) :
       /\ some # Chunks(e)
       /\ index' = index \cup some
       /\ applied' = applied \cup some
  /\ blurred' = TRUE
  /\ Ack(e)
  /\ Done(w)
  /\ UNCHANGED <<streamVars, lifeVars, orphaned, lost>>

\* Comments, unknown types and pages without content are acknowledged.
skip_event(w, e) ==
  /\ Handles(w, e, "skip")
  /\ Ack(e)
  /\ Done(w)
  /\ UNCHANGED <<streamVars, lifeVars, index, faults, applied, orphaned, lost,
                 blurred>>

index_event(w, e) ==
  /\ Handles(w, e, "update")
  /\ index' = index \cup Chunks(e)
  /\ applied' = applied \cup Chunks(e)
  /\ Ack(e)
  /\ Done(w)
  /\ UNCHANGED <<streamVars, lifeVars, faults, orphaned, lost, blurred>>

\* index_chunks reports how many chunks it stored: one is enough.
index_chunks_partly(w, e) ==
  /\ Handles(w, e, "update")
  /\ Fails
  /\ \E some \in SUBSET Chunks(e) :
       /\ some # {} /\ some # Chunks(e)
       /\ index' = index \cup some
       /\ applied' = applied \cup some
  /\ blurred' = TRUE
  /\ Ack(e)
  /\ Done(w)
  /\ UNCHANGED <<streamVars, lifeVars, orphaned, lost>>

\* Components missing, chunking or embedding raised, or nothing stored; the
\* batches indexed before the exception stay.
index_fails(w, e) ==
  /\ Handles(w, e, "update")
  /\ Fails
  /\ \E some \in SUBSET Chunks(e) :
       /\ some # Chunks(e)
       /\ index' = index \cup some
       /\ applied' = applied \cup some
  /\ NoAck(e)
  /\ Done(w)
  /\ UNCHANGED <<streamVars, lifeVars, orphaned, lost, blurred>>

\* Variant: only the chunks of the version named in the event are deleted.
_delete_document_version(w, e) ==
  /\ Handles(w, e, "delete")
  /\ index' = index \ Chunks(e)
  /\ Ack(e)
  /\ Done(w)
  /\ UNCHANGED <<streamVars, lifeVars, faults, applied, orphaned, lost, blurred>>

_delete_document(w, e) ==
  /\ Handles(w, e, "delete")
  /\ index' = {}
  /\ Ack(e)
  /\ Done(w)
  /\ UNCHANGED <<streamVars, lifeVars, faults, applied, orphaned, lost, blurred>>

\* delete_by_source_id catches Qdrant's error and returns a number.
delete_by_source_id_fails(w, e) ==
  /\ Handles(w, e, "delete")
  /\ Fails
  /\ \E left \in SUBSET index : index' = left
  /\ blurred' = TRUE
  /\ Ack(e)
  /\ Done(w)
  /\ UNCHANGED <<streamVars, lifeVars, applied, orphaned, lost>>

\* The chunker or the indexer cannot be created.
delete_deferred(w, e) ==
  /\ Handles(w, e, "delete")
  /\ Fails
  /\ NoAck(e)
  /\ Done(w)
  /\ UNCHANGED <<streamVars, lifeVars, index, applied, orphaned, lost, blurred>>

\* The event is applied and XACK fails.
ack_fails(w, e) ==
  /\ \E k \in Kinds : Handles(w, e, k)
  /\ Fails
  /\ index' = CASE stream[e] = "update" -> index \cup Chunks(e)
                [] stream[e] = "delete" -> {}
                [] stream[e] = "skip"   -> index
  /\ applied' = IF stream[e] = "update" THEN applied \cup Chunks(e) ELSE applied
  /\ NoAck(e)
  /\ Done(w)
  /\ UNCHANGED <<streamVars, lifeVars, orphaned, lost, blurred>>

process_event(w) ==
  \E e \in 1..Len(stream) :
    \/ skip_event(w, e) \/ index_event(w, e) \/ _delete_document(w, e)
    \/ index_chunks_partly(w, e) \/ index_fails(w, e)
    \/ delete_by_source_id_fails(w, e) \/ delete_deferred(w, e) \/ ack_fails(w, e)

Next ==
  \/ \E k \in Kinds : produce_event(k)
  \/ \E w \in Workers :
       \/ start(w) \/ start_idle_mode(w) \/ _run_consumer_loop(w)
       \/ Signal(w) \/ stop(w) \/ Kill(w)
       \/ consume_batch(w) \/ process_event(w)

Spec == Init /\ [][Next]_vars

\* A worker process that is down is started again, its event loop runs what is
\* ready, and its consumer loop goes on.
FairSpec ==
  /\ Spec
  /\ \A w \in Workers :
       /\ WF_vars(start(w)) /\ WF_vars(_run_consumer_loop(w)) /\ WF_vars(stop(w))
       /\ WF_vars(consume_batch(w)) /\ WF_vars(process_event(w))

-----------------------------------------------------------------------------
(* Properties. *)

Accepted == 1..Len(stream)

TypeOK ==
  /\ stream \in Seq(Kinds)
  /\ trimmed \in 0..Len(stream) /\ cursor \in 0..Len(stream)
  /\ pend \subseteq Accepted /\ acked \subseteq Accepted
  /\ batch \in [Workers -> Seq(Accepted)]
  /\ \A w \in Workers : Len(batch[w]) <= BatchSize
  /\ status \in [Workers -> {"idle", "running", "stopped"}]
  /\ task \in [Workers -> {"none", "ready", "looping", "ended"}]
  /\ shutdown \in [Workers -> BOOLEAN] /\ signalled \in [Workers -> BOOLEAN]
  /\ index \subseteq (Accepted \X Parts) /\ applied \subseteq (Accepted \X Parts)
  /\ failed \cup orphaned \cup lost \subseteq Accepted
  /\ blurred \in BOOLEAN
  /\ faults \in 0..MaxFaults

InBatch(e) == \E w \in Workers : \E i \in 1..Len(batch[w]) : batch[w][i] = e

\* No event disappears silently and none is handled twice: one that was
\* delivered is acknowledged, or pending; and a pending one is in the batch of
\* exactly one worker unless its processing failed or its worker was killed.
EventsAccountedFor ==
  /\ \A e \in Accepted :
       e <= cursor => (e \in acked) # (e \in pend \cup lost)
  /\ \A e \in pend : InBatch(e) # (e \in failed \cup orphaned)
  /\ \A v, w \in Workers : \A i \in 1..Len(batch[v]), j \in 1..Len(batch[w]) :
       batch[v][i] = batch[w][j] => v = w /\ i = j

\* An acknowledged update has put at least one of its chunks into Qdrant: a
\* total indexing failure never counts as done.
AckedUpdateWasIndexed ==
  \A e \in acked : stream[e] = "update" => applied \cap Chunks(e) # {}

\* Chunks of the updates that follow the last deletion.
Current ==
  UNION {Chunks(e) : e \in {u \in Accepted :
    /\ stream[u] = "update"
    /\ \A d \in Accepted : d > u => stream[d] # "delete"}}

\* When every event has been acknowledged, and neither a swallowed Qdrant error
\* nor two workers with batches at the same time blurred the order, Qdrant
\* holds what the stream says: a deleted page stays deleted, an updated one has
\* all chunks of its updates.
IndexFollowsStream ==
  acked = Accepted /\ failed = {} /\ ~blurred => index = Current

\* Every accepted event is acknowledged in the end unless its processing
\* failed, its worker was killed, or the stream was trimmed too early.
AckedUnlessDisturbed ==
  \A e \in 1..MaxEvents :
    (e \in Accepted) ~> (e \in acked \cup failed \cup orphaned \cup lost)

\* Failures are finite, so an event that was not acknowledged is retried by
\* the consumer group until it is.
Retried == \A e \in 1..MaxEvents : (e \in Accepted) ~> (e \in acked \cup lost)
=============================================================================

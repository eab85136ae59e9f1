------------------------- MODULE EventStreamProofs -------------------------
(***************************************************************************)
(* Proofs about EventStream for any number of workers, events, chunks per  *)
(* page and failures.                                                      *)
(***************************************************************************)
EXTENDS EventStream, SequenceTheorems, TLAPS

\* Only accepted events are acknowledged, and every acknowledged update has
\* written something.
IInv ==
  /\ stream \in Seq(Kinds)
  /\ acked \subseteq 1..Len(stream)
  /\ AckedUpdateWasIndexed

LEMMA InitIInv == Init => IInv
  BY DEF Init, IInv, AckedUpdateWasIndexed

\* A page has at least one chunk.
LEMMA ChunksNonEmpty == \A e : Chunks(e) # {}
<1> TAKE e
<1>1. PICK p \in Parts : TRUE BY PartsAssumption
<1>2. <<e, p>> \in Chunks(e) BY <1>1 DEF Chunks
<1> QED BY <1>2

\* Steps that acknowledge nothing and keep what was written.
LEMMA NothingAcked ==
  ASSUME IInv, UNCHANGED <<stream, acked>>, applied \subseteq applied'
  PROVE  IInv'
  BY DEF IInv, AckedUpdateWasIndexed, Chunks

\* Acknowledging an event that is no update, or whose chunks were written.
LEMMA OneAcked ==
  ASSUME IInv, UNCHANGED stream, applied \subseteq applied',
         NEW e \in 1..Len(stream), acked' = acked \cup {e},
         stream[e] = "update" => applied' \cap Chunks(e) # {}
  PROVE  IInv'
<1>1. AckedUpdateWasIndexed'
  BY DEF IInv, AckedUpdateWasIndexed, Chunks
<1> QED BY <1>1 DEF IInv

LEMMA ProcessIInv ==
  ASSUME IInv, NEW w \in Workers, process_event(w) PROVE IInv'
<1>1. PICK e \in 1..Len(stream) :
        \/ skip_event(w, e) \/ index_event(w, e) \/ _delete_document(w, e)
        \/ index_chunks_partly(w, e) \/ index_fails(w, e)
        \/ delete_by_source_id_fails(w, e) \/ delete_deferred(w, e)
        \/ ack_fails(w, e)
  BY DEF process_event
<1> USE DEF Handles, Ack, NoAck, streamVars
<1>2. CASE skip_event(w, e)
  BY <1>2, OneAcked DEF skip_event
<1>3. CASE index_event(w, e)
  BY <1>3, OneAcked, ChunksNonEmpty DEF index_event
<1>4. CASE _delete_document(w, e)
  BY <1>4, OneAcked DEF _delete_document
<1>5. CASE index_chunks_partly(w, e)
  BY <1>5, OneAcked DEF index_chunks_partly
<1>6. CASE index_fails(w, e)
  BY <1>6, NothingAcked DEF index_fails
<1>7. CASE delete_by_source_id_fails(w, e)
  BY <1>7, OneAcked DEF delete_by_source_id_fails
<1>8. CASE delete_deferred(w, e)
  BY <1>8, NothingAcked DEF delete_deferred
<1>9. CASE ack_fails(w, e)
  BY <1>9, NothingAcked DEF ack_fails
<1> QED
  BY <1>1, <1>2, <1>3, <1>4, <1>5, <1>6, <1>7, <1>8, <1>9

LEMMA NextIInv == IInv /\ [Next]_vars => IInv'
<1> SUFFICES ASSUME IInv, [Next]_vars PROVE IInv'
  OBVIOUS
<1> USE DEF streamVars, lifeVars, histVars
<1>1. ASSUME NEW k \in Kinds, produce_event(k) PROVE IInv'
  <2>1. stream' \in Seq(Kinds) /\ Len(stream') = Len(stream) + 1
        /\ \A e \in 1..Len(stream) : stream'[e] = stream[e]
    BY <1>1 DEF produce_event, IInv
  <2>2. UNCHANGED <<acked, applied>>
    BY <1>1 DEF produce_event
  <2> QED
    BY <2>1, <2>2 DEF IInv, AckedUpdateWasIndexed, Chunks
<1>2. ASSUME NEW w \in Workers, process_event(w) PROVE IInv'
  BY <1>2, ProcessIInv
<1>3. ASSUME NEW w \in Workers,
             \/ start(w) \/ start_idle_mode(w) \/ _run_consumer_loop(w)
             \/ Signal(w) \/ stop(w) \/ Kill(w) \/ consume_batch(w)
      PROVE  IInv'
  BY <1>3, NothingAcked
     DEF start, start_idle_mode, _run_consumer_loop, Signal, stop, Kill,
         consume_batch
<1>4. CASE UNCHANGED vars
  BY <1>4, NothingAcked DEF vars
<1> QED
  BY <1>1, <1>2, <1>3, <1>4 DEF Next

\* However many workers share the stream and however often Qdrant, Redis or a
\* worker fails, an update is acknowledged only after index_chunks stored at
\* least one of its chunks.
THEOREM NoEmptyAck == Spec => []AckedUpdateWasIndexed
<1>1. IInv => AckedUpdateWasIndexed
  BY DEF IInv
<1> QED BY InitIInv, NextIInv, <1>1, PTL DEF Spec

-----------------------------------------------------------------------------
(* Type correctness. *)

LEMMA InitTypeOK == Init => TypeOK
<1> SUFFICES ASSUME Init PROVE TypeOK
  OBVIOUS
<1>1. <<>> \in Seq(Kinds) /\ <<>> \in Seq(Accepted) /\ Len(<<>>) = 0
  OBVIOUS
<1>2. batch \in [Workers -> Seq(Accepted)] /\ \A w \in Workers : Len(batch[w]) <= BatchSize
  BY <1>1, LimitsAssumption DEF Init
<1>3. /\ stream \in Seq(Kinds)
      /\ trimmed \in 0..Len(stream) /\ cursor \in 0..Len(stream) /\ faults \in 0..MaxFaults
  BY <1>1, LimitsAssumption DEF Init
<1>4. /\ status \in [Workers -> {"idle", "running", "stopped"}]
      /\ task \in [Workers -> {"none", "ready", "looping", "ended"}]
      /\ shutdown \in [Workers -> BOOLEAN] /\ signalled \in [Workers -> BOOLEAN]
  BY DEF Init
<1>5. /\ pend \subseteq Accepted /\ acked \subseteq Accepted
      /\ index \subseteq (Accepted \X Parts) /\ applied \subseteq (Accepted \X Parts)
      /\ failed \cup orphaned \cup lost \subseteq Accepted
      /\ blurred \in BOOLEAN
  BY DEF Init
<1> QED BY <1>2, <1>3, <1>4, <1>5 DEF TypeOK

\* Steps of the life cycle: no event moves.
LEMMA LifeTypeOK ==
  ASSUME TypeOK, NEW w \in Workers,
         start(w) \/ start_idle_mode(w) \/ _run_consumer_loop(w) \/ Signal(w) \/ stop(w)
  PROVE  TypeOK'
<1> USE LimitsAssumption DEF TypeOK, Accepted, streamVars, lifeVars, histVars, Fails
<1>1. CASE start(w) BY <1>1 DEF start
<1>2. CASE start_idle_mode(w) BY <1>2 DEF start_idle_mode
<1>3. CASE _run_consumer_loop(w) BY <1>3 DEF _run_consumer_loop
<1>4. CASE Signal(w) BY <1>4 DEF Signal
<1>5. CASE stop(w) BY <1>5 DEF stop
<1> QED BY <1>1, <1>2, <1>3, <1>4, <1>5

\* Accepting an event keeps the earlier ones where they are.
LEMMA ProduceTypeOK ==
  ASSUME TypeOK, NEW k \in Kinds, produce_event(k) PROVE TypeOK'
<1> USE DEF TypeOK, Accepted, produce_event, lifeVars
<1>1. stream' \in Seq(Kinds) /\ Len(stream') = Len(stream) + 1
  OBVIOUS
<1>2. 1..Len(stream) \subseteq 1..Len(stream')
  BY <1>1
<1>3. batch' \in [Workers -> Seq(1..Len(stream'))]
  <2>1. ASSUME NEW w \in Workers PROVE batch[w] \in Seq(1..Len(stream'))
    BY <1>2, SeqMonotonic
  <2> QED BY <2>1
<1>4. trimmed' \in 0..Len(stream') /\ lost' \subseteq 1..Len(stream')
  BY <1>1, <1>2
<1> QED BY <1>1, <1>2, <1>3, <1>4

\* The entries of a batch that is read.
LEMMA BatchRead ==
  ASSUME TypeOK, NEW w \in Workers, consume_batch(w)
  PROVE  \E from, upto \in 0..Len(stream) :
           /\ from = (IF trimmed > cursor THEN trimmed ELSE cursor)
           /\ from < upto /\ upto <= from + BatchSize
           /\ batch[w] = <<>>
           /\ batch' = [batch EXCEPT ![w] = [i \in 1..(upto - from) |-> from + i]]
           /\ cursor' = upto /\ pend' = pend \cup (from + 1)..upto
<1> DEFINE from == IF trimmed > cursor THEN trimmed ELSE cursor
           upto == IF from + BatchSize < Len(stream) THEN from + BatchSize ELSE Len(stream)
<1>1. from \in 0..Len(stream) /\ upto \in 0..Len(stream) /\ upto <= from + BatchSize
  BY LimitsAssumption DEF TypeOK
<1>2. /\ from < upto /\ batch[w] = <<>>
      /\ batch' = [batch EXCEPT ![w] = [i \in 1..(upto - from) |-> from + i]]
      /\ cursor' = upto /\ pend' = pend \cup (from + 1)..upto
  BY DEF consume_batch
<1> HIDE DEF upto
<1> QED BY <1>1, <1>2

LEMMA ReadTypeOK ==
  ASSUME TypeOK, NEW w \in Workers, consume_batch(w) PROVE TypeOK'
<1>1. PICK from, upto \in 0..Len(stream) :
           /\ from < upto /\ upto <= from + BatchSize
           /\ batch' = [batch EXCEPT ![w] = [i \in 1..(upto - from) |-> from + i]]
           /\ cursor' = upto /\ pend' = pend \cup (from + 1)..upto
  BY BatchRead
<1>2. upto - from \in Nat /\ upto - from <= BatchSize
  BY <1>1, LimitsAssumption
<1> DEFINE new == [i \in 1..(upto - from) |-> from + i]
<1>3. new \in Seq(1..Len(stream)) /\ Len(new) = upto - from
  <2>1. \A i \in 1..(upto - from) : from + i \in 1..Len(stream)
    BY <1>1, <1>2, Len(stream) \in Nat DEF TypeOK
  <2>2. new \in [1..(upto - from) -> 1..Len(stream)]
    BY <2>1
  <2> QED BY <1>2, <2>2, SeqDef
<1>4. UNCHANGED <<stream, trimmed, acked, lifeVars, index, faults, applied, failed, orphaned, lost>>
      /\ blurred' \in BOOLEAN
  BY DEF consume_batch, TypeOK
<1>5. batch' \in [Workers -> Seq(1..Len(stream))] /\ \A v \in Workers : Len(batch'[v]) <= BatchSize
  <2> HIDE DEF new
  <2>1. batch' = [batch EXCEPT ![w] = new] BY <1>1 DEF new
  <2> QED BY <2>1, <1>2, <1>3 DEF TypeOK, Accepted
<1>6. pend' \subseteq 1..Len(stream)
  BY <1>1, Len(stream) \in Nat DEF TypeOK, Accepted
<1> QED BY <1>1, <1>4, <1>5, <1>6 DEF TypeOK, Accepted, lifeVars

\* A batch without its first entry.
LEMMA TailTypeOK ==
  ASSUME TypeOK, NEW w \in Workers, batch[w] # <<>>, Done(w)
  PROVE  /\ batch' \in [Workers -> Seq(Accepted)]
         /\ \A v \in Workers : Len(batch'[v]) <= BatchSize
<1>1. batch[w] \in Seq(Accepted) /\ Len(batch[w]) <= BatchSize BY DEF TypeOK
<1>2. Tail(batch[w]) \in Seq(Accepted) /\ Len(Tail(batch[w])) <= BatchSize
  BY <1>1, HeadTailProperties, LenProperties, LimitsAssumption
<1> QED BY <1>2 DEF TypeOK, Done

LEMMA ProcessTypeOK ==
  ASSUME TypeOK, NEW w \in Workers, process_event(w) PROVE TypeOK'
<1>1. PICK e \in 1..Len(stream) :
        \/ skip_event(w, e) \/ index_event(w, e) \/ _delete_document(w, e)
        \/ index_chunks_partly(w, e) \/ index_fails(w, e)
        \/ delete_by_source_id_fails(w, e) \/ delete_deferred(w, e) \/ ack_fails(w, e)
  BY DEF process_event
<1> USE DEF skip_event, index_event, _delete_document, index_chunks_partly, index_fails,
            delete_by_source_id_fails, delete_deferred, ack_fails
<1>2. batch[w] # <<>> /\ Done(w) /\ UNCHANGED <<streamVars, lifeVars, orphaned, lost>>
  BY <1>1 DEF Handles
<1>3. Chunks(e) \subseteq Accepted \X Parts
  BY DEF Chunks, Accepted
<1>4. index' \subseteq Accepted \X Parts /\ applied' \subseteq Accepted \X Parts
  <2>1. CASE ack_fails(w, e)
    BY <2>1, <1>3 DEF TypeOK, Handles, Kinds
  <2>2. CASE index_event(w, e) \/ index_chunks_partly(w, e) \/ index_fails(w, e)
    BY <2>2, <1>3 DEF TypeOK
  <2>3. CASE skip_event(w, e) \/ _delete_document(w, e) \/ delete_by_source_id_fails(w, e) \/ delete_deferred(w, e)
    BY <2>3 DEF TypeOK
  <2> QED BY <1>1, <2>1, <2>2, <2>3
<1>5. pend' \subseteq Accepted /\ acked' \subseteq Accepted /\ failed' \subseteq Accepted
  BY <1>1 DEF TypeOK, Accepted, Ack, NoAck
<1>6. faults' \in 0..MaxFaults /\ blurred' \in BOOLEAN
  <2>1. faults' = faults \/ Fails
    BY <1>1
  <2>2. faults' \in 0..MaxFaults
    BY <2>1, LimitsAssumption DEF TypeOK, Fails
  <2>3. blurred' = blurred \/ blurred' = TRUE
    BY <1>1
  <2>4. blurred \in BOOLEAN
    BY DEF TypeOK
  <2> QED BY <2>2, <2>3, <2>4
<1>7. /\ batch' \in [Workers -> Seq(Accepted)]
      /\ \A v \in Workers : Len(batch'[v]) <= BatchSize
  BY <1>2, TailTypeOK
<1> QED BY <1>2, <1>4, <1>5, <1>6, <1>7 DEF TypeOK, Accepted, streamVars, lifeVars

LEMMA KillTypeOK ==
  ASSUME TypeOK, NEW w \in Workers, Kill(w) PROVE TypeOK'
<1>1. index' \subseteq Accepted \X Parts
  <2>1. CASE batch[w] = <<>>
    BY <2>1 DEF Kill, Midway, TypeOK
  <2>2. CASE batch[w] # <<>>
    <3>1. Head(batch[w]) \in Accepted
      BY <2>2, HeadTailProperties DEF TypeOK
    <3>2. Chunks(Head(batch[w])) \subseteq Accepted \X Parts
      BY <3>1 DEF Chunks
    <3>3. stream[Head(batch[w])] \in Kinds
      BY <3>1 DEF TypeOK, Accepted
    <3> QED BY <2>2, <3>2, <3>3 DEF Kill, Midway, TypeOK, Kinds
  <2> QED BY <2>1, <2>2
<1>2. orphaned' \subseteq Accepted
  BY DEF Kill, TypeOK
<1> QED BY <1>1, <1>2, LimitsAssumption DEF Kill, TypeOK, Accepted, streamVars, Fails

LEMMA NextTypeOK == TypeOK /\ [Next]_vars => TypeOK'
<1>1. CASE UNCHANGED vars
  BY <1>1 DEF vars, TypeOK, Accepted, streamVars, lifeVars, histVars
<1> QED
  BY <1>1, LifeTypeOK, ProduceTypeOK, ReadTypeOK, ProcessTypeOK, KillTypeOK DEF Next

\* The stream, the consumer group, the workers' batches and the index keep their
\* types: offsets stay within the stream and batches within BatchSize.
THEOREM TypeCorrect == Spec => []TypeOK
  BY InitTypeOK, NextTypeOK, PTL DEF Spec

-----------------------------------------------------------------------------
(* Every event is accounted for.                                           *)

\* What the consumer group knows: what is delivered is pending, acknowledged
\* or was trimmed before, and only what was never delivered can get lost.
Delivered ==
  /\ (cursor + 1)..trimmed \subseteq lost
  /\ lost \subseteq 1..trimmed
  /\ pend \cup acked \subseteq 1..cursor
  /\ 1..cursor \subseteq pend \cup acked \cup lost
  /\ pend \cap acked = {} /\ lost \cap (pend \cup acked) = {}
  /\ failed \cup orphaned \subseteq pend

\* What the workers hold: the pending events that neither failed nor were
\* orphaned, each once.
Held ==
  /\ \A w \in Workers : \A i \in 1..Len(batch[w]) :
       batch[w][i] \in pend \ (failed \cup orphaned)
  /\ \A e \in pend : InBatch(e) \/ e \in failed \cup orphaned
  /\ \A v, w \in Workers : \A i \in 1..Len(batch[v]), j \in 1..Len(batch[w]) :
       batch[v][i] = batch[w][j] => v = w /\ i = j

Books == TypeOK /\ Delivered /\ Held

LEMMA InitBooks == Init => Books
<1> SUFFICES ASSUME Init PROVE Books
  OBVIOUS
<1>1. \A w \in Workers : Len(batch[w]) = 0
  BY DEF Init
<1>2. Held
  BY <1>1 DEF Held, Init
<1>3. Delivered
  BY DEF Delivered, Init
<1> QED BY <1>2, <1>3, InitTypeOK DEF Books

\* Steps that move no event.
LEMMA UnmovedBooks ==
  ASSUME Books, TypeOK',
         UNCHANGED <<stream, trimmed, cursor, pend, acked, batch, failed, orphaned, lost>>
  PROVE  Books'
  BY DEF Books, Delivered, Held, InBatch

LEMMA ProduceBooks ==
  ASSUME Books, TypeOK', NEW k \in Kinds, produce_event(k) PROVE Books'
<1>1. PICK t \in trimmed..Len(stream') :
        trimmed' = t /\ lost' = lost \cup ((cursor + 1)..t)
  BY DEF produce_event
<1>2. UNCHANGED <<cursor, pend, acked, batch, failed, orphaned>>
  BY DEF produce_event
<1>3. trimmed \in Nat /\ cursor \in Nat /\ t \in Nat /\ t >= trimmed
  BY <1>1 DEF Books, TypeOK
<1>4. Delivered'
  BY <1>1, <1>2, <1>3 DEF Books, Delivered
<1>5. Held'
  BY <1>2 DEF Books, Held, InBatch
<1> QED BY <1>4, <1>5 DEF Books

LEMMA ReadBooks ==
  ASSUME Books, TypeOK', NEW w \in Workers, consume_batch(w) PROVE Books'
<1>1. PICK from, upto \in 0..Len(stream) :
           /\ from = (IF trimmed > cursor THEN trimmed ELSE cursor)
           /\ from < upto /\ upto <= from + BatchSize
           /\ batch[w] = <<>>
           /\ batch' = [batch EXCEPT ![w] = [i \in 1..(upto - from) |-> from + i]]
           /\ cursor' = upto /\ pend' = pend \cup (from + 1)..upto
  BY BatchRead DEF Books
<1>2. UNCHANGED <<stream, trimmed, acked, failed, orphaned, lost>>
  BY DEF consume_batch
<1>3. trimmed \in Nat /\ cursor \in Nat /\ from \in Nat /\ upto \in Nat
  BY <1>1 DEF Books, TypeOK
<1>4. Delivered'
  <2>1. (cursor' + 1)..trimmed' \subseteq lost' /\ lost' \subseteq 1..trimmed'
    BY <1>1, <1>2, <1>3 DEF Books, Delivered
  <2>2. pend' \cup acked' \subseteq 1..cursor' /\ 1..cursor' \subseteq pend' \cup acked' \cup lost'
    BY <1>1, <1>2, <1>3 DEF Books, Delivered
  <2>3. pend' \cap acked' = {} /\ lost' \cap (pend' \cup acked') = {}
    BY <1>1, <1>2, <1>3 DEF Books, Delivered
  <2> QED BY <1>1, <1>2, <2>1, <2>2, <2>3 DEF Books, Delivered
<1>5. \A e \in (from + 1)..upto : e \notin pend
  BY <1>1, <1>3 DEF Books, Delivered
<1>6. /\ Len(batch'[w]) = upto - from
      /\ \A i \in 1..(upto - from) : batch'[w][i] = from + i
      /\ \A v \in Workers \ {w} : batch'[v] = batch[v]
  <2>1. DOMAIN batch = Workers
    BY DEF Books, TypeOK
  <2>2. \A v \in Workers \ {w} : batch'[v] = batch[v]
    BY <1>1, <2>1
  <2>3. batch'[w] = [i \in 1..(upto - from) |-> from + i]
    BY <1>1, <2>1
  <2>4. upto - from \in Nat
    BY <1>1, <1>3
  <2> QED
    BY <2>2, <2>3, <2>4
<1>7. \A v \in Workers : \A i \in 1..Len(batch[v]) : v # w /\ batch[v][i] \in pend
  BY <1>1 DEF Books, Held
<1>8. Held'
  <2>1. \A v \in Workers : \A i \in 1..Len(batch'[v]) :
          batch'[v][i] \in pend' \ (failed' \cup orphaned')
    BY <1>1, <1>2, <1>3, <1>5, <1>6 DEF Books, Held, Delivered
  <2>2. \A e \in pend' : InBatch(e)' \/ e \in failed' \cup orphaned'
    <3> SUFFICES ASSUME NEW e \in pend', e \notin failed' \cup orphaned' PROVE InBatch(e)'
      OBVIOUS
    <3>1. CASE e \in pend
      BY <3>1, <1>2, <1>6, <1>7 DEF Books, Held, InBatch
    <3>2. CASE e \in (from + 1)..upto
      <4>1. e - from \in 1..Len(batch'[w]) /\ batch'[w][e - from] = e
        BY <3>2, <1>3, <1>6
      <4> QED BY <4>1 DEF InBatch
    <3> QED BY <1>1, <3>1, <3>2
  <2>3. \A u, v \in Workers : \A i \in 1..Len(batch'[u]), j \in 1..Len(batch'[v]) :
          batch'[u][i] = batch'[v][j] => u = v /\ i = j
    BY <1>1, <1>3, <1>5, <1>6, <1>7 DEF Books, Held
  <2> QED BY <2>1, <2>2, <2>3 DEF Held
<1> QED BY <1>4, <1>8 DEF Books

\* The first entry of a batch leaves it, acknowledged or failed.
LEMMA HeadDone ==
  ASSUME Books, NEW w \in Workers, batch[w] # <<>>, Done(w)
  PROVE  /\ Head(batch[w]) = batch[w][1] /\ 1 \in 1..Len(batch[w])
         /\ Len(batch'[w]) = Len(batch[w]) - 1 /\ Len(batch[w]) \in Nat
         /\ \A i \in 1..Len(batch'[w]) : batch'[w][i] = batch[w][i + 1]
         /\ \A v \in Workers \ {w} : batch'[v] = batch[v]
<1>1. batch[w] \in Seq(Accepted) /\ batch \in [Workers -> Seq(Accepted)]
  BY DEF Books, TypeOK
<1>2. batch'[w] = Tail(batch[w]) /\ \A v \in Workers \ {w} : batch'[v] = batch[v]
  BY <1>1 DEF Done
<1> QED BY <1>1, <1>2, HeadTailProperties, LenProperties

LEMMA DoneBooks ==
  ASSUME Books, TypeOK', NEW w \in Workers, batch[w] # <<>>, Done(w),
         NEW e, e = Head(batch[w]), Ack(e) \/ NoAck(e),
         UNCHANGED <<stream, trimmed, cursor, orphaned, lost>>
  PROVE  Books'
<1>1. /\ e = batch[w][1] /\ 1 \in 1..Len(batch[w])
      /\ Len(batch'[w]) = Len(batch[w]) - 1 /\ Len(batch[w]) \in Nat
      /\ \A i \in 1..Len(batch'[w]) : batch'[w][i] = batch[w][i + 1]
      /\ \A v \in Workers \ {w} : batch'[v] = batch[v]
  BY HeadDone
<1>2. \A i \in 1..Len(batch'[w]) : i + 1 \in 1..Len(batch[w]) /\ i + 1 # 1
  BY <1>1
<1>3. e \in pend \ (failed \cup orphaned)
  BY <1>1 DEF Books, Held
<1>4. Delivered'
  BY <1>3 DEF Books, Delivered, Ack, NoAck
<1>5. \A v \in Workers : \A i \in 1..Len(batch'[v]) :
        /\ batch'[v][i] # e
        /\ batch'[v][i] \in pend \ (failed \cup orphaned)
  <2> TAKE v \in Workers
  <2> TAKE i \in 1..Len(batch'[v])
  <2>1. CASE v = w
    BY <2>1, <1>1, <1>2 DEF Books, Held
  <2>2. CASE v # w
    <3>1. i \in 1..Len(batch[v]) /\ batch'[v][i] = batch[v][i]
      BY <2>2, <1>1
    <3> QED BY <2>2, <3>1, <1>1 DEF Books, Held
  <2> QED BY <2>1, <2>2
<1>6. \A v \in Workers : \A i \in 1..Len(batch'[v]) :
        batch'[v][i] \in pend' \ (failed' \cup orphaned')
  BY <1>5 DEF Ack, NoAck
<1>7. \A f \in pend' : InBatch(f)' \/ f \in failed' \cup orphaned'
  <2> SUFFICES ASSUME NEW f \in pend', f \notin failed' \cup orphaned' PROVE InBatch(f)'
    OBVIOUS
  <2>1. f # e /\ f \in pend /\ f \notin failed \cup orphaned
    BY DEF Ack, NoAck
  <2>2. PICK v \in Workers : \E i \in 1..Len(batch[v]) : batch[v][i] = f
    BY <2>1 DEF Books, Held, InBatch
  <2>3. PICK i \in 1..Len(batch[v]) : batch[v][i] = f
    BY <2>2
  <2>4. CASE v = w
    <3>1. i # 1 /\ i - 1 \in 1..Len(batch'[w]) /\ batch'[w][i - 1] = f
      BY <2>1, <2>3, <2>4, <1>1
    <3> QED BY <3>1 DEF InBatch
  <2>5. CASE v # w
    BY <2>3, <2>5, <1>1 DEF InBatch
  <2> QED BY <2>4, <2>5
<1>8. \A u, v \in Workers : \A i \in 1..Len(batch'[u]), j \in 1..Len(batch'[v]) :
        batch'[u][i] = batch'[v][j] => u = v /\ i = j
  <2> DEFINE was(v, i) == IF v = w THEN i + 1 ELSE i
  <2>1. \A v \in Workers : \A i \in 1..Len(batch'[v]) :
          was(v, i) \in 1..Len(batch[v]) /\ batch'[v][i] = batch[v][was(v, i)]
    BY <1>1, <1>2
  <2>2. ASSUME NEW u \in Workers, NEW v \in Workers,
               NEW i \in 1..Len(batch'[u]), NEW j \in 1..Len(batch'[v]),
               batch'[u][i] = batch'[v][j]
        PROVE  u = v /\ i = j
    <3>1. \A a \in 1..Len(batch[u]), b \in 1..Len(batch[v]) :
            batch[u][a] = batch[v][b] => u = v /\ a = b
      BY DEF Books, Held
    <3>2. batch[u][was(u, i)] = batch[v][was(v, j)]
      BY <2>1, <2>2
    <3>3. was(u, i) \in 1..Len(batch[u]) /\ was(v, j) \in 1..Len(batch[v])
      BY <2>1
    <3>4. u = v /\ was(u, i) = was(v, j)
      <4> HIDE DEF was
      <4> QED BY <3>1, <3>2, <3>3
    <3> QED BY <3>4
  <2> QED BY <2>2
<1>9. Held'
  BY <1>6, <1>7, <1>8 DEF Held
<1> QED BY <1>4, <1>9 DEF Books

LEMMA ProcessBooks ==
  ASSUME Books, TypeOK', NEW w \in Workers, process_event(w) PROVE Books'
<1>1. PICK e \in 1..Len(stream) :
        \/ skip_event(w, e) \/ index_event(w, e) \/ _delete_document(w, e)
        \/ index_chunks_partly(w, e) \/ index_fails(w, e)
        \/ delete_by_source_id_fails(w, e) \/ delete_deferred(w, e) \/ ack_fails(w, e)
  BY DEF process_event
<1>2. /\ batch[w] # <<>> /\ e = Head(batch[w]) /\ Done(w) /\ (Ack(e) \/ NoAck(e))
      /\ UNCHANGED <<stream, trimmed, cursor, orphaned, lost>>
  BY <1>1 DEF skip_event, index_event, _delete_document, index_chunks_partly,
       index_fails, delete_by_source_id_fails, delete_deferred, ack_fails,
       Handles, streamVars
<1> QED BY <1>2, DoneBooks

LEMMA KillBooks ==
  ASSUME Books, TypeOK', NEW w \in Workers, Kill(w) PROVE Books'
<1> DEFINE dropped == {batch[w][i] : i \in 1..Len(batch[w])}
<1>1. /\ batch' = [batch EXCEPT ![w] = <<>>]
      /\ orphaned' = orphaned \cup dropped
      /\ UNCHANGED <<stream, trimmed, cursor, pend, acked, failed, lost>>
  BY DEF Kill, streamVars
<1>2. dropped \subseteq pend \ (failed \cup orphaned)
  BY DEF Books, Held
<1>3. Len(batch'[w]) = 0 /\ \A v \in Workers \ {w} : batch'[v] = batch[v]
  BY <1>1 DEF Books, TypeOK
<1>4. \A v \in Workers \ {w} : \A i \in 1..Len(batch[v]) : batch[v][i] \notin dropped
  BY DEF Books, Held
<1>5. Delivered'
  BY <1>1, <1>2 DEF Books, Delivered
<1>6. Held'
  <2>1. \A v \in Workers : \A i \in 1..Len(batch'[v]) : v # w
    BY <1>3
  <2>2. \A v \in Workers : \A i \in 1..Len(batch'[v]) :
          batch'[v][i] \in pend' \ (failed' \cup orphaned')
    BY <1>1, <1>3, <1>4, <2>1 DEF Books, Held
  <2>3. ASSUME NEW e \in pend', e \notin failed' \cup orphaned' PROVE InBatch(e)'
    <3>1. e \in pend /\ e \notin failed \cup orphaned /\ e \notin dropped
      BY <2>3, <1>1
    <3>2. PICK v \in Workers : \E i \in 1..Len(batch[v]) : batch[v][i] = e
      BY <3>1 DEF Books, Held, InBatch
    <3>3. v # w
      BY <3>1, <3>2
    <3> QED BY <3>2, <3>3, <1>3 DEF InBatch
  <2>4. \A u, v \in Workers : \A i \in 1..Len(batch'[u]), j \in 1..Len(batch'[v]) :
          batch'[u][i] = batch'[v][j] => u = v /\ i = j
    BY <1>3, <2>1 DEF Books, Held
  <2> QED BY <2>2, <2>3, <2>4 DEF Held
<1> QED BY <1>5, <1>6 DEF Books

LEMMA NextBooks == Books /\ [Next]_vars => Books'
<1> SUFFICES ASSUME Books, [Next]_vars PROVE Books'
  OBVIOUS
<1>1. TypeOK'
  BY NextTypeOK DEF Books
<1>2. CASE UNCHANGED vars
  BY <1>1, <1>2, UnmovedBooks DEF vars, streamVars, histVars
<1>3. ASSUME NEW w \in Workers,
             start(w) \/ start_idle_mode(w) \/ _run_consumer_loop(w) \/ Signal(w) \/ stop(w)
      PROVE  Books'
  BY <1>1, <1>3, UnmovedBooks
     DEF start, start_idle_mode, _run_consumer_loop, Signal, stop, streamVars, histVars
<1> QED
  BY <1>1, <1>2, <1>3, ProduceBooks, ReadBooks, ProcessBooks, KillBooks DEF Next

\* However many workers share the group, and whichever of them are killed,
\* signalled or cannot reach Qdrant or Redis: a delivered event is acknowledged,
\* pending or was lost to trimming, and a pending one is in exactly one batch, or
\* failed, or was orphaned by a kill.
THEOREM NoEventVanishes == Spec => []EventsAccountedFor
<1>1. Books => EventsAccountedFor
  <2> SUFFICES ASSUME Books PROVE EventsAccountedFor
    OBVIOUS
  <2>1. \A e \in Accepted : e <= cursor => e \in 1..cursor
    BY DEF Books, TypeOK, Accepted
  <2>2. \A e \in Accepted : e <= cursor => (e \in acked) # (e \in pend \cup lost)
    BY <2>1 DEF Books, Delivered
  <2>3. ASSUME NEW e \in pend PROVE InBatch(e) # (e \in failed \cup orphaned)
    <3>1. InBatch(e) => e \notin failed \cup orphaned
      BY DEF Books, Held, InBatch
    <3>2. InBatch(e) \/ e \in failed \cup orphaned
      BY DEF Books, Held
    <3> QED BY <3>1, <3>2 DEF InBatch
  <2> QED BY <2>2, <2>3 DEF Books, Held, EventsAccountedFor
<1> QED BY InitBooks, NextBooks, <1>1, PTL DEF Spec

-----------------------------------------------------------------------------
(* What Qdrant holds.                                                      *)

\* Chunks of the acknowledged updates that no acknowledged deletion follows.
CurrentOf(S) ==
  UNION {Chunks(e) : e \in {u \in S :
    /\ stream[u] = "update"
    /\ \A d \in S : d > u => stream[d] # "delete"}}

\* A batch is in stream order.
Sorted ==
  \A w \in Workers : \A i, j \in 1..Len(batch[w]) : i < j => batch[w][i] < batch[w][j]

\* While the workers take turns, they acknowledge in stream order.
InTurn ==
  ~blurred =>
    /\ \A v, w \in Workers : v # w => batch[v] = <<>> \/ batch[w] = <<>>
    /\ \A w \in Workers : \A i \in 1..Len(batch[w]) : \A a \in acked : a < batch[w][i]

\* As long as nothing was swallowed, failed or cut short, Qdrant holds exactly
\* what the acknowledged part of the stream says.
UpToDate == ~blurred /\ failed = {} /\ orphaned = {} => index = CurrentOf(acked)

Follows == Books /\ Sorted /\ InTurn /\ UpToDate

LEMMA InitFollows == Init => Follows
<1> SUFFICES ASSUME Init PROVE Follows
  OBVIOUS
<1>1. \A w \in Workers : Len(batch[w]) = 0 /\ batch[w] = <<>>
  BY DEF Init
<1>2. Sorted /\ InTurn
  BY <1>1 DEF Sorted, InTurn, Init
<1>3. UpToDate
  BY DEF UpToDate, CurrentOf, Init
<1> QED BY <1>2, <1>3, InitBooks DEF Follows

\* What the acknowledged events say depends on their kinds alone.
LEMMA CurrentKept ==
  ASSUME UNCHANGED acked, \A e \in acked : stream'[e] = stream[e]
  PROVE  CurrentOf(acked)' = CurrentOf(acked)
<1>1. \A u : ( u \in acked' /\ stream'[u] = "update" /\ \A d \in acked' : d > u => stream'[d] # "delete" )
         <=> ( u \in acked  /\ stream[u] = "update"  /\ \A d \in acked  : d > u => stream[d]  # "delete" )
  OBVIOUS
<1> QED BY <1>1 DEF CurrentOf, Chunks

\* Acknowledging the latest event, by its kind.
LEMMA CurrentGrows ==
  ASSUME UNCHANGED stream, NEW e \in Int, acked \subseteq Int, \A a \in acked : a < e,
         acked' = acked \cup {e}
  PROVE  /\ stream[e] = "update" => CurrentOf(acked)' = CurrentOf(acked) \cup Chunks(e)
         /\ stream[e] = "delete" => CurrentOf(acked)' = {}
         /\ stream[e] = "skip" => CurrentOf(acked)' = CurrentOf(acked)
<1> DEFINE live(S) == {u \in S : stream[u] = "update" /\ \A d \in S : d > u => stream[d] # "delete"}
<1>1. CurrentOf(acked)' = UNION {Chunks(u) : u \in live(acked')}
  BY DEF CurrentOf, Chunks
<1>2. CurrentOf(acked) = UNION {Chunks(u) : u \in live(acked)}
  BY DEF CurrentOf
<1>3. \A d \in acked' : ~(d > e)
  OBVIOUS
<1>4. ASSUME stream[e] = "update"
      PROVE  CurrentOf(acked)' = CurrentOf(acked) \cup Chunks(e)
  <2>1. live(acked') = live(acked) \cup {e}
    BY <1>3, <1>4
  <2> HIDE DEF live
  <2> QED BY <1>1, <1>2, <2>1
<1>5. ASSUME stream[e] = "delete" PROVE CurrentOf(acked)' = {}
  <2>1. live(acked') = {}
    BY <1>5
  <2> QED BY <1>1, <2>1
<1>6. ASSUME stream[e] = "skip" PROVE CurrentOf(acked)' = CurrentOf(acked)
  <2>1. live(acked') = live(acked)
    BY <1>6
  <2> QED BY <1>1, <1>2, <2>1
<1> QED BY <1>4, <1>5, <1>6

\* Steps that touch no event.
LEMMA UnmovedFollows ==
  ASSUME Follows, Books',
         UNCHANGED <<stream, acked, batch, index, failed, orphaned, blurred>>
  PROVE  Follows'
<1>1. Sorted' /\ InTurn'
  BY DEF Follows, Sorted, InTurn
<1>2. UpToDate'
  BY CurrentKept DEF Follows, UpToDate
<1> QED BY <1>1, <1>2 DEF Follows

LEMMA ProduceFollows ==
  ASSUME Follows, Books', NEW k \in Kinds, produce_event(k) PROVE Follows'
<1>1. UNCHANGED <<acked, batch, index, failed, orphaned, blurred>>
  BY DEF produce_event
<1>2. \A e \in acked : stream'[e] = stream[e]
  BY DEF Follows, Books, TypeOK, Accepted, produce_event
<1>3. Sorted' /\ InTurn'
  BY <1>1 DEF Follows, Sorted, InTurn
<1>4. UpToDate'
  BY <1>1, <1>2, CurrentKept DEF Follows, UpToDate
<1> QED BY <1>3, <1>4 DEF Follows

LEMMA ReadFollows ==
  ASSUME Follows, Books', NEW w \in Workers, consume_batch(w) PROVE Follows'
<1>1. PICK from, upto \in 0..Len(stream) :
           /\ from = (IF trimmed > cursor THEN trimmed ELSE cursor)
           /\ from < upto
           /\ batch' = [batch EXCEPT ![w] = [i \in 1..(upto - from) |-> from + i]]
  BY BatchRead DEF Follows, Books
<1>2. /\ UNCHANGED <<stream, acked, index, failed, orphaned>>
      /\ blurred' = (blurred \/ \E v \in Workers \ {w} : batch[v] # <<>>)
  BY DEF consume_batch
<1>3. trimmed \in Nat /\ cursor \in Nat /\ from \in Nat /\ upto \in Nat
  BY <1>1 DEF Follows, Books, TypeOK
<1>4. /\ Len(batch'[w]) = upto - from
      /\ \A i \in 1..(upto - from) : batch'[w][i] = from + i
      /\ \A v \in Workers \ {w} : batch'[v] = batch[v]
  <2>1. batch \in [Workers -> Seq(Accepted)] /\ upto - from \in Nat
    BY <1>1, <1>3 DEF Follows, Books, TypeOK
  <2> QED BY <1>1, <2>1
<1>5. Sorted'
  <2>1. ASSUME NEW v \in Workers PROVE \A i, j \in 1..Len(batch'[v]) : i < j => batch'[v][i] < batch'[v][j]
    <3>1. CASE v = w BY <3>1, <1>3, <1>4
    <3>2. CASE v # w BY <3>2, <1>4 DEF Follows, Sorted
    <3> QED BY <3>1, <3>2
  <2> QED BY <2>1 DEF Sorted
<1>6. InTurn'
  <2> SUFFICES ASSUME ~blurred'
               PROVE  /\ \A u, v \in Workers : u # v => batch'[u] = <<>> \/ batch'[v] = <<>>
                      /\ \A v \in Workers : \A i \in 1..Len(batch'[v]) : \A a \in acked' : a < batch'[v][i]
    BY DEF InTurn
  <2>1. \A v \in Workers \ {w} : batch'[v] = <<>>
    BY <1>2, <1>4
  <2>2. \A v \in Workers : \A i \in 1..Len(batch'[v]) : v = w
    BY <2>1
  <2>3. \A a \in acked : a \in Nat /\ a <= from
    BY <1>1, <1>3 DEF Follows, Books, Delivered
  <2> QED BY <2>1, <2>2, <2>3, <1>2, <1>3, <1>4
<1>7. UpToDate'
  BY <1>2, CurrentKept DEF Follows, UpToDate
<1> QED BY <1>5, <1>6, <1>7 DEF Follows

\* The order of what is left of a batch, acknowledged or not.
LEMMA DoneFollows ==
  ASSUME Follows, NEW w \in Workers, batch[w] # <<>>, Done(w),
         NEW e, e = Head(batch[w]), Ack(e) \/ NoAck(e),
         blurred => blurred'
  PROVE  /\ Sorted' /\ InTurn'
         /\ ~blurred => \A a \in acked : a < e
<1>1. /\ e = batch[w][1] /\ 1 \in 1..Len(batch[w])
      /\ Len(batch'[w]) = Len(batch[w]) - 1 /\ Len(batch[w]) \in Nat
      /\ \A i \in 1..Len(batch'[w]) : batch'[w][i] = batch[w][i + 1]
      /\ \A v \in Workers \ {w} : batch'[v] = batch[v]
  BY HeadDone DEF Follows
<1>2. \A i \in 1..Len(batch'[w]) : i + 1 \in 1..Len(batch[w]) /\ 1 < i + 1
  BY <1>1
<1>3. Sorted'
  <2>1. ASSUME NEW v \in Workers PROVE \A i, j \in 1..Len(batch'[v]) : i < j => batch'[v][i] < batch'[v][j]
    <3>1. CASE v = w
      <4>1. \A i, j \in 1..Len(batch[w]) : i < j => batch[w][i] < batch[w][j]
        BY DEF Follows, Sorted
      <4> QED BY <3>1, <4>1, <1>1, <1>2
    <3>2. CASE v # w BY <3>2, <1>1 DEF Follows, Sorted
    <3> QED BY <3>1, <3>2
  <2> QED BY <2>1 DEF Sorted
<1>4. ~blurred => \A a \in acked : a < e
  BY <1>1 DEF Follows, InTurn
<1>5. InTurn'
  <2> SUFFICES ASSUME ~blurred'
               PROVE  /\ \A u, v \in Workers : u # v => batch'[u] = <<>> \/ batch'[v] = <<>>
                      /\ \A v \in Workers : \A i \in 1..Len(batch'[v]) : \A a \in acked' : a < batch'[v][i]
    BY DEF InTurn
  <2>1. ~blurred
    OBVIOUS
  <2>2. \A v \in Workers \ {w} : batch'[v] = <<>>
    BY <1>1, <2>1 DEF Follows, InTurn
  <2>3. \A i \in 1..Len(batch'[w]) : e < batch'[w][i]
    BY <1>1, <1>2 DEF Follows, Sorted
  <2>4. \A i \in 1..Len(batch'[w]) : \A a \in acked : a < batch'[w][i]
    BY <1>1, <1>2, <2>1 DEF Follows, InTurn
  <2>5. acked' \subseteq acked \cup {e}
    BY DEF Ack, NoAck
  <2>6. \A v \in Workers : \A i \in 1..Len(batch'[v]) : v = w
    BY <2>2
  <2> QED BY <2>2, <2>3, <2>4, <2>5, <2>6
<1> QED BY <1>3, <1>4, <1>5

LEMMA ProcessFollows ==
  ASSUME Follows, Books', NEW w \in Workers, process_event(w) PROVE Follows'
<1>1. PICK e \in 1..Len(stream) :
        \/ skip_event(w, e) \/ index_event(w, e) \/ _delete_document(w, e)
        \/ index_chunks_partly(w, e) \/ index_fails(w, e)
        \/ delete_by_source_id_fails(w, e) \/ delete_deferred(w, e) \/ ack_fails(w, e)
  BY DEF process_event
<1> USE DEF skip_event, index_event, _delete_document, index_chunks_partly,
            index_fails, delete_by_source_id_fails, delete_deferred, ack_fails
<1>2. /\ batch[w] # <<>> /\ e = Head(batch[w]) /\ Done(w) /\ (Ack(e) \/ NoAck(e))
      /\ UNCHANGED <<stream, orphaned>> /\ (blurred => blurred')
  BY <1>1 DEF Handles, streamVars
<1>3. Sorted' /\ InTurn' /\ (~blurred => \A a \in acked : a < e)
  BY <1>2, DoneFollows
<1>4. e \in Int /\ acked \subseteq Int
  BY DEF Follows, Books, TypeOK, Accepted
<1>5. UpToDate'
  <2> SUFFICES ASSUME ~blurred', failed' = {}, orphaned' = {}
               PROVE  index' = CurrentOf(acked)'
    BY DEF UpToDate
  <2>1. ~NoAck(e)
    BY DEF NoAck
  <2>2. Ack(e) /\ failed = {} /\ orphaned = {} /\ ~blurred
    BY <1>2, <2>1 DEF Ack
  <2>3. index = CurrentOf(acked)
    BY <2>2 DEF Follows, UpToDate
  <2>4. /\ stream[e] = "update" => CurrentOf(acked)' = CurrentOf(acked) \cup Chunks(e)
        /\ stream[e] = "delete" => CurrentOf(acked)' = {}
        /\ stream[e] = "skip" => CurrentOf(acked)' = CurrentOf(acked)
    BY <1>2, <1>3, <1>4, <2>2, CurrentGrows DEF Ack
  <2>5. skip_event(w, e) \/ index_event(w, e) \/ _delete_document(w, e)
    BY <1>1, <2>1
  <2> QED BY <2>3, <2>4, <2>5 DEF Handles
<1> QED BY <1>3, <1>5 DEF Follows

LEMMA KillFollows ==
  ASSUME Follows, Books', NEW w \in Workers, Kill(w) PROVE Follows'
<1>1. /\ batch' = [batch EXCEPT ![w] = <<>>]
      /\ orphaned' = orphaned \cup {batch[w][i] : i \in 1..Len(batch[w])}
      /\ index' \in Midway(w)
      /\ UNCHANGED <<stream, acked, failed, blurred>>
  BY DEF Kill, streamVars
<1>2. batch'[w] = <<>> /\ \A v \in Workers \ {w} : batch'[v] = batch[v]
  BY <1>1 DEF Follows, Books, TypeOK
<1>3. Sorted'
  BY <1>2 DEF Follows, Sorted
<1>4. InTurn'
  BY <1>1, <1>2 DEF Follows, InTurn
<1>5. UpToDate'
  <2>1. CASE batch[w] = <<>>
    BY <2>1, <1>1, CurrentKept DEF Midway, Follows, UpToDate
  <2>2. CASE batch[w] # <<>>
    <3>1. 1 \in 1..Len(batch[w])
      BY <2>2 DEF Follows, Books, TypeOK
    <3>2. orphaned' # {}
      BY <3>1, <1>1
    <3> QED BY <3>2 DEF UpToDate
  <2> QED BY <2>1, <2>2
<1> QED BY <1>3, <1>4, <1>5 DEF Follows

LEMMA NextFollows == Follows /\ [Next]_vars => Follows'
<1> SUFFICES ASSUME Follows, [Next]_vars PROVE Follows'
  OBVIOUS
<1>1. Books'
  BY NextBooks DEF Follows
<1>2. CASE UNCHANGED vars
  BY <1>1, <1>2, UnmovedFollows DEF vars, streamVars, histVars
<1>3. ASSUME NEW w \in Workers,
             start(w) \/ start_idle_mode(w) \/ _run_consumer_loop(w) \/ Signal(w) \/ stop(w)
      PROVE  Follows'
  BY <1>1, <1>3, UnmovedFollows
     DEF start, start_idle_mode, _run_consumer_loop, Signal, stop, streamVars, histVars
<1> QED
  BY <1>1, <1>2, <1>3, ProduceFollows, ReadFollows, ProcessFollows, KillFollows DEF Next

\* However the events of a page are cut into batches and handed to workers:
\* once all are acknowledged, without a swallowed error and without two workers
\* at it at once, Qdrant holds the chunks of the updates after the last
\* deletion and nothing else.
THEOREM IndexIsCurrent == Spec => []IndexFollowsStream
<1>1. Follows => IndexFollowsStream
  <2> SUFFICES ASSUME Follows, acked = Accepted, failed = {}, ~blurred
               PROVE  index = Current
    BY DEF IndexFollowsStream
  <2>1. orphaned = {}
    BY DEF Follows, Books, Delivered, TypeOK
  <2>2. index = CurrentOf(acked)
    BY <2>1 DEF Follows, UpToDate
  <2> QED BY <2>2 DEF CurrentOf, Current
<1> QED BY InitFollows, NextFollows, <1>1, PTL DEF Spec
=============================================================================

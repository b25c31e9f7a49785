------------------------ MODULE DualEventWriterProofs ------------------------
(***************************************************************************)
(* Proofs about DualEventWriter, for any events, workers, buffer and batch *)
(* sizes.  The invariant is the conservation of events, which needs no     *)
(* help, and the relation between stopChan and the workers: a worker that  *)
(* has left the select loop saw stopChan closed, and when it exited its    *)
(* channel was empty, so what is in the channel now came late.             *)
(*                                                                         *)
(* Then each pipeline as an EventSink, and the number of events that a     *)
(* race with Stop can strand.                                              *)
(***************************************************************************)
EXTENDS DualEventWriter, ChannelLemmas, FiniteSetTheorems

\* Workers drain only after stopChan is closed, and leave with an empty batch and
\* an empty channel, which only late calls fill again; Stop waits for them all.
Drained ==
  /\ \A w \in Workers :
       worker[w] \in {"drain", "drainFlush", "lastFlush", "exited"}
         => stopChanClosed
  /\ \A w \in Workers : worker[w] = "exited" =>
       /\ batch[w] = <<>>
       /\ Range(chan[PipeOf(w)]) \subseteq late[PipeOf(w)]
  /\ \A w \in Workers : worker[w] = "lastFlush" =>
       Range(chan[PipeOf(w)]) \subseteq late[PipeOf(w)]
  /\ stop = "stopped" => \A w \in Workers : worker[w] = "exited"

-----------------------------------------------------------------------------
\* A worker belongs to the pipeline it reads, and to no other.
LEMMA WorkerPipes ==
  ASSUME NEW w \in Workers
  PROVE  /\ PipeOf(w) \in Pipes
         /\ \A p \in Pipes : w \in WorkersOf(p) <=> p = PipeOf(w)
BY WriterAssumption DEF Workers, PipeOf, Pipes, WorkersOf

LEMMA PipeWorkers ==
  ASSUME NEW p \in Pipes
  PROVE  WorkersOf(p) \subseteq Workers /\ WorkersOf(p) # {}
BY WriterAssumption DEF Workers, Pipes, WorkersOf

\* What it is to be held by a pipeline.
LEMMA InPipeMember ==
  ASSUME NEW p, NEW e
  PROVE  e \in InPipe(p) <=> \/ e \in Range(chan[p])
                             \/ \E w \in WorkersOf(p) : e \in Range(batch[w])
BY DEF InPipe

-----------------------------------------------------------------------------
\* The type invariant is inductive together with the fact that a worker that
\* waits for an event has room for it in its batch.
RoomForNext ==
  \A w \in Workers : worker[w] \in {"select", "drain"} => Len(batch[w]) < BatchSize

LEMMA TypeInit == WriterInit => TypeOK /\ RoomForNext
<1> SUFFICES ASSUME WriterInit PROVE TypeOK /\ RoomForNext
  OBVIOUS
<1> USE WriterAssumption DEF WriterInit
<1>1. /\ call \in [Events -> CallStates]
      /\ stop \in StopStates
      /\ worker \in [Workers -> WorkerStates]
  BY DEF CallStates, StopStates, WorkerStates
<1>2. /\ chan \in [Pipes -> Seq(Events)]
      /\ \A p \in Pipes : Len(chan[p]) <= PipelineBufferSize
  OBVIOUS
<1>3. /\ batch \in [Workers -> Seq(Events)]
      /\ \A w \in Workers : Len(batch[w]) < BatchSize
  OBVIOUS
<1>4. /\ written \in [Pipes -> SUBSET Events]
      /\ dropped \in [Pipes -> SUBSET Events]
      /\ discarded \in [Pipes -> SUBSET Events]
      /\ spilled \in SUBSET Events
      /\ late \in [Pipes -> SUBSET Events]
  OBVIOUS
<1>5. \A w \in Workers : Len(batch[w]) <= BatchSize
  BY <1>3
<1> QED BY <1>1, <1>2, <1>3, <1>4, <1>5 DEF TypeOK, RoomForNext

\* A non-blocking send keeps the types of the channel and of what it drops.
LEMMA TrySendType ==
  ASSUME TypeOK, NEW p \in Pipes, NEW e \in Events, TrySend(p, e)
  PROVE  /\ chan' \in [Pipes -> Seq(Events)]
         /\ \A q \in Pipes : Len(chan'[q]) <= PipelineBufferSize
         /\ dropped' \in [Pipes -> SUBSET Events]
         /\ late' \in [Pipes -> SUBSET Events]
<1> USE WriterAssumption DEF TypeOK
<1>1. CASE Len(chan[p]) < PipelineBufferSize
  <2> DEFINE l == IF stopChanClosed THEN late[p] \cup {e} ELSE late[p]
  <2>1. /\ chan' = [chan EXCEPT ![p] = Append(chan[p], e)]
        /\ late' = [late EXCEPT ![p] = l]
        /\ dropped' = dropped
    BY <1>1 DEF TrySend
  <2>2. /\ Append(chan[p], e) \in Seq(Events)
        /\ Len(Append(chan[p], e)) = Len(chan[p]) + 1
        /\ Len(chan[p]) \in Nat
    BY SendLemma
  <2>3. Len(Append(chan[p], e)) <= PipelineBufferSize
    BY <1>1, <2>2
  <2>4. l \in SUBSET Events
    OBVIOUS
  <2> HIDE DEF l
  <2>5. late' \in [Pipes -> SUBSET Events]
    BY <2>1, <2>4
  <2>6. chan' \in [Pipes -> Seq(Events)]
    BY <2>1, <2>2
  <2>7. \A q \in Pipes : Len(chan'[q]) <= PipelineBufferSize
    BY <2>1, <2>3
  <2> QED BY <2>1, <2>5, <2>6, <2>7
<1>2. CASE ~(Len(chan[p]) < PipelineBufferSize)
  <2>1. /\ dropped' = [dropped EXCEPT ![p] = dropped[p] \cup {e}]
        /\ chan' = chan
        /\ late' = late
    BY <1>2 DEF TrySend
  <2>2. dropped[p] \cup {e} \in SUBSET Events
    OBVIOUS
  <2>3. dropped' \in [Pipes -> SUBSET Events]
    BY <2>1, <2>2
  <2> QED BY <2>1, <2>3
<1> QED BY <1>1, <1>2

\* Receive moves the head of the channel to the end of a batch with room for it.
LEMMA ReceiveType ==
  ASSUME TypeOK, RoomForNext, NEW w \in Workers, Receive(w)
  PROVE  TypeOK' /\ RoomForNext'
<1> DEFINE p == PipeOf(w)
<1> USE WriterAssumption
<1>1. p \in Pipes
  BY WorkerPipes
<1>2. /\ chan' = [chan EXCEPT ![p] = Tail(@)]
      /\ batch' = [batch EXCEPT ![w] = Append(@, Head(chan[p]))]
      /\ chan[p] # <<>>
      /\ worker[w] \in {"select", "drain"}
      /\ worker' = [worker EXCEPT ![w] =
                      IF Len(batch[w]) + 1 < BatchSize THEN @
                      ELSE IF @ = "select" THEN "flush" ELSE "drainFlush"]
      /\ UNCHANGED <<call, stop, written, dropped, discarded, spilled, late>>
  BY DEF Receive
<1>3. chan[p] \in Seq(Events) /\ Len(chan[p]) <= PipelineBufferSize
  BY <1>1 DEF TypeOK
<1>4. /\ Head(chan[p]) \in Events
      /\ Tail(chan[p]) \in Seq(Events)
      /\ Len(Tail(chan[p])) = Len(chan[p]) - 1
      /\ Len(chan[p]) \in Nat
  BY <1>2, <1>3, ReceiveLemma
<1>5. /\ chan' \in [Pipes -> Seq(Events)]
      /\ \A q \in Pipes : Len(chan'[q]) <= PipelineBufferSize
  BY <1>1, <1>2, <1>3, <1>4 DEF TypeOK
<1>6. /\ batch[w] \in Seq(Events)
      /\ Len(batch[w]) \in Nat
      /\ Append(batch[w], Head(chan[p])) \in Seq(Events)
      /\ Len(Append(batch[w], Head(chan[p]))) = Len(batch[w]) + 1
  BY <1>4, SendLemma DEF TypeOK
<1>7. Len(batch[w]) + 1 <= BatchSize
  BY <1>2, <1>6 DEF RoomForNext
<1>8. /\ batch' \in [Workers -> Seq(Events)]
      /\ \A v \in Workers : Len(batch'[v]) <= BatchSize
  BY <1>2, <1>6, <1>7 DEF TypeOK
<1>9. worker' \in [Workers -> WorkerStates]
  BY <1>2 DEF TypeOK, WorkerStates
<1>10. RoomForNext'
  <2> SUFFICES ASSUME NEW v \in Workers, worker'[v] \in {"select", "drain"}
               PROVE  Len(batch'[v]) < BatchSize
    BY DEF RoomForNext
  <2>1. CASE v = w
    <3>1. Len(batch[w]) + 1 < BatchSize
      BY <1>2, <2>1 DEF TypeOK
    <3> QED BY <1>2, <1>6, <2>1, <3>1 DEF TypeOK
  <2>2. CASE v # w
    BY <1>2, <2>2 DEF TypeOK, RoomForNext
  <2> QED BY <2>1, <2>2
<1> QED BY <1>2, <1>5, <1>8, <1>9, <1>10 DEF TypeOK

\* Flush empties a batch into the table or into what is discarded.
LEMMA FlushType ==
  ASSUME TypeOK, RoomForNext, NEW w \in Workers, Flush(w)
  PROVE  TypeOK' /\ RoomForNext'
<1> USE WriterAssumption
<1>1. /\ worker[w] \in {"flush", "drainFlush", "lastFlush"}
      /\ batch' = [batch EXCEPT ![w] = <<>>]
      /\ worker' = [worker EXCEPT ![w] = AfterFlush[@]]
      /\ UNCHANGED <<call, stop, chan, dropped, spilled, late>>
  BY DEF Flush, AfterFlush
<1>2. AfterFlush[worker[w]] \in {"select", "drain", "exited"}
  BY <1>1 DEF AfterFlush
<1>3. worker' \in [Workers -> WorkerStates]
  BY <1>1, <1>2 DEF TypeOK, WorkerStates
<1>4. Range(batch[w]) \subseteq Events
  BY DEF TypeOK, Range
<1>5. /\ written' \in [Pipes -> SUBSET Events]
      /\ discarded' \in [Pipes -> SUBSET Events]
  <2> DEFINE p == PipeOf(w)
  <2>1. p \in Pipes
    BY WorkerPipes
  <2>2. \/ /\ written' = [written EXCEPT ![p] = written[p] \cup Range(batch[w])]
           /\ discarded' = discarded
        \/ /\ discarded' = [discarded EXCEPT ![p] = discarded[p] \cup Range(batch[w])]
           /\ written' = written
    BY DEF Flush
  <2>3. /\ written \in [Pipes -> SUBSET Events]
        /\ discarded \in [Pipes -> SUBSET Events]
        /\ written[p] \cup Range(batch[w]) \in SUBSET Events
        /\ discarded[p] \cup Range(batch[w]) \in SUBSET Events
    BY <1>4, <2>1 DEF TypeOK
  <2> HIDE DEF p
  <2> QED BY <2>1, <2>2, <2>3
<1>6. /\ batch' \in [Workers -> Seq(Events)]
      /\ \A v \in Workers : Len(batch'[v]) <= BatchSize
  BY <1>1 DEF TypeOK
<1>7. RoomForNext'
  <2> SUFFICES ASSUME NEW v \in Workers, worker'[v] \in {"select", "drain"}
               PROVE  Len(batch'[v]) < BatchSize
    BY DEF RoomForNext
  <2>1. CASE v = w
    BY <1>1, <2>1 DEF TypeOK
  <2>2. CASE v # w
    BY <1>1, <2>2 DEF TypeOK, RoomForNext
  <2> QED BY <2>1, <2>2
<1> QED BY <1>1, <1>3, <1>5, <1>6, <1>7 DEF TypeOK

LEMMA TypeStep ==
  TypeOK /\ RoomForNext /\ [WriterNext]_writerVars => TypeOK' /\ RoomForNext'
<1> SUFFICES ASSUME TypeOK, RoomForNext, [WriterNext]_writerVars
             PROVE  TypeOK' /\ RoomForNext'
  OBVIOUS
<1> USE WriterAssumption DEF pipelineVars
<1>1. ASSUME NEW e \in Events, CheckStopping(e) PROVE TypeOK' /\ RoomForNext'
  BY <1>1 DEF CheckStopping, TypeOK, RoomForNext, CallStates
<1>2. ASSUME NEW e \in Events, SendOp(e) PROVE TypeOK' /\ RoomForNext'
  <2>1. TrySend("op", e) /\ "op" \in Pipes
    BY <1>2 DEF SendOp, Pipes
  <2>2. call' \in [Events -> CallStates]
    BY <1>2 DEF SendOp, TypeOK, CallStates
  <2>3. spilled' \in SUBSET Events
    BY <1>2 DEF SendOp, HandleSpillover, TypeOK
  <2> QED BY <1>2, <2>1, <2>2, <2>3, TrySendType DEF SendOp, TypeOK, RoomForNext
<1>3. ASSUME NEW e \in Events, SendAn(e) PROVE TypeOK' /\ RoomForNext'
  <2>1. TrySend("an", e) /\ "an" \in Pipes
    BY <1>3 DEF SendAn, Pipes
  <2>2. call' \in [Events -> CallStates]
    BY <1>3 DEF SendAn, TypeOK, CallStates
  <2> QED BY <1>3, <2>1, <2>2, TrySendType DEF SendAn, TypeOK, RoomForNext
<1>4. ASSUME NEW e \in Events, SyncOp(e) PROVE TypeOK' /\ RoomForNext'
  BY <1>4 DEF SyncOp, Insert, TypeOK, RoomForNext, CallStates, Pipes
<1>5. ASSUME NEW e \in Events, SyncAn(e) PROVE TypeOK' /\ RoomForNext'
  BY <1>5 DEF SyncAn, Insert, TypeOK, RoomForNext, CallStates, Pipes
<1>6. ASSUME NEW w \in Workers, Receive(w) PROVE TypeOK' /\ RoomForNext'
  BY <1>6, ReceiveType
<1>7. ASSUME NEW w \in Workers, Tick(w) PROVE TypeOK' /\ RoomForNext'
  BY <1>7 DEF Tick, TypeOK, RoomForNext, WorkerStates
<1>8. ASSUME NEW w \in Workers, SeeStop(w) PROVE TypeOK' /\ RoomForNext'
  BY <1>8 DEF SeeStop, TypeOK, RoomForNext, WorkerStates
<1>9. ASSUME NEW w \in Workers, DrainEmpty(w) PROVE TypeOK' /\ RoomForNext'
  BY <1>9 DEF DrainEmpty, TypeOK, RoomForNext, WorkerStates
<1>10. ASSUME NEW w \in Workers, Flush(w) PROVE TypeOK' /\ RoomForNext'
  BY <1>10, FlushType
<1>11. CASE RaiseFlag \/ StopStep
  BY <1>11 DEF RaiseFlag, StopStep, CloseStopChan, WaitForWorkers, TypeOK,
               RoomForNext, StopStates
<1>12. CASE UNCHANGED writerVars
  BY <1>12 DEF writerVars, TypeOK, RoomForNext
<1> QED BY <1>1, <1>2, <1>3, <1>4, <1>5, <1>6, <1>7, <1>8, <1>9, <1>10, <1>11,
           <1>12 DEF WriterNext, NewCall, CallStep, WorkerStep
-----------------------------------------------------------------------------
(* Conservation *)

\* A step that leaves a pipeline, and who was handed to it, as they are.
LEMMA UntouchedPipe ==
  ASSUME NEW p \in Pipes, ConservationAt(p),
         chan'[p] = chan[p],
         \A w \in WorkersOf(p) : batch'[w] = batch[w],
         written'[p] = written[p], dropped'[p] = dropped[p],
         discarded'[p] = discarded[p],
         Handed(p)' = Handed(p), SyncCalls' = SyncCalls
  PROVE  ConservationAt(p)'
<1>1. InPipe(p)' = InPipe(p)
  BY DEF InPipe
<1>2. \A w \in WorkersOf(p) : Range(batch'[w]) = Range(batch[w])
  OBVIOUS
<1>3. /\ Range(chan'[p]) = Range(chan[p])
      /\ IsInjective(chan'[p]) = IsInjective(chan[p])
      /\ \A w \in WorkersOf(p) : IsInjective(batch'[w]) = IsInjective(batch[w])
  OBVIOUS
<1> HIDE DEF Handed, SyncCalls, InPipe
<1> QED BY <1>1, <1>2, <1>3 DEF ConservationAt

\* A send puts an event that was nowhere in the pipeline in exactly one place.
LEMMA SendConserves ==
  ASSUME TypeOK, NEW p \in Pipes, NEW e \in Events, ConservationAt(p),
         TrySend(p, e), batch' = batch, written' = written,
         discarded' = discarded, e \notin Handed(p), e \notin SyncCalls,
         Handed(p)' = Handed(p) \cup {e}, SyncCalls' = SyncCalls
  PROVE  ConservationAt(p)'
<1>1. /\ e \notin InPipe(p)
      /\ e \notin written[p] \cup dropped[p] \cup discarded[p]
  BY DEF ConservationAt
<1>2. /\ e \notin Range(chan[p])
      /\ \A w \in WorkersOf(p) : e \notin Range(batch[w])
  BY <1>1 DEF InPipe
<1>3. CASE Len(chan[p]) < PipelineBufferSize
  <2>1. chan'[p] = Append(chan[p], e) /\ dropped' = dropped
    BY <1>3 DEF TrySend, TypeOK
  <2>2. chan[p] \in Seq(Events)
    BY DEF TypeOK
  <2>3. /\ Range(chan'[p]) = Range(chan[p]) \cup {e}
        /\ IsInjective(chan'[p])
    BY <1>2, <2>1, <2>2, SendLemma DEF ConservationAt
  <2>4. InPipe(p)' = InPipe(p) \cup {e}
    BY <2>3 DEF InPipe
  <2> HIDE DEF Handed, SyncCalls, InPipe
  <2>5. /\ Handed(p)' = (InPipe(p) \cup dropped[p] \cup discarded[p]
                           \cup (written[p] \ SyncCalls))'
        /\ (InPipe(p) \cap (written[p] \cup dropped[p] \cup discarded[p]) = {})'
    BY <1>1, <2>1, <2>4 DEF ConservationAt
  <2>6. \A w \in WorkersOf(p) : Range(batch'[w]) \cap Range(chan'[p]) = {}
    BY <1>2, <2>3 DEF ConservationAt
  <2> QED BY <2>1, <2>3, <2>5, <2>6 DEF ConservationAt
<1>4. CASE ~(Len(chan[p]) < PipelineBufferSize)
  <2>1. chan' = chan /\ dropped'[p] = dropped[p] \cup {e}
    BY <1>4 DEF TrySend, TypeOK
  <2>2. InPipe(p)' = InPipe(p)
    BY <2>1 DEF InPipe
  <2> HIDE DEF Handed, SyncCalls, InPipe
  <2>3. /\ Handed(p)' = (InPipe(p) \cup dropped[p] \cup discarded[p]
                           \cup (written[p] \ SyncCalls))'
        /\ (InPipe(p) \cap (written[p] \cup dropped[p] \cup discarded[p]) = {})'
        /\ (written[p] \cap (dropped[p] \cup discarded[p]) = {})'
        /\ (dropped[p] \cap discarded[p] = {})'
    BY <1>1, <2>1, <2>2 DEF ConservationAt
  <2> QED BY <2>1, <2>3 DEF ConservationAt
<1> QED BY <1>3, <1>4

\* An insert of the synchronous path stays clear of what the workers carry.
LEMMA InsertConserves ==
  ASSUME NEW p \in Pipes, NEW e \in Events, ConservationAt(p),
         UNCHANGED <<chan, batch, dropped, discarded>>,
         written'[p] \in {written[p], written[p] \cup {e}},
         e \notin Handed(p), Handed(p)' = Handed(p),
         SyncCalls' = SyncCalls \cup {e}
  PROVE  ConservationAt(p)'
<1>1. /\ e \notin InPipe(p) \cup dropped[p] \cup discarded[p]
      /\ e \notin written[p] \ SyncCalls
  BY DEF ConservationAt
<1>2. InPipe(p)' = InPipe(p)
  BY DEF InPipe
<1> HIDE DEF Handed, SyncCalls, InPipe
<1>3. /\ Handed(p)' = (InPipe(p) \cup dropped[p] \cup discarded[p]
                         \cup (written[p] \ SyncCalls))'
      /\ (InPipe(p) \cap (written[p] \cup dropped[p] \cup discarded[p]) = {})'
      /\ (written[p] \cap (dropped[p] \cup discarded[p]) = {})'
  BY <1>1, <1>2 DEF ConservationAt
<1> QED BY <1>3 DEF ConservationAt

\* Receiving moves an event from the channel to a batch that nobody else reads.
LEMMA ReceiveConserves ==
  ASSUME TypeOK, NEW w \in Workers, ConservationAt(PipeOf(w)), Receive(w)
  PROVE  ConservationAt(PipeOf(w))'
<1> DEFINE p == PipeOf(w)
           x == Head(chan[p])
<1>1. p \in Pipes /\ w \in WorkersOf(p) /\ WorkersOf(p) \subseteq Workers
  BY WorkerPipes, PipeWorkers
<1>2. /\ chan[p] # <<>>
      /\ chan'[p] = Tail(chan[p])
      /\ batch'[w] = Append(batch[w], x)
      /\ \A v \in WorkersOf(p) \ {w} : batch'[v] = batch[v]
      /\ UNCHANGED <<call, written, dropped, discarded>>
  BY <1>1 DEF Receive, TypeOK
<1>3. chan[p] \in Seq(Events) /\ batch[w] \in Seq(Events)
  BY <1>1 DEF TypeOK
<1>4. IsInjective(chan[p]) /\ IsInjective(batch[w])
  BY <1>1 DEF ConservationAt
<1>5. /\ x \in Events /\ x \in Range(chan[p])
      /\ Range(chan'[p]) = Range(chan[p]) \ {x}
      /\ IsInjective(chan'[p])
  BY <1>2, <1>3, <1>4, ReceiveLemma
<1>6. \A v \in WorkersOf(p) : x \notin Range(batch[v])
  BY <1>5 DEF ConservationAt
<1>7. /\ Range(batch'[w]) = Range(batch[w]) \cup {x}
      /\ IsInjective(batch'[w])
  BY <1>1, <1>2, <1>3, <1>4, <1>5, <1>6, SendLemma
<1>8. InPipe(p)' = InPipe(p)
  BY <1>1, <1>2, <1>5, <1>7 DEF InPipe
<1>9. Handed(p)' = Handed(p) /\ SyncCalls' = SyncCalls
  BY <1>2 DEF Handed, SyncCalls
<1> HIDE DEF x, p, Handed, SyncCalls, InPipe
<1>10. /\ Handed(p)' = (InPipe(p) \cup dropped[p] \cup discarded[p]
                          \cup (written[p] \ SyncCalls))'
       /\ (InPipe(p) \cap (written[p] \cup dropped[p] \cup discarded[p]) = {})'
       /\ (written[p] \cap (dropped[p] \cup discarded[p]) = {})'
       /\ (dropped[p] \cap discarded[p] = {})'
  BY <1>2, <1>8, <1>9 DEF ConservationAt, p
<1>11. ASSUME NEW v \in WorkersOf(p)
       PROVE  /\ IsInjective(batch'[v])
              /\ Range(batch'[v]) \cap Range(chan'[p]) = {}
              /\ \A u \in WorkersOf(p) \ {v} :
                   Range(batch'[v]) \cap Range(batch'[u]) = {}
  <2>1. \A u \in WorkersOf(p) :
          /\ IsInjective(batch[u])
          /\ Range(batch[u]) \cap Range(chan[p]) = {}
          /\ \A t \in WorkersOf(p) \ {u} : Range(batch[u]) \cap Range(batch[t]) = {}
    BY DEF ConservationAt, p
  <2>2. CASE v = w
    <3>1. batch'[v] = batch'[w] /\ \A u \in WorkersOf(p) \ {v} : batch'[u] = batch[u]
      BY <1>2, <2>2
    <3>2. \A u \in WorkersOf(p) \ {v} : Range(batch[w]) \cap Range(batch[u]) = {}
      BY <1>1, <2>1, <2>2
    <3>3. Range(batch'[w]) \cap Range(chan'[p]) = {}
      BY <1>1, <1>5, <1>7, <2>1
    <3> QED BY <1>6, <1>7, <3>1, <3>2, <3>3
  <2>3. CASE v # w
    <3>1. batch'[v] = batch[v]
      BY <1>2, <2>3
    <3>2. Range(batch'[v]) \cap Range(chan'[p]) = {}
      BY <1>5, <2>1, <3>1
    <3>3. ASSUME NEW u \in WorkersOf(p) \ {v}
          PROVE  Range(batch'[v]) \cap Range(batch'[u]) = {}
      <4>1. CASE u = w
        <5>1. Range(batch[v]) \cap Range(batch[w]) = {}
          BY <2>1, <4>1
        <5> QED BY <1>6, <1>7, <3>1, <4>1, <5>1
      <4>2. CASE u # w
        BY <1>2, <2>1, <3>1, <4>2
      <4> QED BY <4>1, <4>2
    <3> QED BY <2>1, <3>1, <3>2, <3>3
  <2> QED BY <2>2, <2>3
<1> QED BY <1>5, <1>10, <1>11 DEF ConservationAt, p

\* Flushing takes one batch out of the pipeline, all of it to the same place.
LEMMA FlushConserves ==
  ASSUME TypeOK, NEW w \in Workers, ConservationAt(PipeOf(w)), Flush(w)
  PROVE  ConservationAt(PipeOf(w))'
<1> DEFINE p == PipeOf(w)
           B == Range(batch[w])
<1>1. p \in Pipes /\ w \in WorkersOf(p) /\ WorkersOf(p) \subseteq Workers
  BY WorkerPipes, PipeWorkers
<1>2. /\ batch'[w] = <<>>
      /\ \A v \in WorkersOf(p) \ {w} : batch'[v] = batch[v]
      /\ UNCHANGED <<call, chan, dropped>>
  BY <1>1 DEF Flush, TypeOK
<1>3. \/ written'[p] = written[p] \cup B /\ discarded'[p] = discarded[p]
      \/ discarded'[p] = discarded[p] \cup B /\ written'[p] = written[p]
  BY <1>1 DEF Flush, TypeOK
<1>4. Range(batch'[w]) = {} /\ IsInjective(batch'[w])
  BY <1>2, EmptyLemma
<1>5. /\ InPipe(p)' = InPipe(p) \ B
      /\ B \subseteq InPipe(p)
  <2>1. /\ B \cap Range(chan[p]) = {}
        /\ \A v \in WorkersOf(p) \ {w} : B \cap Range(batch[v]) = {}
    BY <1>1 DEF ConservationAt
  <2> QED BY <1>1, <1>2, <1>4, <2>1 DEF InPipe
<1>6. Handed(p)' = Handed(p) /\ SyncCalls' = SyncCalls
  BY <1>2 DEF Handed, SyncCalls
<1>7. B \cap SyncCalls = {}
  <2>1. InPipe(p) \subseteq Handed(p)
    BY DEF ConservationAt
  <2>2. Handed(p) \cap SyncCalls = {}
    BY DEF Handed, SyncCalls
  <2> QED BY <1>5, <2>1, <2>2
<1> HIDE DEF B, p, Handed, SyncCalls, InPipe
<1>8. /\ Handed(p)' = (InPipe(p) \cup dropped[p] \cup discarded[p]
                         \cup (written[p] \ SyncCalls))'
      /\ (InPipe(p) \cap (written[p] \cup dropped[p] \cup discarded[p]) = {})'
      /\ (written[p] \cap (dropped[p] \cup discarded[p]) = {})'
      /\ (dropped[p] \cap discarded[p] = {})'
  <2> USE DEF ConservationAt
  <2>1. CASE written'[p] = written[p] \cup B /\ discarded'[p] = discarded[p]
    BY <1>2, <1>5, <1>6, <1>7, <2>1 DEF p
  <2>2. CASE discarded'[p] = discarded[p] \cup B /\ written'[p] = written[p]
    BY <1>2, <1>5, <1>6, <1>7, <2>2 DEF p
  <2> QED BY <1>3, <2>1, <2>2
<1>9. ASSUME NEW v \in WorkersOf(p)
      PROVE  /\ IsInjective(batch'[v])
             /\ Range(batch'[v]) \cap Range(chan'[p]) = {}
             /\ \A u \in WorkersOf(p) \ {v} :
                  Range(batch'[v]) \cap Range(batch'[u]) = {}
  <2>1. CASE v = w
    <3>1. batch'[v] = batch'[w]
      BY <2>1
    <3> QED BY <1>4, <3>1
  <2>2. CASE v # w
    <3>1. batch'[v] = batch[v] /\ chan' = chan
      BY <1>2, <2>2
    <3>2. /\ IsInjective(batch[v])
          /\ Range(batch[v]) \cap Range(chan[p]) = {}
          /\ \A u \in WorkersOf(p) \ {v} : Range(batch[v]) \cap Range(batch[u]) = {}
      BY DEF ConservationAt, p
    <3>3. \A u \in WorkersOf(p) \ {v} :
            Range(batch'[u]) = {} \/ Range(batch'[u]) = Range(batch[u])
      BY <1>2, <1>4
    <3> QED BY <3>1, <3>2, <3>3
  <2> QED BY <2>1, <2>2
<1> QED BY <1>2, <1>8, <1>9 DEF ConservationAt, p
LEMMA ConservationInit == WriterInit => Conservation
<1> SUFFICES ASSUME WriterInit, NEW p \in Pipes PROVE ConservationAt(p)
  BY DEF Conservation
<1>1. /\ chan[p] = <<>>
      /\ \A w \in WorkersOf(p) : batch[w] = <<>>
      /\ written[p] = {} /\ dropped[p] = {} /\ discarded[p] = {}
  BY PipeWorkers DEF WriterInit
<1>2. InPipe(p) = {}
  BY <1>1, EmptyLemma DEF InPipe
<1>3. Handed(p) = {}
  BY DEF WriterInit, Handed
<1> QED BY <1>1, <1>2, <1>3, EmptyLemma DEF ConservationAt

\* What each step of a call does to the sets of events that are past a pipeline.
LEMMA CallEffects ==
  ASSUME TypeOK, NEW e \in Events, NEW p \in Pipes
  PROVE  /\ CheckStopping(e) => Handed(p)' = Handed(p) /\ SyncCalls' = SyncCalls
         /\ SendOp(e) => /\ Handed("op")' = Handed("op") \cup {e}
                         /\ Handed("an")' = Handed("an")
                         /\ SyncCalls' = SyncCalls
                         /\ e \notin Handed("op") /\ e \notin SyncCalls
         /\ SendAn(e) => /\ Handed("an")' = Handed("an") \cup {e}
                         /\ Handed("op")' = Handed("op")
                         /\ SyncCalls' = SyncCalls
                         /\ e \notin Handed("an") /\ e \notin SyncCalls
         /\ SyncOp(e) \/ SyncAn(e) => /\ Handed(p)' = Handed(p)
                                      /\ SyncCalls' = SyncCalls \cup {e}
                                      /\ e \notin Handed(p)
<1> USE DEF Handed, SyncCalls, TypeOK
<1>1. CheckStopping(e) => Handed(p)' = Handed(p) /\ SyncCalls' = SyncCalls
  BY DEF CheckStopping, Enter
<1>2. SendOp(e) => /\ Handed("op")' = Handed("op") \cup {e}
                   /\ Handed("an")' = Handed("an")
                   /\ SyncCalls' = SyncCalls
                   /\ e \notin Handed("op") /\ e \notin SyncCalls
  BY DEF SendOp
<1>3. SendAn(e) => /\ Handed("an")' = Handed("an") \cup {e}
                   /\ Handed("op")' = Handed("op")
                   /\ SyncCalls' = SyncCalls
                   /\ e \notin Handed("an") /\ e \notin SyncCalls
  BY DEF SendAn
<1>4. SyncOp(e) \/ SyncAn(e) => /\ call[e] \in {"new", "sync"}
                                /\ \/ call' = [call EXCEPT ![e] = "sync"]
                                   \/ call' = [call EXCEPT ![e] = "saved"]
                                   \/ call' = [call EXCEPT ![e] = "failed"]
  BY DEF SyncOp, SyncAn, Enter, Insert
<1>5. SyncOp(e) \/ SyncAn(e) => /\ Handed(p)' = Handed(p)
                                /\ SyncCalls' = SyncCalls \cup {e}
                                /\ e \notin Handed(p)
  BY <1>4
<1> QED BY <1>1, <1>2, <1>3, <1>5

\* Every step keeps every event in exactly one place.
LEMMA ConservationStep ==
  TypeOK /\ Conservation /\ [WriterNext]_writerVars => Conservation'
<1> SUFFICES ASSUME TypeOK, Conservation, [WriterNext]_writerVars,
                    NEW p \in Pipes
             PROVE  ConservationAt(p)'
  BY DEF Conservation
<1>0. ConservationAt(p) /\ WorkersOf(p) \subseteq Workers
  BY PipeWorkers DEF Conservation
<1> USE DEF pipelineVars
<1>1. ASSUME NEW e \in Events, CheckStopping(e) PROVE ConservationAt(p)'
  BY <1>0, <1>1, CallEffects, UntouchedPipe DEF CheckStopping
<1>2. ASSUME NEW e \in Events, SendOp(e) PROVE ConservationAt(p)'
  <2>0. /\ TrySend("op", e)
        /\ UNCHANGED <<stop, worker, batch, written, discarded>>
    BY <1>2 DEF SendOp
  <2>1. CASE p = "op"
    BY <1>0, <1>2, <2>0, <2>1, CallEffects, SendConserves
  <2>2. CASE p = "an"
    <3>1. chan'[p] = chan[p] /\ dropped'[p] = dropped[p]
      BY <2>0, <2>2 DEF TrySend, TypeOK, Pipes
    <3> QED BY <1>0, <1>2, <2>0, <2>2, <3>1, CallEffects, UntouchedPipe
  <2> QED BY <2>1, <2>2 DEF Pipes
<1>3. ASSUME NEW e \in Events, SendAn(e) PROVE ConservationAt(p)'
  <2>0. /\ TrySend("an", e)
        /\ UNCHANGED <<stop, worker, batch, written, discarded>>
    BY <1>3 DEF SendAn
  <2>1. CASE p = "an"
    BY <1>0, <1>3, <2>0, <2>1, CallEffects, SendConserves
  <2>2. CASE p = "op"
    <3>1. chan'[p] = chan[p] /\ dropped'[p] = dropped[p]
      BY <2>0, <2>2 DEF TrySend, TypeOK, Pipes
    <3> QED BY <1>0, <1>3, <2>0, <2>2, <3>1, CallEffects, UntouchedPipe
  <2> QED BY <2>1, <2>2 DEF Pipes
<1>4. ASSUME NEW e \in Events, SyncOp(e) \/ SyncAn(e) PROVE ConservationAt(p)'
  <2>1. /\ UNCHANGED <<chan, batch, dropped, discarded>>
        /\ written'[p] \in {written[p], written[p] \cup {e}}
    BY <1>4 DEF SyncOp, SyncAn, Insert, TypeOK, Pipes
  <2> QED BY <1>0, <1>4, <2>1, CallEffects, InsertConserves
<1>5. ASSUME NEW w \in Workers, Receive(w) \/ Flush(w) PROVE ConservationAt(p)'
  <2>1. CASE p = PipeOf(w)
    BY <1>0, <1>5, <2>1, ReceiveConserves, FlushConserves
  <2>2. CASE p # PipeOf(w)
    <3>1. w \notin WorkersOf(p)
      BY <2>2, WorkerPipes
    <3>2. UNCHANGED <<call, chan[p], written[p], dropped[p], discarded[p]>>
      BY <1>5, <2>2 DEF Receive, Flush, TypeOK
    <3>3. \A v \in WorkersOf(p) : batch'[v] = batch[v]
      BY <1>0, <1>5, <3>1 DEF Receive, Flush, TypeOK
    <3>4. Handed(p)' = Handed(p) /\ SyncCalls' = SyncCalls
      BY <3>2 DEF Handed, SyncCalls
    <3> QED BY <1>0, <3>2, <3>3, <3>4, UntouchedPipe
  <2> QED BY <2>1, <2>2
<1>6. CASE \/ \E w \in Workers : Tick(w) \/ SeeStop(w) \/ DrainEmpty(w)
           \/ RaiseFlag \/ StopStep
           \/ UNCHANGED writerVars
  <2>1. UNCHANGED <<call, chan, batch, written, dropped, discarded>>
    BY <1>6 DEF Tick, SeeStop, DrainEmpty, RaiseFlag, StopStep, CloseStopChan,
                WaitForWorkers, writerVars
  <2>2. Handed(p)' = Handed(p) /\ SyncCalls' = SyncCalls
    BY <2>1 DEF Handed, SyncCalls
  <2> QED BY <1>0, <2>1, <2>2, UntouchedPipe
<1> QED BY <1>1, <1>2, <1>3, <1>4, <1>5, <1>6
        DEF WriterNext, NewCall, CallStep, WorkerStep

-----------------------------------------------------------------------------
(* Shutdown *)

LEMMA DrainedInit == WriterInit => Drained
BY DEF WriterInit, Drained, stopChanClosed

\* A send after the workers have gone is a late one.
LEMMA SendDrained ==
  ASSUME TypeOK, Drained, NEW p \in Pipes, NEW e \in Events, TrySend(p, e),
         UNCHANGED <<stop, worker, batch>>
  PROVE  Drained'
<1>1. ASSUME NEW q \in Pipes, stopChanClosed,
             Range(chan[q]) \subseteq late[q]
      PROVE  Range(chan'[q]) \subseteq late'[q]
  <2>1. CASE q = p /\ Len(chan[p]) < PipelineBufferSize
    <3>1. /\ chan'[q] = Append(chan[q], e)
          /\ late'[q] = late[q] \cup {e}
      BY <1>1, <2>1 DEF TrySend, TypeOK
    <3>2. Range(chan'[q]) = Range(chan[q]) \cup {e}
      BY <3>1, SendLemma DEF TypeOK
    <3> QED BY <1>1, <3>1, <3>2
  <2>2. CASE ~(q = p /\ Len(chan[p]) < PipelineBufferSize)
    <3>1. chan'[q] = chan[q] /\ late'[q] = late[q]
      BY <2>2 DEF TrySend, TypeOK
    <3> QED BY <1>1, <3>1
  <2> QED BY <2>1, <2>2
<1>2. \A w \in Workers : PipeOf(w) \in Pipes
  BY WorkerPipes
<1> QED BY <1>1, <1>2 DEF Drained, stopChanClosed

LEMMA DrainedStep ==
  TypeOK /\ Drained /\ [WriterNext]_writerVars => Drained'
<1> SUFFICES ASSUME TypeOK, Drained, [WriterNext]_writerVars PROVE Drained'
  OBVIOUS
<1> USE DEF pipelineVars
<1>1. ASSUME NEW e \in Events,
             CheckStopping(e) \/ SyncOp(e) \/ SyncAn(e)
      PROVE  Drained'
  <2>1. UNCHANGED <<stop, chan, worker, batch, late>>
    BY <1>1 DEF CheckStopping, SyncOp, SyncAn, Insert
  <2> QED BY <2>1 DEF Drained, stopChanClosed
<1>2. ASSUME NEW e \in Events, SendOp(e) \/ SendAn(e) PROVE Drained'
  BY <1>2, SendDrained DEF SendOp, SendAn, Pipes
<1>3. ASSUME NEW w \in Workers, Receive(w) PROVE Drained'
  <2> DEFINE p == PipeOf(w)
  <2>1. /\ p \in Pipes /\ chan[p] # <<>> /\ chan[p] \in Seq(Events)
        /\ worker[w] \in {"select", "drain"}
        /\ worker'[w] \in {"select", "flush", "drain", "drainFlush"}
        /\ worker'[w] \in {"drain", "drainFlush"} => worker[w] = "drain"
        /\ \A v \in Workers \ {w} : worker'[v] = worker[v] /\ batch'[v] = batch[v]
        /\ UNCHANGED <<stop, late>>
    BY <1>3, WorkerPipes DEF Receive, TypeOK
  <2>2. \A q \in Pipes : Range(chan'[q]) \subseteq Range(chan[q])
    <3>1. Range(Tail(chan[p])) \subseteq Range(chan[p])
      BY <2>1, ReceiveLemma
    <3>2. chan' = [chan EXCEPT ![p] = Tail(chan[p])]
      BY <1>3 DEF Receive
    <3> QED BY <3>1, <3>2 DEF TypeOK
  <2>3. \A v \in Workers : PipeOf(v) \in Pipes
    BY WorkerPipes
  <2> HIDE DEF p
  <2>4. \A v \in Workers :
          worker'[v] \in {"drain", "drainFlush", "lastFlush", "exited"}
            => stopChanClosed'
    BY <2>1 DEF Drained, stopChanClosed
  <2>5. \A v \in Workers : worker'[v] = "exited" =>
          /\ batch'[v] = <<>>
          /\ Range(chan'[PipeOf(v)]) \subseteq late'[PipeOf(v)]
    BY <2>1, <2>2, <2>3 DEF Drained
  <2>6. \A v \in Workers : worker'[v] = "lastFlush" =>
          Range(chan'[PipeOf(v)]) \subseteq late'[PipeOf(v)]
    BY <2>1, <2>2, <2>3 DEF Drained
  <2>7. stop' # "stopped"
    BY <2>1 DEF Drained
  <2> QED BY <2>4, <2>5, <2>6, <2>7 DEF Drained
<1>4. ASSUME NEW w \in Workers, Tick(w) \/ SeeStop(w) PROVE Drained'
  BY <1>4 DEF Tick, SeeStop, Drained, stopChanClosed, TypeOK
<1>5. ASSUME NEW w \in Workers, DrainEmpty(w) PROVE Drained'
  <2>1. Range(chan[PipeOf(w)]) = {}
    BY <1>5, EmptyLemma DEF DrainEmpty
  <2> QED BY <1>5, <2>1 DEF DrainEmpty, Drained, stopChanClosed, TypeOK
<1>6. ASSUME NEW w \in Workers, Flush(w) PROVE Drained'
  <2>1. /\ batch'[w] = <<>>
        /\ worker[w] \in {"flush", "drainFlush", "lastFlush"}
        /\ worker'[w] = AfterFlush[worker[w]]
        /\ \A v \in Workers \ {w} : worker'[v] = worker[v] /\ batch'[v] = batch[v]
        /\ UNCHANGED <<stop, chan, late>>
    BY <1>6 DEF Flush, AfterFlush, TypeOK
  <2> QED BY <2>1 DEF Drained, stopChanClosed, AfterFlush
<1>7. CASE RaiseFlag \/ StopStep
  BY <1>7 DEF RaiseFlag, StopStep, CloseStopChan, WaitForWorkers, Drained,
              stopChanClosed
<1>8. CASE UNCHANGED writerVars
  BY <1>8 DEF writerVars, Drained, stopChanClosed
<1> QED BY <1>1, <1>2, <1>3, <1>4, <1>5, <1>6, <1>7, <1>8
        DEF WriterNext, NewCall, CallStep, WorkerStep

-----------------------------------------------------------------------------
(* The synchronous path *)

\* Between its two inserts, SaveEvent has put its event in the operational table.
SyncOrder ==
  /\ SyncOperationalFirst
  /\ \A e \in Events : call[e] = "sync" => e \in written["op"]

LEMMA SyncOrderStep ==
  TypeOK /\ Conservation /\ SyncOrder /\ [WriterNext]_writerVars => SyncOrder'
<1> SUFFICES ASSUME TypeOK, Conservation, SyncOrder, [WriterNext]_writerVars
             PROVE  SyncOrder'
  OBVIOUS
<1> USE DEF pipelineVars
<1>1. ASSUME NEW e \in Events, CheckStopping(e) \/ SendOp(e) \/ SendAn(e)
      PROVE  SyncOrder'
  <2>1. /\ written' = written
        /\ \A f \in Events \ {e} : call'[f] = call[f]
        /\ call'[e] \in {"op", "an", "rejected", "accepted"}
    BY <1>1 DEF CheckStopping, SendOp, SendAn, TypeOK
  <2> QED BY <2>1 DEF SyncOrder, SyncOperationalFirst, SyncCalls
<1>2. ASSUME NEW e \in Events, SyncOp(e) PROVE SyncOrder'
  <2>1. e \notin written["an"]
    <3>1. e \notin Handed("an") /\ e \notin SyncCalls
      BY <1>2 DEF SyncOp, Enter, Handed, SyncCalls
    <3> QED BY <3>1 DEF Conservation, ConservationAt, Pipes
  <2>2. /\ written'["an"] = written["an"]
        /\ written["op"] \subseteq written'["op"]
        /\ \A f \in Events \ {e} : call'[f] = call[f]
        /\ call'[e] \in {"sync", "failed"}
        /\ call'[e] = "sync" => e \in written'["op"]
    BY <1>2 DEF SyncOp, Insert, TypeOK, Pipes
  <2> QED BY <2>1, <2>2 DEF SyncOrder, SyncOperationalFirst, SyncCalls
<1>3. ASSUME NEW e \in Events, SyncAn(e) PROVE SyncOrder'
  <2>1. e \in written["op"]
    BY <1>3 DEF SyncAn, SyncOrder
  <2>2. /\ written'["op"] = written["op"]
        /\ written["an"] \subseteq written'["an"]
        /\ written'["an"] \subseteq written["an"] \cup {e}
        /\ \A f \in Events \ {e} : call'[f] = call[f]
        /\ call'[e] \in {"saved", "failed"}
        /\ call'[e] = "saved" => e \in written'["an"]
    BY <1>3 DEF SyncAn, Insert, TypeOK, Pipes
  <2> QED BY <2>1, <2>2 DEF SyncOrder, SyncOperationalFirst, SyncCalls
<1>4. ASSUME NEW w \in Workers, Flush(w) PROVE SyncOrder'
  <2> DEFINE p == PipeOf(w)
             B == Range(batch[w])
  <2>1. p \in Pipes /\ w \in WorkersOf(p)
    BY WorkerPipes
  <2>2. B \subseteq Handed(p)
    BY <2>1 DEF Conservation, ConservationAt, InPipe
  <2>3. B \cap SyncCalls = {}
    BY <2>2 DEF Handed, SyncCalls
  <2>4. /\ \A q \in Pipes : /\ written[q] \subseteq written'[q]
                            /\ written'[q] \subseteq written[q] \cup B
        /\ call' = call
    BY <1>4 DEF Flush, TypeOK
  <2> HIDE DEF B
  <2> QED BY <2>3, <2>4 DEF SyncOrder, SyncOperationalFirst, SyncCalls, Pipes
<1>5. CASE \/ \E w \in Workers : \/ Receive(w) \/ Tick(w) \/ SeeStop(w)
                                 \/ DrainEmpty(w)
           \/ RaiseFlag \/ StopStep
           \/ UNCHANGED writerVars
  <2>1. UNCHANGED <<call, written>>
    BY <1>5 DEF Receive, Tick, SeeStop, DrainEmpty, RaiseFlag, StopStep,
                CloseStopChan, WaitForWorkers, writerVars
  <2> QED BY <2>1 DEF SyncOrder, SyncOperationalFirst, SyncCalls
<1> QED BY <1>1, <1>2, <1>3, <1>4, <1>5
        DEF WriterNext, NewCall, CallStep, WorkerStep

-----------------------------------------------------------------------------
\* The inductive invariant: each part keeps itself, the last with Conservation.
WriterInv == /\ TypeOK /\ RoomForNext
             /\ Conservation
             /\ Drained
             /\ SyncOrder

\* Every reachable state satisfies the inductive invariant.
THEOREM WriterInvariant == WriterSpec => []WriterInv
<1>1. WriterInit => WriterInv
  <2>1. WriterInit => SyncOrder
    BY DEF WriterInit, SyncOrder, SyncOperationalFirst, SyncCalls, Pipes
  <2> QED BY <2>1, TypeInit, ConservationInit, DrainedInit DEF WriterInv
<1>2. WriterInv /\ [WriterNext]_writerVars => WriterInv'
  BY TypeStep, ConservationStep, DrainedStep, SyncOrderStep DEF WriterInv
<1> QED BY <1>1, <1>2, PTL DEF WriterSpec

\* The channels and the batches never exceed their bounds: TypeOK holds for any
\* numbers of workers, callers and buffer slots.
THEOREM WriterTypeCorrect == WriterSpec => []TypeOK
<1>1. WriterInv => TypeOK
  BY DEF WriterInv
<1> QED BY <1>1, WriterInvariant, PTL

\* No event is lost silently or written twice by the workers (Conservation).
THEOREM EventsConserved == WriterSpec => []Conservation
<1>1. WriterInv => Conservation
  BY DEF WriterInv
<1> QED BY <1>1, WriterInvariant, PTL

\* After Stop only events enqueued after stopChan was closed are left behind.
THEOREM OnlyLateEventsStranded == WriterSpec => []StrandedOnlyByRace
<1>1. WriterInv => StrandedOnlyByRace
  <2> SUFFICES ASSUME WriterInv, stop = "stopped"
               PROVE  /\ \A p \in Pipes : Range(chan[p]) \subseteq late[p]
                      /\ \A w \in Workers : batch[w] = <<>>
    BY DEF StrandedOnlyByRace
  <2>1. \A w \in Workers : worker[w] = "exited"
    BY DEF WriterInv, Drained
  <2>2. ASSUME NEW p \in Pipes PROVE Range(chan[p]) \subseteq late[p]
    <3>1. PICK w \in WorkersOf(p) : TRUE
      BY PipeWorkers
    <3>2. w \in Workers /\ PipeOf(w) = p
      BY <3>1, PipeWorkers, WorkerPipes
    <3> QED BY <2>1, <3>2 DEF WriterInv, Drained
  <2> QED BY <2>1, <2>2 DEF WriterInv, Drained
<1> QED BY <1>1, WriterInvariant, PTL

\* Whatever fails, SaveEvent leaves no analytical row without its operational one.
THEOREM SaveEventOrder == WriterSpec => []SyncOperationalFirst
<1>1. WriterInv => SyncOperationalFirst
  BY DEF WriterInv, SyncOrder
<1> QED BY <1>1, WriterInvariant, PTL

\* No worker writes a row once Stop has returned and the database may be closed.
THEOREM QuietAfterStop == WriterSpec => NoFlushAfterStop
<1>1. WriterInv /\ [WriterNext]_writerVars =>
        [stop = "stopped" =>
           \A p \in Pipes : written'[p] \subseteq written[p] \cup SyncCalls']_writerVars
  <2> SUFFICES ASSUME WriterInv, WriterNext, stop = "stopped", NEW p \in Pipes
               PROVE  written'[p] \subseteq written[p] \cup SyncCalls'
    BY DEF writerVars
  <2> USE DEF pipelineVars
  <2>1. TypeOK /\ \A w \in Workers : worker[w] = "exited"
    BY DEF WriterInv, Drained
  <2>2. ASSUME NEW e \in Events, NewCall(e) \/ CallStep(e)
        PROVE  written'[p] \subseteq written[p] \cup SyncCalls'
    <3>1. CASE SyncOp(e) \/ SyncAn(e)
      <4>1. written'[p] \subseteq written[p] \cup {e}
        BY <2>1, <3>1 DEF SyncOp, SyncAn, Insert, TypeOK
      <4>2. e \in SyncCalls'
        BY <2>1, <3>1, CallEffects
      <4> QED BY <4>1, <4>2
    <3>2. CASE ~(SyncOp(e) \/ SyncAn(e))
      BY <2>2, <3>2 DEF NewCall, CallStep, CheckStopping, SendOp, SendAn
    <3> QED BY <3>1, <3>2
  <2>3. ASSUME NEW w \in Workers, WorkerStep(w)
        PROVE  written'[p] \subseteq written[p] \cup SyncCalls'
    BY <2>1, <2>3 DEF WorkerStep, Receive, Tick, SeeStop, DrainEmpty, Flush,
                      AfterFlush
  <2>4. CASE RaiseFlag \/ StopStep
    BY <2>4 DEF RaiseFlag, StopStep, CloseStopChan, WaitForWorkers
  <2> QED BY <2>2, <2>3, <2>4 DEF WriterNext
<1> QED BY <1>1, WriterInvariant, PTL DEF WriterSpec, NoFlushAfterStop

-----------------------------------------------------------------------------
(* What takes counting *)

\* The elements of a sequence are no more than its length.
LEMMA RangeBound ==
  ASSUME NEW S, NEW s \in Seq(S)
  PROVE  /\ IsFiniteSet(Range(s))
         /\ Cardinality(Range(s)) <= Len(s)
<1>1. /\ DOMAIN s = 1 .. Len(s)
      /\ Len(s) \in Nat
      /\ s = [i \in 1 .. Len(s) |-> s[i]]
  OBVIOUS
<1>2. s \in Surjection(1 .. Len(s), Range(s))
  BY <1>1 DEF Surjection, Range
<1>3. /\ IsFiniteSet(1 .. Len(s))
      /\ Cardinality(1 .. Len(s)) = Len(s)
  <2>1. 1 \in Int /\ Len(s) \in Int /\ (1 > Len(s) => Len(s) = 0)
    BY <1>1
  <2> HIDE DEF Cardinality
  <2> QED BY <2>1, FS_Interval
<1> QED BY <1>2, <1>3, FS_Surjection

-----------------------------------------------------------------------------
(* Refinement *)

\* The sink of either pipeline: OpSink and AnSink are its two instances.
Sink(p) == INSTANCE EventSink WITH
             pending <- InPipe(p),
             stored <- written[p],
             lost <- dropped[p] \cup discarded[p]

\* An event that no call has carried past the pipeline is unknown to the sink.
LEMMA UnknownToSink ==
  ASSUME NEW p \in Pipes, ConservationAt(p), NEW e \in Events, e \notin Handed(p)
  PROVE  /\ e \notin InPipe(p) \cup dropped[p] \cup discarded[p]
         /\ e \in written[p] => e \in SyncCalls
BY DEF ConservationAt

\* A send is Take when the channel has room and TurnAway when it is full.
LEMMA SendIsSinkStep ==
  ASSUME TypeOK, NEW p \in Pipes, ConservationAt(p), NEW e \in Events,
         TrySend(p, e), e \notin Handed(p), e \notin SyncCalls,
         UNCHANGED <<batch, written, discarded>>
  PROVE  Sink(p)!Take(e) \/ Sink(p)!TurnAway(e)
<1>1. e \notin Sink(p)!Known
  BY UnknownToSink DEF Sink!Known
<1>2. CASE Len(chan[p]) < PipelineBufferSize
  <2>1. chan'[p] = Append(chan[p], e) /\ dropped' = dropped
    BY <1>2 DEF TrySend, TypeOK
  <2>2. Range(chan'[p]) = Range(chan[p]) \cup {e}
    BY <2>1, SendLemma DEF TypeOK
  <2>3. InPipe(p)' = InPipe(p) \cup {e}
    BY <2>2 DEF InPipe
  <2> QED BY <1>1, <2>1, <2>3 DEF Sink!Take
<1>3. CASE ~(Len(chan[p]) < PipelineBufferSize)
  <2>1. chan' = chan /\ dropped'[p] = dropped[p] \cup {e}
    BY <1>3 DEF TrySend, TypeOK
  <2>2. InPipe(p)' = InPipe(p)
    BY <2>1 DEF InPipe
  <2> QED BY <1>1, <2>1, <2>2 DEF Sink!TurnAway
<1> QED BY <1>2, <1>3

\* A flush is Settle, of no more than BatchSize events, or changes nothing.
LEMMA FlushIsSinkStep ==
  ASSUME TypeOK, NEW w \in Workers, ConservationAt(PipeOf(w)), Flush(w)
  PROVE  \/ \E B \in Batches : Sink(PipeOf(w))!Settle(B)
         \/ UNCHANGED Sink(PipeOf(w))!sinkVars
<1> DEFINE p == PipeOf(w)
           B == Range(batch[w])
<1>1. p \in Pipes /\ w \in WorkersOf(p) /\ WorkersOf(p) \subseteq Workers
  BY WorkerPipes, PipeWorkers
<1>2. B \in Batches
  <2>1. batch[w] \in Seq(Events) /\ Len(batch[w]) <= BatchSize
    BY DEF TypeOK
  <2>2. Cardinality(B) \in Nat /\ Len(batch[w]) \in Nat /\ BatchSize \in Nat
    BY <2>1, RangeBound, FS_CardinalityType, WriterAssumption
  <2>3. Cardinality(B) <= Len(batch[w])
    BY <2>1, RangeBound
  <2>4. Cardinality(B) <= BatchSize
    BY <2>1, <2>2, <2>3
  <2>5. B \subseteq Events
    BY <2>1 DEF Range
  <2> QED BY <2>4, <2>5 DEF Batches
<1>3. /\ batch'[w] = <<>>
      /\ \A v \in WorkersOf(p) \ {w} : batch'[v] = batch[v]
      /\ UNCHANGED <<call, chan, dropped>>
  BY <1>1 DEF Flush, TypeOK
<1>4. \/ written'[p] = written[p] \cup B /\ discarded'[p] = discarded[p]
      \/ discarded'[p] = discarded[p] \cup B /\ written'[p] = written[p]
  BY <1>1 DEF Flush, TypeOK
<1>5. /\ InPipe(p)' = InPipe(p) \ B
      /\ B \subseteq InPipe(p)
  <2>1. /\ B \cap Range(chan[p]) = {}
        /\ \A v \in WorkersOf(p) \ {w} : B \cap Range(batch[v]) = {}
    BY <1>1 DEF ConservationAt
  <2>2. Range(batch'[w]) = {}
    BY <1>3, EmptyLemma
  <2> QED BY <1>1, <1>3, <2>1, <2>2 DEF InPipe
<1> HIDE DEF B, p
<1>6. CASE B = {}
  <2>1. /\ InPipe(p)' = InPipe(p)
        /\ written'[p] = written[p]
        /\ (dropped[p] \cup discarded[p])' = dropped[p] \cup discarded[p]
    BY <1>3, <1>4, <1>5, <1>6
  <2> QED BY <2>1 DEF Sink!sinkVars, p
<1>7. CASE B # {}
  <2>1. Sink(p)!Settle(B)
    BY <1>3, <1>4, <1>5, <1>2, <1>7 DEF Sink!Settle
  <2> QED BY <1>2, <2>1 DEF p
<1> QED BY <1>6, <1>7

\* A step that moves no event of the pipeline does not show in the sink.
LEMMA UntouchedSink ==
  ASSUME NEW p \in Pipes, InPipe(p)' = InPipe(p), written'[p] = written[p],
         dropped'[p] = dropped[p], discarded'[p] = discarded[p]
  PROVE  UNCHANGED Sink(p)!sinkVars
BY DEF Sink!sinkVars

\* Every step of the writer is a step of the sink, or leaves it as it is.
LEMMA StepIsSinkStep ==
  ASSUME NEW p \in Pipes, TypeOK, Conservation, [WriterNext]_writerVars
  PROVE  [Sink(p)!SinkNext]_(Sink(p)!sinkVars)
<1> DEFINE SinkStep == [Sink(p)!SinkNext]_(Sink(p)!sinkVars)
<1>0. ConservationAt(p) /\ WorkersOf(p) \subseteq Workers
  BY PipeWorkers DEF Conservation
<1> USE DEF pipelineVars
<1>1. ASSUME NEW e \in Events, SendOp(e) \/ SendAn(e) PROVE SinkStep
  <2>0. PICK q \in Pipes :
          /\ TrySend(q, e)
          /\ UNCHANGED <<batch, written, discarded>>
          /\ e \notin Handed(q) /\ e \notin SyncCalls
    BY <1>1, CallEffects DEF SendOp, SendAn, Pipes
  <2>1. CASE p = q
    BY <1>0, <2>0, <2>1, SendIsSinkStep DEF Sink!SinkNext
  <2>2. CASE p # q
    <3>1. chan'[p] = chan[p] /\ dropped'[p] = dropped[p]
      BY <2>0, <2>2 DEF TrySend, TypeOK
    <3>2. InPipe(p)' = InPipe(p)
      BY <2>0, <3>1 DEF InPipe
    <3> QED BY <2>0, <3>1, <3>2, UntouchedSink
  <2> QED BY <2>1, <2>2
<1>2. ASSUME NEW e \in Events, SyncOp(e) \/ SyncAn(e) PROVE SinkStep
  <2>1. /\ UNCHANGED <<chan, batch, dropped, discarded>>
        /\ written'[p] = written[p] \/ written'[p] = written[p] \cup {e}
    BY <1>2 DEF SyncOp, SyncAn, Insert, TypeOK
  <2>0. e \notin Handed(p)
    BY <1>2, CallEffects
  <2>2. InPipe(p)' = InPipe(p)
    BY <2>1 DEF InPipe
  <2>3. CASE written'[p] = written[p]
    BY <2>1, <2>2, <2>3, UntouchedSink
  <2>4. CASE written'[p] # written[p]
    <3>1. e \notin written[p] /\ written'[p] = written[p] \cup {e}
      BY <2>1, <2>4
    <3>2. e \notin Sink(p)!Known
      BY <1>0, <2>0, <3>1, UnknownToSink DEF Sink!Known
    <3>3. Sink(p)!StoreNow(e)
      BY <2>1, <2>2, <3>1, <3>2 DEF Sink!StoreNow
    <3> QED BY <3>3 DEF Sink!SinkNext
  <2> QED BY <2>3, <2>4
<1>3. ASSUME NEW w \in Workers, Flush(w) PROVE SinkStep
  <2>1. CASE p = PipeOf(w)
    BY <1>0, <1>3, <2>1, FlushIsSinkStep DEF Sink!SinkNext
  <2>2. CASE p # PipeOf(w)
    <3>1. w \notin WorkersOf(p)
      BY <2>2, WorkerPipes
    <3>2. UNCHANGED <<chan, written[p], dropped[p], discarded[p]>>
      BY <1>3, <2>2 DEF Flush, TypeOK
    <3>3. \A v \in WorkersOf(p) : batch'[v] = batch[v]
      BY <1>0, <1>3, <3>1 DEF Flush, TypeOK
    <3>4. InPipe(p)' = InPipe(p)
      BY <3>2, <3>3 DEF InPipe
    <3> QED BY <3>2, <3>4, UntouchedSink
  <2> QED BY <2>1, <2>2
<1>4. ASSUME NEW w \in Workers, Receive(w) PROVE SinkStep
  <2>1. Handed(p)' = Handed(p) /\ SyncCalls' = SyncCalls
    BY <1>4 DEF Receive, Handed, SyncCalls
  <2>2. UNCHANGED <<written, dropped, discarded>>
    BY <1>4 DEF Receive
  <2>3. ConservationAt(p)'
    BY <1>4, ConservationStep DEF Conservation
  <2>4. InPipe(p)' = InPipe(p)
    <3> HIDE DEF Handed, SyncCalls, InPipe
    <3>1. InPipe(p) = Handed(p) \ (written[p] \cup dropped[p] \cup discarded[p])
      BY <1>0 DEF ConservationAt
    <3>2. InPipe(p)' = Handed(p)' \ (written[p] \cup dropped[p] \cup discarded[p])'
      BY <2>3 DEF ConservationAt
    <3> QED BY <2>1, <2>2, <3>1, <3>2
  <2> QED BY <2>2, <2>4, UntouchedSink
<1>5. CASE \/ \E e \in Events : CheckStopping(e)
           \/ \E w \in Workers : Tick(w) \/ SeeStop(w) \/ DrainEmpty(w)
           \/ RaiseFlag \/ StopStep
           \/ UNCHANGED writerVars
  <2>1. UNCHANGED <<chan, batch, written, dropped, discarded>>
    BY <1>5 DEF CheckStopping, Tick, SeeStop, DrainEmpty, RaiseFlag, StopStep,
                CloseStopChan, WaitForWorkers, writerVars
  <2>2. InPipe(p)' = InPipe(p)
    BY <2>1 DEF InPipe
  <2> QED BY <2>1, <2>2, UntouchedSink
<1> QED BY <1>1, <1>2, <1>3, <1>4, <1>5
        DEF WriterNext, NewCall, CallStep, WorkerStep

LEMMA InitIsSinkInit ==
  ASSUME NEW p \in Pipes, WriterInit
  PROVE  Sink(p)!SinkInit
<1>1. /\ chan[p] = <<>> /\ written[p] = {}
      /\ dropped[p] = {} /\ discarded[p] = {}
      /\ \A w \in WorkersOf(p) : batch[w] = <<>>
  BY PipeWorkers DEF WriterInit
<1>2. InPipe(p) = {}
  BY <1>1, EmptyLemma DEF InPipe
<1> QED BY <1>1, <1>2 DEF Sink!SinkInit

\* The operational pipeline implements EventSink.
LEMMA OperationalPipeIsSink == WriterSpec => OpSink!SinkSpec
<1>1. WriterInit => OpSink!SinkInit
  BY InitIsSinkInit DEF Pipes, Sink!SinkInit, OpSink!SinkInit
<1>2. WriterInv /\ [WriterNext]_writerVars => [OpSink!SinkNext]_(OpSink!sinkVars)
  BY StepIsSinkStep DEF WriterInv, Pipes,
     Sink!SinkNext, Sink!sinkVars, Sink!Take, Sink!TurnAway, Sink!StoreNow,
     Sink!Settle, Sink!Known,
     OpSink!SinkNext, OpSink!sinkVars, OpSink!Take, OpSink!TurnAway,
     OpSink!StoreNow, OpSink!Settle, OpSink!Known
<1> QED BY <1>1, <1>2, WriterInvariant, PTL
        DEF WriterSpec, OpSink!SinkSpec

\* The analytical pipeline implements EventSink.
LEMMA AnalyticalPipeIsSink == WriterSpec => AnSink!SinkSpec
<1>1. WriterInit => AnSink!SinkInit
  BY InitIsSinkInit DEF Pipes, Sink!SinkInit, AnSink!SinkInit
<1>2. WriterInv /\ [WriterNext]_writerVars => [AnSink!SinkNext]_(AnSink!sinkVars)
  BY StepIsSinkStep DEF WriterInv, Pipes,
     Sink!SinkNext, Sink!sinkVars, Sink!Take, Sink!TurnAway, Sink!StoreNow,
     Sink!Settle, Sink!Known,
     AnSink!SinkNext, AnSink!sinkVars, AnSink!Take, AnSink!TurnAway,
     AnSink!StoreNow, AnSink!Settle, AnSink!Known
<1> QED BY <1>1, <1>2, WriterInvariant, PTL
        DEF WriterSpec, AnSink!SinkSpec

\* Both pipelines implement EventSink, for any numbers of workers, sizes and events.
THEOREM PipelinesAreSinks == WriterSpec => PipesAreSinks
BY OperationalPipeIsSink, AnalyticalPipeIsSink, PTL DEF PipesAreSinks

-----------------------------------------------------------------------------
(* The bound on the race with Stop *)

Enqueuing == {e \in Events : call[e] \in {"op", "an"}}

\* Once the flag is up no call becomes one that can still be late.
RaceBound ==
  /\ Cardinality(InCall) <= MaxCallers
  /\ ~stopChanClosed => \A p \in Pipes : late[p] = {}
  /\ stopping => \A p \in Pipes :
                   Cardinality(late[p] \cup Enqueuing) <= MaxCallers

\* A smaller set of events is bounded by what bounds a larger one.
LEMMA SmallerSet ==
  ASSUME NEW A \in SUBSET Events, NEW B \in SUBSET A,
         Cardinality(A) <= MaxCallers
  PROVE  Cardinality(B) <= MaxCallers
<1>1. IsFiniteSet(A) /\ IsFiniteSet(B)
  BY WriterAssumption, FS_Subset
<1>2. Cardinality(B) <= Cardinality(A)
  BY <1>1, FS_Subset
<1>3. Cardinality(A) \in Nat /\ Cardinality(B) \in Nat
  BY <1>1, FS_CardinalityType
<1> QED BY <1>2, <1>3, WriterAssumption

\* A call that is entered is one more, and there was room for it.
LEMMA EnterBound ==
  ASSUME TypeOK, NEW e \in Events, Enter(e), InCall' \subseteq InCall \cup {e}
  PROVE  Cardinality(InCall') <= MaxCallers
<1>1. InCall \in SUBSET Events /\ IsFiniteSet(InCall) /\ Cardinality(InCall) \in Nat
  BY WriterAssumption, FS_Subset, FS_CardinalityType DEF InCall
<1>2. /\ Cardinality(InCall \cup {e}) \in {Cardinality(InCall), Cardinality(InCall) + 1}
      /\ Cardinality(InCall) < MaxCallers
  BY <1>1, FS_AddElement DEF Enter
<1>3. Cardinality(InCall \cup {e}) <= MaxCallers
  BY <1>1, <1>2, WriterAssumption
<1> QED BY <1>1, <1>3, SmallerSet

\* A send adds to the late events only one that was being enqueued.
LEMMA SendLate ==
  ASSUME TypeOK, NEW p \in Pipes, NEW e \in Events, TrySend(p, e)
  PROVE  \A q \in Pipes :
           /\ late'[q] \subseteq late[q] \cup {e}
           /\ ~stopChanClosed => late'[q] = late[q]
BY DEF TrySend, TypeOK

LEMMA RaceBoundStep ==
  TypeOK /\ RaceBound /\ [WriterNext]_writerVars => RaceBound'
<1> SUFFICES ASSUME TypeOK, RaceBound, [WriterNext]_writerVars PROVE RaceBound'
  OBVIOUS
<1>0. \A p \in Pipes : late[p] \cup Enqueuing \in SUBSET Events
  BY DEF TypeOK, Enqueuing
<1> USE DEF pipelineVars
<1>1. ASSUME NEW e \in Events, CheckStopping(e) PROVE RaceBound'
  <2>1. InCall' \subseteq InCall \cup {e} /\ Enter(e)
    BY <1>1 DEF CheckStopping, InCall, TypeOK
  <2>2. Cardinality(InCall') <= MaxCallers
    BY <2>1, EnterBound
  <2>3. UNCHANGED <<stop, late>> /\ (stopping => Enqueuing' \subseteq Enqueuing)
    BY <1>1 DEF CheckStopping, Enqueuing, TypeOK
  <2> HIDE DEF InCall, Enqueuing
  <2>4. stopping => \A p \in Pipes :
                      Cardinality((late[p] \cup Enqueuing)') <= MaxCallers
    <3> SUFFICES ASSUME stopping, NEW p \in Pipes
                 PROVE  Cardinality(late'[p] \cup Enqueuing') <= MaxCallers
      OBVIOUS
    <3>1. Cardinality(late[p] \cup Enqueuing) <= MaxCallers
      BY DEF RaceBound
    <3>2. late'[p] \cup Enqueuing' \subseteq late[p] \cup Enqueuing
      BY <2>3
    <3> QED BY <1>0, <3>1, <3>2, SmallerSet
  <2> QED BY <2>2, <2>3, <2>4 DEF RaceBound, stopping, stopChanClosed
<1>2. ASSUME NEW e \in Events, SyncOp(e) PROVE RaceBound'
  <2>1. InCall' \subseteq InCall \cup {e} /\ Enter(e)
    BY <1>2 DEF SyncOp, Insert, InCall, TypeOK
  <2>2. Cardinality(InCall') <= MaxCallers
    BY <2>1, EnterBound
  <2>3. UNCHANGED <<stop, late>> /\ Enqueuing' = Enqueuing
    BY <1>2 DEF SyncOp, Enter, Insert, Enqueuing, TypeOK
  <2> QED BY <2>2, <2>3 DEF RaceBound, stopping, stopChanClosed
<1>3. ASSUME NEW e \in Events, SyncAn(e) PROVE RaceBound'
  <2>1. InCall' \subseteq InCall /\ InCall \in SUBSET Events
    BY <1>3 DEF SyncAn, Insert, InCall, TypeOK
  <2>2. Cardinality(InCall') <= MaxCallers
    BY <2>1, SmallerSet DEF RaceBound
  <2>3. UNCHANGED <<stop, late>> /\ Enqueuing' = Enqueuing
    BY <1>3 DEF SyncAn, Insert, Enqueuing, TypeOK
  <2> QED BY <2>2, <2>3 DEF RaceBound, stopping, stopChanClosed
<1>4. ASSUME NEW e \in Events, SendOp(e) \/ SendAn(e) PROVE RaceBound'
  <2>1. /\ InCall' \subseteq InCall /\ InCall \in SUBSET Events
        /\ Enqueuing' \subseteq Enqueuing /\ e \in Enqueuing
        /\ stop' = stop
    BY <1>4 DEF SendOp, SendAn, InCall, Enqueuing, TypeOK
  <2>2. Cardinality(InCall') <= MaxCallers
    BY <2>1, SmallerSet DEF RaceBound
  <2>3. \A q \in Pipes : /\ late'[q] \subseteq late[q] \cup {e}
                         /\ ~stopChanClosed => late'[q] = late[q]
    BY <1>4, SendLate DEF SendOp, SendAn, Pipes
  <2> HIDE DEF InCall, Enqueuing
  <2>4. stopping => \A p \in Pipes :
                      Cardinality((late[p] \cup Enqueuing)') <= MaxCallers
    <3> SUFFICES ASSUME stopping, NEW p \in Pipes
                 PROVE  Cardinality(late'[p] \cup Enqueuing') <= MaxCallers
      OBVIOUS
    <3>1. Cardinality(late[p] \cup Enqueuing) <= MaxCallers
      BY DEF RaceBound
    <3>2. late'[p] \cup Enqueuing' \subseteq late[p] \cup Enqueuing
      BY <2>1, <2>3
    <3> QED BY <1>0, <3>1, <3>2, SmallerSet
  <2> QED BY <2>1, <2>2, <2>3, <2>4 DEF RaceBound, stopping, stopChanClosed
<1>5. CASE RaiseFlag
  <2>1. /\ late' = late /\ call' = call
        /\ \A p \in Pipes : late[p] = {}
        /\ ~stopChanClosed'
    BY <1>5 DEF RaiseFlag, RaceBound, stopChanClosed
  <2>2. Enqueuing \subseteq InCall /\ InCall \in SUBSET Events
    BY DEF Enqueuing, InCall
  <2>3. Cardinality(Enqueuing) <= MaxCallers
    BY <2>2, SmallerSet DEF RaceBound
  <2>4. \A p \in Pipes : (late[p] \cup Enqueuing)' = Enqueuing
    BY <2>1 DEF Enqueuing
  <2>5. InCall' = InCall
    BY <2>1 DEF InCall
  <2> HIDE DEF InCall, Enqueuing
  <2> QED BY <2>1, <2>3, <2>4, <2>5 DEF RaceBound
<1>6. CASE \/ \E w \in Workers : WorkerStep(w)
           \/ StopStep
           \/ UNCHANGED writerVars
  <2>1. /\ UNCHANGED <<call, late>>
        /\ stop' = stop \/ stop \in {"flagged", "closed"}
        /\ stop' = stop \/ stop' \in {"closed", "stopped"}
    BY <1>6 DEF WorkerStep, Receive, Tick, SeeStop, DrainEmpty, Flush, StopStep,
                CloseStopChan, WaitForWorkers, writerVars
  <2>2. InCall' = InCall /\ Enqueuing' = Enqueuing
    BY <2>1 DEF InCall, Enqueuing
  <2> HIDE DEF InCall, Enqueuing
  <2> QED BY <2>1, <2>2 DEF RaceBound, stopping, stopChanClosed
<1> QED BY <1>1, <1>2, <1>3, <1>4, <1>5, <1>6 DEF WriterNext, NewCall, CallStep

\* Stop strands at most MaxCallers events in each channel.
THEOREM AtMostOnePerCaller == WriterSpec => []StrandedBound
<1>1. WriterInit => RaceBound
  <2> SUFFICES ASSUME WriterInit PROVE RaceBound
    OBVIOUS
  <2>1. InCall = {} /\ stop = "up" /\ \A p \in Pipes : late[p] = {}
    BY DEF WriterInit, InCall
  <2> HIDE DEF InCall
  <2> QED BY <2>1, FS_EmptySet, WriterAssumption
          DEF RaceBound, stopping, stopChanClosed
<1>2. WriterInv /\ RaceBound /\ [WriterNext]_writerVars => RaceBound'
  BY RaceBoundStep DEF WriterInv
<1>3. WriterInv /\ RaceBound => StrandedBound
  <2> SUFFICES ASSUME WriterInv, RaceBound, NEW p \in Pipes
               PROVE  Cardinality(late[p]) <= MaxCallers
    BY DEF StrandedBound
  <2>1. late[p] \cup Enqueuing \in SUBSET Events
    BY DEF WriterInv, TypeOK, Enqueuing
  <2>2. CASE stopping
    BY <2>1, <2>2, SmallerSet DEF RaceBound
  <2>3. CASE ~stopping
    BY <2>3, FS_EmptySet, WriterAssumption
       DEF RaceBound, stopping, stopChanClosed
  <2> QED BY <2>2, <2>3
<1> QED BY <1>1, <1>2, <1>3, WriterInvariant, PTL DEF WriterSpec
=============================================================================

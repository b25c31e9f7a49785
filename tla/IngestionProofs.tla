--------------------------- MODULE IngestionProofs ---------------------------
(***************************************************************************)
(* Proofs about KafkaConsumer, for any log, number of retries and restarts,*)
(* and about Ingestion, for any writer behind the consumer.                *)
(*                                                                         *)
(* The committed offset is the position of the loop at some earlier        *)
(* commit, so what has to be carried through every step is what is known   *)
(* of the messages up to the position: all of them are decided or given    *)
(* up, but for the one that is being handled.                              *)
(*                                                                         *)
(* The composition takes every step of the consumer, so all of this holds  *)
(* there.  An event that a call has carried past a pipeline stays placed:  *)
(* in memory, stored, or lost in one of the ways the writer has, whatever  *)
(* the workers, Stop or a crash do.  And a writer that is stopping has a   *)
(* closed adapter before it, so that what it refuses stays ahead of every  *)
(* consumer that can commit, until one of them reads it again.             *)
(***************************************************************************)
EXTENDS Ingestion, DualEventWriterProofs


\* Decided, or given up in a cancelled backoff.
Done == Decided \cup abandoned

\* The states in which the loop holds a message it has not finished with.
Busy == {"handle", "backoff", "dlq"}

\* A loop that runs is at or after the committed offset, strictly after it while
\* it holds a message, and has finished with everything up to its position.
LoopPosition ==
  /\ pc \in {"select", "read", "commit"} =>
       /\ committed <= position
       /\ \A o \in Offsets : base < o /\ o <= position => o \in Done
  /\ pc \in Busy =>
       /\ committed < position
       /\ \A o \in Offsets : base < o /\ o < position => o \in Done

\* A loop that was not started has no position; one that goes on has not counted
\* too many connection errors.
LoopCounters ==
  /\ pc = "off" => position = 0 /\ consumerHealthy
  /\ pc # "ended" => connectionErrCount <= ErrLimit

ConsumerInv == /\ ConsumerTypeOK
               /\ LoopCounters
               /\ UnhealthyIffEnded
               /\ LoopPosition
               /\ CommitPassesOnlyDecided

-----------------------------------------------------------------------------
LEMMA ConsumerInvInit == ConsumerInit => ConsumerInv
BY ConsumerAssumption
   DEF ConsumerInit, ConsumerInv, ConsumerTypeOK, LoopCounters, UnhealthyIffEnded,
       LoopPosition, CommitPassesOnlyDecided, LoopStates, StopConsumingStates,
       Offsets, Busy

LEMMA ConsumerTypeStep ==
  ConsumerTypeOK /\ LoopCounters /\ LoopPosition /\ [ConsumerNext]_consumerVars
    => ConsumerTypeOK'
<1> SUFFICES ASSUME ConsumerTypeOK, LoopCounters, LoopPosition,
                    [ConsumerNext]_consumerVars
             PROVE  ConsumerTypeOK'
  OBVIOUS
<1> USE ConsumerAssumption
    DEF ConsumerTypeOK, LoopStates, StopConsumingStates, Offsets, brokerVars,
        loopVars, shutdownVars, historyVars
<1>1. CASE Produce
  BY <1>1 DEF Produce
<1>2. CASE Subscribe \/ SubscribeFails \/ SelectStop \/ SelectDefault \/ ReadNothing
  BY <1>2 DEF Subscribe, SubscribeFails, SelectStop, SelectDefault, ReadNothing
<1>3. CASE ReadMessage
  BY <1>3 DEF ReadMessage
<1>4. CASE ReadConnectionError
  <2>1. connectionErrCount \in 0..ErrLimit
    BY <1>4 DEF ReadConnectionError, LoopCounters
  <2>2. connectionErrCount' \in 0..(ErrLimit + 1)
    BY <1>4, <2>1 DEF ReadConnectionError
  <2>3. consumerHealthy' \in BOOLEAN /\ pc' \in LoopStates
    BY <1>4 DEF ReadConnectionError
  <2>4. UNCHANGED <<brokerVars, position, attempt, shutdownVars, historyVars>>
    BY <1>4 DEF ReadConnectionError
  <2> QED BY <2>2, <2>3, <2>4
<1>5. pc \in Busy => position \in Offsets
  <2>1. pc \in Busy => committed < position
    BY DEF LoopPosition
  <2>2. committed \in 0..MaxOffset /\ position \in 0..MaxOffset
    OBVIOUS
  <2> QED BY <2>1, <2>2
<1>6. ASSUME NEW o \in Outcomes, HandleMessage(o) PROVE ConsumerTypeOK'
  <2>1. /\ pc = "handle" /\ pc' \in {"commit", "dlq", "backoff"}
        /\ handled' = handled \/ handled' = handled \cup {position}
        /\ attempt' = attempt \/ (attempt < maxRetries /\ attempt' = attempt + 1)
        /\ UNCHANGED <<logEnd, committed, dlq, position, connectionErrCount,
                       consumerHealthy, consumerStop, adapterOpen, restarts, base,
                       dlqLost, abandoned>>
    BY <1>6 DEF HandleMessage
  <2>2. handled' \subseteq Offsets
    BY <1>5, <2>1 DEF Busy
  <2>3. attempt' \in 0..maxRetries
    BY <2>1
  <2> QED BY <2>1, <2>2, <2>3
<1>7. CASE BackoffCancelled \/ SendToDLQ
  BY <1>5, <1>7 DEF BackoffCancelled, SendToDLQ, Busy
<1>8. CASE BackoffElapsed \/ CommitOffset
  BY <1>8 DEF BackoffElapsed, CommitOffset
<1>9. CASE Cancel \/ ShutdownStep
  BY <1>9 DEF Cancel, ShutdownStep, CloseConsumerStopChan, CloseAdapter
<1>10. CASE Restart
  BY <1>10 DEF Restart
<1>11. CASE UNCHANGED consumerVars
  BY <1>11 DEF consumerVars
<1> QED BY <1>1, <1>2, <1>3, <1>4, <1>6, <1>7, <1>8, <1>9, <1>10, <1>11
        DEF ConsumerNext, LoopStep, PollStep, RetryStep

\* The flags and counters of the loop, and when it is reported unhealthy.
LEMMA ConsumerCountersStep ==
  ConsumerTypeOK /\ LoopCounters /\ UnhealthyIffEnded /\ [ConsumerNext]_consumerVars
    => LoopCounters' /\ UnhealthyIffEnded'
<1> SUFFICES ASSUME ConsumerTypeOK, LoopCounters, UnhealthyIffEnded,
                    [ConsumerNext]_consumerVars
             PROVE  LoopCounters' /\ UnhealthyIffEnded'
  OBVIOUS
<1> USE ConsumerAssumption
    DEF LoopCounters, UnhealthyIffEnded, brokerVars, loopVars, shutdownVars,
        historyVars
<1>1. CASE Produce \/ Cancel \/ ShutdownStep \/ UNCHANGED consumerVars
  BY <1>1 DEF Produce, Cancel, ShutdownStep, CloseConsumerStopChan, CloseAdapter,
              consumerVars
<1>2. CASE PollStep
  BY <1>2 DEF PollStep, Subscribe, SubscribeFails, SelectStop, SelectDefault,
              ReadMessage, ReadNothing, ReadConnectionError, ConsumerTypeOK
<1>3. CASE RetryStep
  BY <1>3 DEF RetryStep, BackoffElapsed, BackoffCancelled, SendToDLQ, CommitOffset
<1>4. ASSUME NEW o \in Outcomes, HandleMessage(o)
      PROVE  LoopCounters' /\ UnhealthyIffEnded'
  BY <1>4 DEF HandleMessage
<1>5. CASE Restart
  BY <1>5 DEF Restart
<1> QED BY <1>1, <1>2, <1>3, <1>4, <1>5 DEF ConsumerNext, LoopStep

\* What is done stays done, but the offset from which it counts may move.
LEMMA DoneGrows ==
  ASSUME [ConsumerNext]_consumerVars
  PROVE  Done \subseteq Done' /\ (~Subscribe => base' = base)
<1> USE DEF Done, Decided, brokerVars, loopVars, shutdownVars, historyVars
<1>1. CASE \/ Produce \/ Cancel \/ ShutdownStep \/ Restart
           \/ UNCHANGED consumerVars
  BY <1>1 DEF Produce, Cancel, ShutdownStep, CloseConsumerStopChan, CloseAdapter,
              Restart, consumerVars
<1>2. CASE PollStep
  BY <1>2 DEF PollStep, Subscribe, SubscribeFails, SelectStop, SelectDefault,
              ReadMessage, ReadNothing, ReadConnectionError
<1>3. CASE RetryStep
  BY <1>3 DEF RetryStep, BackoffElapsed, BackoffCancelled, SendToDLQ, CommitOffset
<1>4. ASSUME NEW o \in Outcomes, HandleMessage(o)
      PROVE  Done \subseteq Done' /\ base' = base
  BY <1>4 DEF HandleMessage
<1> QED BY <1>1, <1>2, <1>3, <1>4 DEF ConsumerNext, LoopStep

\* The step that finishes with a message adds it to what is done; the one that
\* reads a message moves on by one; a commit makes the position the offset.
LEMMA LoopPositionStep ==
  ConsumerInv /\ [ConsumerNext]_consumerVars
    => LoopPosition' /\ CommitPassesOnlyDecided' /\ committed' >= committed
<1> DEFINE Goal == LoopPosition' /\ CommitPassesOnlyDecided' /\ committed' >= committed
<1> SUFFICES ASSUME ConsumerInv, [ConsumerNext]_consumerVars PROVE Goal
  OBVIOUS
<1>0. /\ committed \in Nat /\ position \in Nat /\ base \in Nat /\ logEnd \in Nat
      /\ Offsets \subseteq Nat
      /\ Done \subseteq Done' /\ (~Subscribe => base' = base)
  BY DoneGrows DEF ConsumerInv, ConsumerTypeOK, Offsets
<1>a. \A o \in Offsets : base < o /\ o <= committed => o \in Done
  BY DEF ConsumerInv, CommitPassesOnlyDecided, Done
<1>b. LoopPosition
  BY DEF ConsumerInv
<1>c. CommitPassesOnlyDecided' <=>
        \A o \in Offsets : base' < o /\ o <= committed' => o \in Done'
  BY DEF CommitPassesOnlyDecided, Done
<1> HIDE DEF Done
<1> USE DEF LoopPosition, Busy, brokerVars, loopVars, shutdownVars, historyVars
<1>1. CASE Produce \/ Cancel \/ ShutdownStep \/ UNCHANGED consumerVars
  <2>1. UNCHANGED <<pc, position, committed, base>>
    BY <1>1 DEF Produce, Cancel, ShutdownStep, CloseConsumerStopChan, CloseAdapter,
                consumerVars
  <2> QED BY <1>0, <1>a, <1>b, <1>c, <2>1
<1>2. CASE Subscribe
  <2>1. /\ pc' = "select" /\ committed' = committed
        /\ \/ committed = 0 /\ position' = logEnd /\ base' = logEnd
           \/ committed # 0 /\ position' = committed /\ base' = base
    BY <1>2 DEF Subscribe
  <2> QED BY <1>0, <1>a, <1>c, <2>1
<1>3. CASE \/ SubscribeFails \/ SelectStop \/ SelectDefault \/ ReadNothing
           \/ ReadConnectionError \/ Restart \/ BackoffElapsed
  <2>1. /\ committed' = committed /\ base' = base
        /\ \/ pc' \in {"off", "ended"}
           \/ pc \in {"select", "read"} /\ pc' \in {"select", "read"}
              /\ position' = position
           \/ pc = "backoff" /\ pc' = "handle" /\ position' = position
    BY <1>3 DEF SubscribeFails, SelectStop, SelectDefault, ReadNothing,
                ReadConnectionError, Restart, BackoffElapsed
  <2> QED BY <1>0, <1>a, <1>b, <1>c, <2>1
<1>4. CASE ReadMessage
  <2>1. /\ pc = "read" /\ pc' = "handle" /\ position' = position + 1
        /\ committed' = committed /\ base' = base
    BY <1>4 DEF ReadMessage
  <2> QED BY <1>0, <1>a, <1>b, <1>c, <2>1
<1>5. CASE BackoffCancelled \/ SendToDLQ \/ \E o \in Outcomes : HandleMessage(o)
  <2>1. /\ pc \in Busy /\ position' = position
        /\ committed' = committed /\ base' = base
        /\ pc' \in Busy \/ (pc' \in {"select", "commit"} /\ position \in Done')
    BY <1>5 DEF BackoffCancelled, SendToDLQ, HandleMessage, Done, Decided
  <2> QED BY <1>0, <1>a, <1>b, <1>c, <2>1
<1>6. CASE CommitOffset
  <2>1. /\ pc = "commit" /\ pc' = "select"
        /\ position' = position /\ base' = base
        /\ committed' \in {position, committed}
    BY <1>6 DEF CommitOffset
  <2> QED BY <1>0, <1>a, <1>b, <1>c, <2>1
<1> QED BY <1>1, <1>2, <1>3, <1>4, <1>5, <1>6
        DEF ConsumerNext, LoopStep, PollStep, RetryStep

-----------------------------------------------------------------------------
\* Every reachable state satisfies the inductive invariant.
THEOREM ConsumerInvariant == ConsumerSpec => []ConsumerInv
<1>1. ConsumerInv /\ [ConsumerNext]_consumerVars => ConsumerInv'
  BY ConsumerTypeStep, ConsumerCountersStep, LoopPositionStep DEF ConsumerInv
<1> QED BY <1>1, ConsumerInvInit, PTL DEF ConsumerSpec

\* The retries and the tolerated connection errors stay within their limits.
THEOREM ConsumerTypeCorrect == ConsumerSpec => []ConsumerTypeOK
<1>1. ConsumerInv => ConsumerTypeOK
  BY DEF ConsumerInv
<1> QED BY <1>1, ConsumerInvariant, PTL

\* The committed offset never passes a message that was only read.
THEOREM CommitsOnlyDecided == ConsumerSpec => []CommitPassesOnlyDecided
<1>1. ConsumerInv => CommitPassesOnlyDecided
  BY DEF ConsumerInv
<1> QED BY <1>1, ConsumerInvariant, PTL

\* The committed offset never goes back, across failed commits and restarts.
THEOREM OffsetNeverRewinds == ConsumerSpec => CommittedNeverRewinds
<1>1. ConsumerInv /\ [ConsumerNext]_consumerVars => [committed' >= committed]_consumerVars
  BY LoopPositionStep
<1> QED BY <1>1, ConsumerInvariant, PTL DEF ConsumerSpec, CommittedNeverRewinds

\* Apart from a failed subscription the loop ends exactly when it says so.
THEOREM HealthIsTruthful == ConsumerSpec => []UnhealthyIffEnded
<1>1. ConsumerInv => UnhealthyIffEnded
  BY DEF ConsumerInv
<1> QED BY <1>1, ConsumerInvariant, PTL

-----------------------------------------------------------------------------
(* The composition: what is given to the writer stays placed *)

\* A non-blocking send leaves the event in the channel or among the dropped.
LEMMA SendPlaces ==
  ASSUME TypeOK, NEW p \in Pipes, NEW e \in Events, TrySend(p, e)
  PROVE  /\ e \in Range(chan'[p]) \cup dropped'[p]
         /\ \A q \in Pipes : /\ Range(chan[q]) \subseteq Range(chan'[q])
                             /\ dropped[q] \subseteq dropped'[q]
<1>1. chan[p] \in Seq(Events)
  BY DEF TypeOK
<1>2. /\ Range(Append(chan[p], e)) = Range(chan[p]) \cup {e}
  BY <1>1, SendLemma
<1>3. CASE Len(chan[p]) < PipelineBufferSize
  <2>1. chan' = [chan EXCEPT ![p] = Append(chan[p], e)] /\ dropped' = dropped
    BY <1>3 DEF TrySend
  <2>2. /\ chan'[p] = Append(chan[p], e)
        /\ \A q \in Pipes : q # p => chan'[q] = chan[q]
    BY <2>1 DEF TypeOK
  <2> QED BY <1>2, <2>1, <2>2
<1>4. CASE ~(Len(chan[p]) < PipelineBufferSize)
  BY <1>4 DEF TrySend, TypeOK
<1> QED BY <1>3, <1>4

\* What pipeline p has been given, as far as the writer knows.
Given(p) == InPipe(p) \cup written[p] \cup dropped[p] \cup discarded[p]

\* Nothing that a worker, a call or Stop does makes the writer forget an event.
LEMMA GivenGrows ==
  ASSUME TypeOK, [WriterNext]_writerVars, NEW p \in Pipes
  PROVE  Given(p) \subseteq Given(p)'
<1> USE DEF pipelineVars
<1>0. WorkersOf(p) \subseteq Workers
  BY PipeWorkers
<1>1. ASSUME NEW e \in Events, NEW q \in Pipes, TrySend(q, e),
             UNCHANGED <<batch, written, discarded>>
      PROVE  Given(p) \subseteq Given(p)'
  <2>1. /\ Range(chan[p]) \subseteq Range(chan'[p])
        /\ dropped[p] \subseteq dropped'[p]
    BY <1>1, SendPlaces
  <2> QED BY <1>1, <2>1 DEF Given, InPipe
<1>2. ASSUME NEW e \in Events, NewCall(e) \/ SyncAn(e)
      PROVE  Given(p) \subseteq Given(p)'
  <2>1. UNCHANGED <<chan, batch, dropped, discarded>>
    BY <1>2 DEF NewCall, CheckStopping, SyncOp, SyncAn, Insert
  <2>2. ASSUME NEW q \in Pipes, NEW next, Insert(q, e, next)
        PROVE  written[p] \subseteq written'[p]
    BY <2>2 DEF Insert, TypeOK
  <2>3. written[p] \subseteq written'[p]
    BY <1>2, <2>2 DEF NewCall, CheckStopping, SyncOp, SyncAn, Pipes
  <2> QED BY <2>1, <2>3 DEF Given, InPipe
<1>3. ASSUME NEW e \in Events, SendOp(e) \/ SendAn(e)
      PROVE  Given(p) \subseteq Given(p)'
  BY <1>1, <1>3 DEF SendOp, SendAn, Pipes
<1>4. ASSUME NEW w \in Workers, Receive(w)
      PROVE  Given(p) \subseteq Given(p)'
  <2> DEFINE q == PipeOf(w)
             x == Head(chan[q])
  <2>1. q \in Pipes /\ w \in WorkersOf(q)
    BY WorkerPipes
  <2>2. /\ chan[q] # <<>>
        /\ chan' = [chan EXCEPT ![q] = Tail(chan[q])]
        /\ batch' = [batch EXCEPT ![w] = Append(batch[w], x)]
        /\ UNCHANGED <<written, dropped, discarded>>
    BY <1>4 DEF Receive
  <2>3. chan[q] \in Seq(Events) /\ batch[w] \in Seq(Events)
    BY <2>1 DEF TypeOK
  <2>4. x \in Events /\ Range(chan[q]) = Range(Tail(chan[q])) \cup {x}
    BY <2>2, <2>3, ReceiveLemma
  <2>5. Range(Append(batch[w], x)) = Range(batch[w]) \cup {x}
    BY <2>3, <2>4, SendLemma
  <2> HIDE DEF x, q
  <2>6. /\ Range(chan[q]) = Range(chan'[q]) \cup {x}
        /\ Range(batch'[w]) = Range(batch[w]) \cup {x}
        /\ \A r \in Pipes : r # q => chan'[r] = chan[r]
        /\ \A v \in Workers : v # w => batch'[v] = batch[v]
    BY <2>1, <2>2, <2>4, <2>5 DEF TypeOK
  <2>7. InPipe(p) \subseteq InPipe(p)'
    <3> SUFFICES ASSUME NEW e, e \in InPipe(p) PROVE e \in InPipe(p)'
      OBVIOUS
    <3>1. CASE e \in Range(chan[p])
      BY <2>1, <2>6, <3>1 DEF InPipe
    <3>2. CASE \E v \in WorkersOf(p) : e \in Range(batch[v])
      BY <1>0, <2>6, <3>2 DEF InPipe
    <3> QED BY <3>1, <3>2, InPipeMember
  <2> QED BY <2>2, <2>7 DEF Given
<1>5. ASSUME NEW w \in Workers, Flush(w)
      PROVE  Given(p) \subseteq Given(p)'
  <2> DEFINE q == PipeOf(w)
             B == Range(batch[w])
  <2>1. q \in Pipes /\ w \in WorkersOf(q)
    BY WorkerPipes
  <2>2. /\ \/ /\ written' = [written EXCEPT ![q] = written[q] \cup B]
              /\ discarded' = discarded
           \/ /\ discarded' = [discarded EXCEPT ![q] = discarded[q] \cup B]
              /\ written' = written
        /\ batch' = [batch EXCEPT ![w] = <<>>]
        /\ UNCHANGED <<chan, dropped>>
    BY <1>5 DEF Flush
  <2> HIDE DEF q, B
  <2>3. /\ \A r \in Pipes : /\ written[r] \subseteq written'[r]
                            /\ discarded[r] \subseteq discarded'[r]
        /\ B \subseteq written'[q] \cup discarded'[q]
        /\ \A v \in Workers : v # w => batch'[v] = batch[v]
    BY <2>1, <2>2 DEF TypeOK
  <2>4. w \in WorkersOf(p) => p = q
    BY WorkerPipes DEF q
  <2> SUFFICES ASSUME NEW e, e \in InPipe(p) PROVE e \in Given(p)'
    BY <2>2, <2>3 DEF Given
  <2>5. CASE e \in Range(chan[p])
    BY <2>2, <2>5 DEF Given, InPipe
  <2>6. ASSUME NEW v \in WorkersOf(p), e \in Range(batch[v])
        PROVE  e \in Given(p)'
    <3>1. CASE v = w
      BY <2>3, <2>4, <2>6, <3>1 DEF Given, B
    <3>2. CASE v # w
      <4>1. e \in Range(batch'[v])
        BY <1>0, <2>3, <2>6, <3>2
      <4> QED BY <2>6, <4>1 DEF Given, InPipe
    <3> QED BY <3>1, <3>2
  <2> QED BY <2>5, <2>6, InPipeMember
<1>6. ASSUME \/ \E w \in Workers : Tick(w) \/ SeeStop(w) \/ DrainEmpty(w)
             \/ RaiseFlag \/ StopStep \/ UNCHANGED writerVars
      PROVE  Given(p) \subseteq Given(p)'
  <2>1. UNCHANGED <<chan, batch, written, dropped, discarded>>
    BY <1>6 DEF Tick, SeeStop, DrainEmpty, RaiseFlag, StopStep, CloseStopChan,
                WaitForWorkers, writerVars
  <2> QED BY <2>1 DEF Given, InPipe
<1> QED BY <1>2, <1>3, <1>4, <1>5, <1>6 DEF WriterNext, CallStep, WorkerStep

\* The places of an event in the composition are those, and what a crash has lost.
LEMMA PlacedIsGiven ==
  ASSUME NEW p
  PROVE  Placed(p) = Given(p) \cup crashLost[p]
BY DEF Placed, Given

-----------------------------------------------------------------------------
(* The steps of the composition *)

\* HandleMessage is called by the handler's steps alone, with the outcome that the
\* call of the writer has had; every other step of the consumer is its own.
LEMMA ConsumerSteps ==
  ASSUME [IngestionNext]_ingestionVars
  PROVE  [ConsumerNext]_consumerVars
<1>1. CASE ConsumerAlone
  BY <1>1 DEF ConsumerAlone, ConsumerNext, LoopStep
<1>2. CASE HandlerStep
  <2>1. ASSUME NEW o \in Outcomes, FailBeforePersist(o)
        PROVE  ConsumerNext
    BY <2>1 DEF FailBeforePersist, ConsumerNext, LoopStep
  <2>2. CASE Persist \/ SendToPipes
    BY <2>2 DEF Persist, SendToPipes
  <2>3. CASE HandlerReturns
    BY <2>3 DEF HandlerReturns, ConsumerNext, LoopStep, Outcomes
  <2> QED BY <1>2, <2>1, <2>2, <2>3 DEF HandlerStep
<1>3. CASE WriterAlone \/ StopWriter
  BY <1>3 DEF WriterAlone, StopWriter
<1>4. CASE ProcessRestart
  BY <1>4 DEF ProcessRestart, ConsumerNext
<1>5. CASE UNCHANGED ingestionVars
  BY <1>5 DEF ingestionVars
<1> QED BY <1>1, <1>2, <1>3, <1>4, <1>5 DEF IngestionNext

-----------------------------------------------------------------------------
(* The inductive invariant of the composition *)

\* While a pair is being persisted the loop is inside the handler, with the message
\* the pair was built for, and the call that carries the pair is under way or over.
PairInHand ==
  current # None =>
    /\ current \in Events
    /\ current[1] = position
    /\ pc = "handle"
    /\ call[current] \in {"op", "an", "accepted", "rejected"}

\* A call leaves its event in each pipeline that it has passed.
CallsArePlaced ==
  \A e \in Events :
    /\ call[e] \in {"an", "accepted"} => e \in Placed("op")
    /\ call[e] = "accepted" => e \in Placed("an")

\* What the handler has answered with nil was given to both pipelines.
HandledIsPlaced == \A p \in Pipes : handled \subseteq MessagesOf(Placed(p))

\* No position and no committed offset lies behind the end of the log, so a group
\* that is put there is past everything that was ever delivered.
WithinLog == /\ committed <= logEnd
             /\ position <= logEnd
             /\ refused \subseteq {o \in Offsets : o <= logEnd}

\* The writer refuses events only after the adapter was closed.
ClosedBeforeStop == stopping => ~adapterOpen

WriterTypes == TypeOK /\ RoomForNext

IngestionInv == /\ ConsumerInv
                /\ WriterTypes
                /\ PairInHand
                /\ CallsArePlaced
                /\ HandledIsPlaced
                /\ WithinLog
                /\ ClosedBeforeStop
                /\ RefusedIsRedelivered

LEMMA IngestionInvInit == IngestionInit => IngestionInv
<1> SUFFICES ASSUME IngestionInit PROVE IngestionInv
  OBVIOUS
<1>1. ConsumerInv /\ WriterTypes
  BY ConsumerInvInit, TypeInit DEF IngestionInit, WriterTypes
<1>2. PairInHand /\ CallsArePlaced
  BY DEF IngestionInit, WriterInit, PairInHand, CallsArePlaced
<1>3. HandledIsPlaced /\ ClosedBeforeStop /\ RefusedIsRedelivered
  BY DEF IngestionInit, ConsumerInit, WriterInit, HandledIsPlaced, ClosedBeforeStop,
         RefusedIsRedelivered, stopping
<1>4. WithinLog
  BY ConsumerAssumption DEF IngestionInit, ConsumerInit, WithinLog
<1> QED BY <1>1, <1>2, <1>3, <1>4 DEF IngestionInv

\* The events that may be built are numbered for each message.
LEMMA EventIsPair ==
  ASSUME NEW o \in Offsets, NEW n \in 1..MaxBuilds
  PROVE  <<o, n>> \in Events /\ <<o, n>> # None
BY IngestionAssumption

\* A handler's message is behind the committed offset.
LEMMA BusyPosition ==
  ASSUME ConsumerInv, pc \in Busy
  PROVE  position \in Offsets /\ committed < position
BY ConsumerAssumption DEF ConsumerInv, ConsumerTypeOK, LoopPosition, Offsets

\* Persist starts the call of a pair that no call has had.
LEMMA PersistBuilds ==
  ASSUME ConsumerInv, Persist
  PROVE  /\ current' \in Events /\ current'[1] = position /\ current' # None
         /\ CheckStopping(current')
         /\ position \in Offsets /\ committed < position
<1>1. position \in Offsets /\ committed < position
  BY BusyPosition DEF Persist, Busy
<1>2. Cardinality(Builds(position)) + 1 \in 1..MaxBuilds
  <2>1. IsFiniteSet(Builds(position))
    BY WriterAssumption, FS_Subset DEF Builds
  <2>2. Cardinality(Builds(position)) \in Nat
    BY <2>1, FS_CardinalityType
  <2>3. Cardinality(Builds(position)) < MaxBuilds /\ MaxBuilds \in Nat
    BY IngestionAssumption DEF Persist
  <2> QED BY <2>2, <2>3
<1> QED BY <1>1, <1>2, EventIsPair DEF Persist

\* Within a process the writer takes its own steps and no crash loses anything.
LEMMA WriterSteps ==
  ASSUME ConsumerInv, PairInHand, [IngestionNext]_ingestionVars, ~ProcessRestart
  PROVE  [WriterNext]_writerVars /\ UNCHANGED crashLost
<1>1. CASE ConsumerAlone
  BY <1>1 DEF ConsumerAlone
<1>2. CASE HandlerStep
  <2>1. CASE \/ \E o \in Outcomes : FailBeforePersist(o)
             \/ HandlerReturns
    BY <2>1 DEF FailBeforePersist, HandlerReturns
  <2>2. CASE Persist
    <3>1. NewCall(current') /\ current' \in Events /\ UNCHANGED crashLost
      BY <2>2, PersistBuilds DEF Persist, NewCall
    <3> QED BY <3>1 DEF WriterNext
  <2>3. CASE SendToPipes
    BY <2>3 DEF SendToPipes, PairInHand, WriterNext, CallStep
  <2> QED BY <1>2, <2>1, <2>2, <2>3 DEF HandlerStep
<1>3. CASE WriterAlone
  BY <1>3 DEF WriterAlone, WriterNext
<1>4. CASE StopWriter
  BY <1>4 DEF StopWriter, WriterNext
<1>5. CASE UNCHANGED ingestionVars
  BY <1>5 DEF ingestionVars
<1> QED BY <1>1, <1>2, <1>3, <1>4, <1>5 DEF IngestionNext

\* A new process has a new writer.
LEMMA RestartTypes ==
  ASSUME WriterTypes, ProcessRestart
  PROVE  WriterTypes'
<1> USE WriterAssumption
<1>1. /\ call' \in [Events -> CallStates]
      /\ stop' \in StopStates
      /\ worker' \in [Workers -> WorkerStates]
  BY DEF ProcessRestart, WriterTypes, TypeOK, CallStates, StopStates, WorkerStates
<1>2. /\ chan' \in [Pipes -> Seq(Events)]
      /\ \A p \in Pipes : Len(chan'[p]) <= PipelineBufferSize
      /\ batch' \in [Workers -> Seq(Events)]
      /\ \A w \in Workers : Len(batch'[w]) < BatchSize
  BY DEF ProcessRestart
<1>3. UNCHANGED <<written, dropped, discarded, spilled, late>>
  BY DEF ProcessRestart
<1> QED BY <1>1, <1>2, <1>3 DEF WriterTypes, TypeOK, RoomForNext

\* Events stay placed, across the end of a process too.
LEMMA PlacedGrows ==
  ASSUME IngestionInv, [IngestionNext]_ingestionVars, NEW p \in Pipes
  PROVE  Placed(p) \subseteq Placed(p)'
<1>1. CASE ProcessRestart
  <2>1. crashLost'[p] = crashLost[p] \cup InPipe(p)
    BY <1>1 DEF ProcessRestart
  <2>2. UNCHANGED <<written, dropped, discarded>>
    BY <1>1 DEF ProcessRestart
  <2> QED BY <2>1, <2>2 DEF Placed
<1>2. CASE ~ProcessRestart
  <2>1. [WriterNext]_writerVars /\ crashLost' = crashLost /\ TypeOK
    BY <1>2, WriterSteps DEF IngestionInv, WriterTypes
  <2>2. Given(p) \subseteq Given(p)'
    BY <2>1, GivenGrows
  <2>3. Placed(p) = Given(p) \cup crashLost[p] /\ Placed(p)' = Given(p)' \cup crashLost'[p]
    BY DEF Placed, Given
  <2> QED BY <2>1, <2>2, <2>3
<1> QED BY <1>1, <1>2

\* An event a call was carrying past a pipeline is placed there.
LEMMA SentIsPlaced ==
  ASSUME TypeOK, NEW e \in Events
  PROVE  /\ SendOp(e) => e \in Placed("op")'
         /\ SendAn(e) => e \in Placed("an")'
<1>1. ASSUME NEW p \in Pipes, TrySend(p, e)
      PROVE  e \in Placed(p)'
  <2>1. e \in Range(chan'[p]) \cup dropped'[p]
    BY <1>1, SendPlaces
  <2> QED BY <2>1 DEF Placed, InPipe
<1> QED BY <1>1 DEF SendOp, SendAn, Pipes

\* A call moves only in the handler's steps, and when the process ends.
LEMMA CallsMove ==
  ASSUME IngestionInv, [IngestionNext]_ingestionVars
  PROVE  \/ call' = call
         \/ \E e \in Events :
              /\ call' = [call EXCEPT ![e] = IF stopping THEN "rejected" ELSE "op"]
              /\ call[e] = "new" /\ Persist /\ e = current'
         \/ current \in Events /\ SendToPipes
              /\ \/ SendOp(current) /\ call' = [call EXCEPT ![current] = "an"]
                 \/ SendAn(current) /\ call' = [call EXCEPT ![current] = "accepted"]
         \/ /\ ProcessRestart
            /\ call' = [e \in Events |-> IF e \in InCall THEN "failed" ELSE call[e]]
<1>1. CASE ConsumerAlone \/ WriterAlone \/ StopWriter \/ UNCHANGED ingestionVars
  <2>1. ASSUME NEW w \in Workers, WorkerStep(w) PROVE call' = call
    BY <2>1 DEF WorkerStep, Receive, Tick, SeeStop, DrainEmpty, Flush
  <2> QED BY <1>1, <2>1
          DEF ConsumerAlone, WriterAlone, StopWriter, ingestionVars, writerVars,
              RaiseFlag, StopStep, CloseStopChan, WaitForWorkers
<1>2. CASE HandlerStep
  <2>1. CASE \/ \E o \in Outcomes : FailBeforePersist(o)
             \/ HandlerReturns
    BY <2>1 DEF FailBeforePersist, HandlerReturns, writerVars
  <2>2. CASE Persist
    BY <2>2, PersistBuilds DEF IngestionInv, CheckStopping, Enter
  <2>3. CASE SendToPipes
    BY <2>3 DEF SendToPipes, SendOp, SendAn, IngestionInv, PairInHand
  <2> QED BY <1>2, <2>1, <2>2, <2>3 DEF HandlerStep
<1>3. CASE ProcessRestart
  BY <1>3 DEF ProcessRestart
<1> QED BY <1>1, <1>2, <1>3 DEF IngestionNext

LEMMA PairInHandStep ==
  ASSUME IngestionInv, [IngestionNext]_ingestionVars
  PROVE  PairInHand'
<1> USE DEF IngestionInv, PairInHand
<1>0. call \in [Events -> CallStates]
  BY DEF WriterTypes, TypeOK
<1>1. CASE ConsumerAlone
  <2>1. UNCHANGED <<current, call>>
    BY <1>1 DEF ConsumerAlone, writerVars
  <2>2. CASE pc = "handle"
    <3>1. UNCHANGED <<pc, position>>
      BY <1>1, <2>2 DEF ConsumerAlone, Produce, PollStep, Subscribe, SubscribeFails,
             SelectStop, SelectDefault, ReadMessage, ReadNothing,
             ReadConnectionError, RetryStep, BackoffElapsed, BackoffCancelled,
             SendToDLQ, CommitOffset, Cancel, ShutdownStep, CloseConsumerStopChan,
             CloseAdapter, loopVars
    <3> QED BY <2>1, <3>1
  <2> QED BY <2>1, <2>2
<1>2. CASE \/ \E o \in Outcomes : FailBeforePersist(o)
           \/ HandlerReturns \/ ProcessRestart
  BY <1>2 DEF FailBeforePersist, HandlerReturns, ProcessRestart
<1>3. CASE Persist
  <2>1. /\ current' \in Events /\ current'[1] = position
        /\ pc = "handle" /\ UNCHANGED <<pc, position>>
    BY <1>3, PersistBuilds DEF Persist, consumerVars, loopVars
  <2>2. call'[current'] \in {"op", "rejected"}
    BY <1>0, <1>3, <2>1 DEF Persist, CheckStopping
  <2> QED BY <2>1, <2>2
<1>4. CASE SendToPipes
  <2>1. current \in Events /\ UNCHANGED <<current, pc, position>>
    BY <1>4 DEF SendToPipes, consumerVars, loopVars
  <2>2. call'[current] \in {"an", "accepted"}
    BY <1>0, <1>4, <2>1 DEF SendToPipes, SendOp, SendAn
  <2> QED BY <2>1, <2>2
<1>5. CASE WriterAlone \/ StopWriter \/ UNCHANGED ingestionVars
  <2>1. UNCHANGED <<current, pc, position>>
    BY <1>5 DEF WriterAlone, StopWriter, ingestionVars, consumerVars, loopVars
  <2>2. ASSUME NEW w \in Workers, WorkerStep(w) PROVE call' = call
    BY <2>2 DEF WorkerStep, Receive, Tick, SeeStop, DrainEmpty, Flush
  <2>3. call' = call
    BY <1>5, <2>2 DEF WriterAlone, StopWriter, ingestionVars, writerVars,
           RaiseFlag, StopStep, CloseStopChan, WaitForWorkers
  <2> QED BY <2>1, <2>3
<1> QED BY <1>1, <1>2, <1>3, <1>4, <1>5 DEF IngestionNext, HandlerStep

LEMMA CallsArePlacedStep ==
  ASSUME IngestionInv, [IngestionNext]_ingestionVars
  PROVE  CallsArePlaced'
<1>0. /\ Placed("op") \subseteq Placed("op")' /\ Placed("an") \subseteq Placed("an")'
      /\ call \in [Events -> CallStates]
      /\ CallsArePlaced
      /\ TypeOK
  BY PlacedGrows DEF Pipes, IngestionInv, WriterTypes, TypeOK
<1> SUFFICES ASSUME NEW e \in Events
             PROVE  /\ call'[e] \in {"an", "accepted"} => e \in Placed("op")'
                    /\ call'[e] = "accepted" => e \in Placed("an")'
  BY DEF CallsArePlaced
<1>1. /\ call[e] \in {"an", "accepted"} => e \in Placed("op")'
      /\ call[e] = "accepted" => e \in Placed("an")'
  BY <1>0 DEF CallsArePlaced
<1>2. CASE \/ call'[e] = call[e]
           \/ call'[e] \notin {"an", "accepted"}
  BY <1>1, <1>2
<1>3. CASE current = e /\ SendOp(e) /\ call'[e] = "an"
  BY <1>0, <1>3, SentIsPlaced
<1>4. CASE current = e /\ SendAn(e) /\ call'[e] = "accepted"
  <2>1. call[e] = "an"
    BY <1>4 DEF SendAn
  <2> QED BY <1>0, <1>1, <1>4, <2>1, SentIsPlaced
<1> HIDE DEF SendOp, SendAn
<1> QED BY <1>0, <1>2, <1>3, <1>4, CallsMove

LEMMA HandledIsPlacedStep ==
  ASSUME IngestionInv, [IngestionNext]_ingestionVars
  PROVE  HandledIsPlaced'
<1> SUFFICES ASSUME NEW p \in Pipes, NEW o \in handled'
             PROVE  o \in MessagesOf(Placed(p)')
  BY DEF HandledIsPlaced, MessagesOf
<1>1. Placed(p) \subseteq Placed(p)'
  BY PlacedGrows
<1>2. CASE o \in handled
  BY <1>1, <1>2 DEF IngestionInv, HandledIsPlaced, MessagesOf
<1>3. CASE o \notin handled
  <2>1. HandlerReturns /\ HandleMessage("nil") /\ o = position
        /\ call[current] = "accepted" /\ current # None
    <3>1. CASE ConsumerAlone
      BY <1>3, <3>1 DEF ConsumerAlone, Produce, PollStep, Subscribe, SubscribeFails,
             SelectStop, SelectDefault, ReadMessage, ReadNothing,
             ReadConnectionError, RetryStep, BackoffElapsed, BackoffCancelled,
             SendToDLQ, CommitOffset, Cancel, ShutdownStep, CloseConsumerStopChan,
             CloseAdapter, historyVars
    <3>2. CASE \/ \E x \in Outcomes : FailBeforePersist(x)
               \/ HandlerReturns
      BY <1>3, <3>2 DEF FailBeforePersist, HandlerReturns, HandleMessage
    <3>3. CASE \/ Persist \/ SendToPipes \/ WriterAlone \/ StopWriter
               \/ ProcessRestart \/ UNCHANGED ingestionVars
      BY <1>3, <3>3 DEF Persist, SendToPipes, WriterAlone, StopWriter,
             ProcessRestart, Restart, ingestionVars, consumerVars, historyVars
    <3> QED BY <3>1, <3>2, <3>3 DEF IngestionNext, HandlerStep
  <2>2. current \in Events /\ current[1] = o
    BY <2>1 DEF IngestionInv, PairInHand
  <2>3. current \in Placed(p)
    BY <2>1, <2>2 DEF IngestionInv, CallsArePlaced, Pipes
  <2> QED BY <1>1, <2>2, <2>3 DEF MessagesOf
<1> QED BY <1>2, <1>3

\* Only a new process has an open adapter again.
LEMMA ClosedStaysClosed ==
  ASSUME [IngestionNext]_ingestionVars, ~ProcessRestart
  PROVE  ~adapterOpen => ~adapterOpen'
<1> USE DEF shutdownVars
<1>1. CASE ConsumerAlone
  <2>1. CASE Produce \/ Cancel \/ ShutdownStep
    BY <2>1 DEF Produce, Cancel, ShutdownStep, CloseConsumerStopChan, CloseAdapter
  <2>2. CASE PollStep
    BY <2>2 DEF PollStep, Subscribe, SubscribeFails, SelectStop, SelectDefault,
                ReadMessage, ReadNothing, ReadConnectionError
  <2>3. CASE RetryStep
    BY <2>3 DEF RetryStep, BackoffElapsed, BackoffCancelled, SendToDLQ, CommitOffset
  <2> QED BY <1>1, <2>1, <2>2, <2>3 DEF ConsumerAlone
<1>2. CASE HandlerStep
  <2>1. ASSUME NEW o \in Outcomes, FailBeforePersist(o) PROVE adapterOpen' = adapterOpen
    BY <2>1 DEF FailBeforePersist, HandleMessage
  <2>2. CASE Persist \/ SendToPipes \/ HandlerReturns
    BY <2>2 DEF Persist, SendToPipes, HandlerReturns, HandleMessage, consumerVars
  <2> QED BY <1>2, <2>1, <2>2 DEF HandlerStep
<1>3. CASE WriterAlone \/ StopWriter \/ UNCHANGED ingestionVars
  BY <1>3 DEF WriterAlone, StopWriter, ingestionVars, consumerVars
<1> QED BY <1>1, <1>2, <1>3 DEF IngestionNext

\* How offset, position and the end of the log move: a commit needs the adapter, and
\* so does a read, which goes on by one; a consumer starts at the offset or at the end.
PositionMoves ==
  \/ /\ logEnd' \in {logEnd, logEnd + 1}
     /\ UNCHANGED <<committed, position, base>>
     /\ adapterOpen' => adapterOpen
     /\ ~ReadMessage
  \/ /\ UNCHANGED <<logEnd, committed, adapterOpen>>
     /\ \/ committed = 0 /\ position' = logEnd /\ base' = logEnd
        \/ committed # 0 /\ position' = committed /\ base' = base
     /\ ~ReadMessage
  \/ /\ UNCHANGED <<logEnd, committed, base, adapterOpen>>
     /\ ReadMessage /\ adapterOpen /\ position < logEnd /\ position' = position + 1
  \/ /\ UNCHANGED <<logEnd, position, base, adapterOpen>>
     /\ adapterOpen /\ committed' = position
     /\ ~ReadMessage
  \/ /\ UNCHANGED <<logEnd, committed, base>>
     /\ position' = 0
     /\ ~ReadMessage

LEMMA PositionsMove ==
  ASSUME [ConsumerNext]_consumerVars
  PROVE  PositionMoves
<1> USE DEF brokerVars, loopVars, shutdownVars, historyVars, PositionMoves
<1>1. CASE Produce \/ Cancel \/ ShutdownStep \/ UNCHANGED consumerVars
  <2>1. UNCHANGED pc
    BY <1>1 DEF Produce, Cancel, ShutdownStep, CloseConsumerStopChan, CloseAdapter,
                consumerVars
  <2>2. ~ReadMessage
    BY <2>1 DEF ReadMessage
  <2> QED BY <1>1, <2>2
          DEF Produce, Cancel, ShutdownStep, CloseConsumerStopChan, CloseAdapter,
              consumerVars
<1>2. CASE Subscribe \/ Restart
  BY <1>2 DEF Subscribe, Restart, ReadMessage
<1>3. CASE \/ SubscribeFails \/ SelectStop \/ SelectDefault \/ ReadNothing
           \/ ReadConnectionError \/ BackoffElapsed \/ BackoffCancelled \/ SendToDLQ
           \/ \E o \in Outcomes : HandleMessage(o)
  <2>1. UNCHANGED <<logEnd, committed, position, base, adapterOpen>>
    BY <1>3 DEF SubscribeFails, SelectStop, SelectDefault, ReadNothing,
                ReadConnectionError, BackoffElapsed, BackoffCancelled, SendToDLQ,
                HandleMessage
  <2>2. ~ReadMessage
    BY <1>3 DEF SubscribeFails, SelectStop, SelectDefault, ReadNothing,
                ReadConnectionError, BackoffElapsed, BackoffCancelled, SendToDLQ,
                HandleMessage, ReadMessage
  <2> QED BY <2>1, <2>2
<1>4. CASE ReadMessage
  BY <1>4 DEF ReadMessage
<1>5. CASE CommitOffset
  BY <1>5 DEF CommitOffset, ReadMessage
<1> QED BY <1>1, <1>2, <1>3, <1>4, <1>5
        DEF ConsumerNext, LoopStep, PollStep, RetryStep

\* The stopping flag goes up only behind a closed adapter, and comes down only with
\* the process.
LEMMA FlagRises ==
  ASSUME IngestionInv, [IngestionNext]_ingestionVars, ~ProcessRestart
  PROVE  /\ stopping => stopping'
         /\ stopping' => stopping \/ ~adapterOpen
<1> USE DEF stopping
<1>1. CASE StopWriter
  BY <1>1 DEF StopWriter, RaiseFlag
<1>2. CASE WriterAlone
  <2>1. ASSUME NEW w \in Workers, WorkerStep(w) PROVE stop' = stop
    BY <2>1 DEF WorkerStep, Receive, Tick, SeeStop, DrainEmpty, Flush
  <2> QED BY <1>2, <2>1 DEF WriterAlone, StopStep, CloseStopChan, WaitForWorkers
<1>3. CASE HandlerStep
  <2>1. CASE \/ \E o \in Outcomes : FailBeforePersist(o)
             \/ HandlerReturns
    BY <2>1 DEF FailBeforePersist, HandlerReturns, writerVars
  <2>2. CASE Persist \/ SendToPipes
    BY <2>2 DEF Persist, CheckStopping, SendToPipes, SendOp, SendAn
  <2> QED BY <1>3, <2>1, <2>2 DEF HandlerStep
<1>4. CASE ConsumerAlone \/ UNCHANGED ingestionVars
  BY <1>4 DEF ConsumerAlone, ingestionVars, writerVars
<1> QED BY <1>1, <1>2, <1>3, <1>4 DEF IngestionNext

LEMMA ClosedBeforeStopStep ==
  ASSUME IngestionInv, [IngestionNext]_ingestionVars
  PROVE  ClosedBeforeStop'
<1>1. CASE ProcessRestart
  BY <1>1 DEF ProcessRestart, ClosedBeforeStop, stopping
<1>2. CASE ~ProcessRestart
  <2>1. stopping' => stopping \/ ~adapterOpen
    BY <1>2, FlagRises
  <2>2. ~adapterOpen => ~adapterOpen'
    BY <1>2, ClosedStaysClosed
  <2> QED BY <2>1, <2>2 DEF IngestionInv, ClosedBeforeStop
<1> QED BY <1>1, <1>2

\* What the history of refusals may gain and lose in a step.
LEMMA RefusalsMove ==
  ASSUME [IngestionNext]_ingestionVars
  PROVE  \/ refused' = IF ReadMessage THEN refused \ {position'} ELSE refused
         \/ Persist /\ stopping /\ refused' = refused \cup {position}
<1>1. CASE ConsumerAlone
  BY <1>1 DEF ConsumerAlone
<1>2. CASE Persist
  <2>1. ~ReadMessage
    BY <1>2 DEF Persist, ReadMessage
  <2> QED BY <1>2, <2>1 DEF Persist
<1>3. CASE \/ \E o \in Outcomes : FailBeforePersist(o)
           \/ SendToPipes \/ HandlerReturns \/ WriterAlone \/ StopWriter
           \/ ProcessRestart \/ UNCHANGED ingestionVars
  <2>1. refused' = refused
    BY <1>3 DEF FailBeforePersist, SendToPipes, HandlerReturns, WriterAlone,
                StopWriter, ProcessRestart, ingestionVars
  <2>2. ~ReadMessage
    BY <1>3 DEF FailBeforePersist, SendToPipes, HandlerReturns, WriterAlone,
                StopWriter, ProcessRestart, ingestionVars, consumerVars, loopVars,
                HandleMessage, Restart, ReadMessage
  <2> QED BY <2>1, <2>2
<1> QED BY <1>1, <1>2, <1>3 DEF IngestionNext, HandlerStep

LEMMA RefusedStep ==
  ASSUME IngestionInv, [IngestionNext]_ingestionVars
  PROVE  WithinLog' /\ RefusedIsRedelivered'
<1>1. /\ committed \in Nat /\ position \in Nat /\ base \in Nat /\ logEnd \in Nat
      /\ Offsets \subseteq Nat
      /\ WithinLog /\ RefusedIsRedelivered
  BY DEF IngestionInv, ConsumerInv, ConsumerTypeOK, Offsets
<1>2. PositionMoves
  BY ConsumerSteps, PositionsMove
<1>3. logEnd' \in Nat /\ logEnd <= logEnd'
  BY <1>1, <1>2 DEF PositionMoves
<1>4. committed' <= logEnd' /\ position' <= logEnd'
  BY <1>1, <1>2, <1>3 DEF PositionMoves, WithinLog
<1>5. CASE Persist /\ stopping /\ refused' = refused \cup {position}
  <2>1. position \in Offsets /\ committed < position
    BY <1>5, PersistBuilds DEF IngestionInv
  <2>2. UNCHANGED <<committed, position, base, adapterOpen>>
    BY <1>5 DEF Persist, consumerVars, brokerVars, loopVars, shutdownVars, historyVars
  <2>3. ~adapterOpen
    BY <1>5 DEF IngestionInv, ClosedBeforeStop
  <2>4. WithinLog'
    BY <1>1, <1>3, <1>4, <1>5, <2>1 DEF WithinLog
  <2> QED BY <1>1, <1>5, <2>1, <2>2, <2>3, <2>4 DEF RefusedIsRedelivered
<1>6. CASE refused' = IF ReadMessage THEN refused \ {position'} ELSE refused
  <2>1. WithinLog'
    <3>1. refused' \subseteq refused
      BY <1>6
    <3>2. refused \subseteq {o \in Offsets : o <= logEnd'}
      BY <1>1, <1>3 DEF WithinLog
    <3>3. Offsets' = Offsets
      BY DEF Offsets
    <3> QED BY <1>4, <3>1, <3>2, <3>3 DEF WithinLog
  <2>2. ASSUME NEW o \in refused'
        PROVE  o <= base' \/ (committed' < o /\ (adapterOpen' => position' < o))
    <3>1. /\ o \in refused /\ o \in Nat /\ o <= logEnd
          /\ o <= base \/ (committed < o /\ (adapterOpen => position < o))
          /\ ReadMessage => o # position'
      BY <1>1, <1>6, <2>2 DEF WithinLog, RefusedIsRedelivered
    <3> QED BY <1>1, <1>2, <3>1 DEF PositionMoves, WithinLog
  <2> QED BY <2>1, <2>2 DEF RefusedIsRedelivered
<1> QED BY <1>5, <1>6, RefusalsMove

-----------------------------------------------------------------------------
(* Theorems about the composition *)

\* Under the real handler the consumer behaves as KafkaConsumer says, so what is
\* proved of it with any outcomes holds of the intake path.
THEOREM IntakeIsConsumer == IngestionSpec => ConsumerSpec
<1>1. IngestionInit => ConsumerInit
  BY DEF IngestionInit
<1>2. [IngestionNext]_ingestionVars => [ConsumerNext]_consumerVars
  BY ConsumerSteps
<1> QED BY <1>1, <1>2, PTL DEF IngestionSpec, ConsumerSpec

\* Every reachable state of the intake path satisfies the inductive invariant.
THEOREM IngestionInvariant == IngestionSpec => []IngestionInv
<1>1. IngestionInv /\ [IngestionNext]_ingestionVars => IngestionInv'
  <2> SUFFICES ASSUME IngestionInv, [IngestionNext]_ingestionVars
               PROVE  IngestionInv'
    OBVIOUS
  <2>1. ConsumerInv'
    BY ConsumerSteps, ConsumerTypeStep, ConsumerCountersStep, LoopPositionStep
       DEF IngestionInv, ConsumerInv
  <2>2. WriterTypes'
    <3>1. CASE ProcessRestart
      BY <3>1, RestartTypes DEF IngestionInv
    <3>2. CASE ~ProcessRestart
      BY <3>2, WriterSteps, TypeStep DEF IngestionInv, WriterTypes
    <3> QED BY <3>1, <3>2
  <2> QED BY <2>1, <2>2, PairInHandStep, CallsArePlacedStep, HandledIsPlacedStep,
             ClosedBeforeStopStep, RefusedStep DEF IngestionInv
<1> QED BY <1>1, IngestionInvInit, PTL DEF IngestionSpec

\* No hand-over from consumer to writer commits a message that neither has: with any
\* workers, buffers, retries, failures and crashes, a message the group has passed
\* was due for the DLQ or given up, or its event is placed in both pipelines.
THEOREM CommittedAreAccounted == IngestionSpec => []CommittedIsAccounted
<1>1. IngestionInv => CommittedIsAccounted
  <2> SUFFICES ASSUME IngestionInv, NEW o \in Passed,
                      o \notin dlq \cup dlqLost \cup abandoned
               PROVE  \A p \in Pipes : o \in MessagesOf(Placed(p))
    BY DEF CommittedIsAccounted
  <2>1. o \in handled
    BY DEF Passed, IngestionInv, ConsumerInv, CommitPassesOnlyDecided, Decided
  <2> QED BY <2>1 DEF IngestionInv, HandledIsPlaced
<1> QED BY <1>1, IngestionInvariant, PTL

\* Whatever the stopping writer has refused is delivered again before the group goes
\* past it, for any restarts, since the adapter is closed before the writer is told to
\* stop; only a group without a committed offset is put behind it.
THEOREM RefusedAreRedelivered == IngestionSpec => []RefusedIsRedelivered
<1>1. IngestionInv => RefusedIsRedelivered
  BY DEF IngestionInv
<1> QED BY <1>1, IngestionInvariant, PTL
=============================================================================

--------------------------- MODULE DualEventWriter ---------------------------
(***************************************************************************)
(* The asynchronous writer between the Kafka consumer and PostgreSQL       *)
(* (repositories/dual_event_writer.go).  An event goes into two pipelines, *)
(* one per table; each is a bounded Go channel read by a few workers that  *)
(* collect batches and write a batch in one transaction.  Stop raises a    *)
(* flag, closes a channel all workers select on, and waits for them.       *)
(*                                                                         *)
(* An element of Events is one pair of entities built by one processing    *)
(* attempt: it is handed to the writer at most once, and it stands for the *)
(* goroutine that carries it through SaveEventAsync or SaveEvent.  The     *)
(* rows, the COPY protocol, the metrics and the log are left out.          *)
(***************************************************************************)
EXTENDS Naturals, Sequences, FiniteSets, Functions

CONSTANTS Events,              \* the entity pairs that may be handed over
          Raw,                 \* those that come with their raw message
          OpWorkers,           \* the goroutines running operationalWorker
          AnWorkers,           \* the goroutines running analyticalWorker
          PipelineBufferSize,  \* capacity of each channel (1000 in the code)
          BatchSize,           \* rows per flush (500 in the code)
          MaxCallers           \* goroutines that are inside a call at a time

ASSUME WriterAssumption ==
  /\ IsFiniteSet(Events)
  /\ Raw \subseteq Events
  /\ OpWorkers \cap AnWorkers = {}
  /\ OpWorkers # {} /\ AnWorkers # {}
  /\ PipelineBufferSize \in Nat \ {0}
  /\ BatchSize \in Nat \ {0}
  /\ MaxCallers \in Nat \ {0}

VARIABLES
  call,       \* where the call that carries an event is
  stop,       \* how far Stop has come
  chan,       \* opChannel and anChannel
  worker,     \* where each worker is in its loop
  batch,      \* the local batch of each worker
  written,    \* events whose insert was committed, per table
  dropped,    \* events that found the channel full, per pipeline
  discarded,  \* events of batches that failed, per pipeline
  spilled,    \* events passed to the spillover callback
  late        \* history: events enqueued after stopChan was closed

pipelineVars == <<chan, worker, batch, discarded>>
writerVars == <<call, stop, chan, worker, batch, written, dropped, discarded,
                spilled, late>>

-----------------------------------------------------------------------------
Pipes == {"op", "an"}
Workers == OpWorkers \cup AnWorkers
WorkersOf(p) == IF p = "op" THEN OpWorkers ELSE AnWorkers
PipeOf(w) == IF w \in OpWorkers THEN "op" ELSE "an"

\* "op" and "an": about to enqueue there.  "sync": SaveEvent between its two
\* inserts.  The rest are the ends of a call.
CallStates == {"new", "op", "an", "sync", "accepted", "rejected", "saved",
               "failed"}
InCall == {e \in Events : call[e] \in {"op", "an", "sync"}}

\* "flush", "drainFlush" and "lastFlush": inside flush(), called from the
\* select loop, from the drain loop, and before returning.
WorkerStates == {"select", "flush", "drain", "drainFlush", "lastFlush",
                 "exited"}
AfterFlush == [flush |-> "select", drainFlush |-> "drain", lastFlush |-> "exited"]

StopStates == {"up", "flagged", "closed", "stopped"}
stopping == stop # "up"                          \* the atomic flag
stopChanClosed == stop \in {"closed", "stopped"}

-----------------------------------------------------------------------------
WriterInit ==
  /\ call = [e \in Events |-> "new"]
  /\ stop = "up"
  /\ chan = [p \in Pipes |-> <<>>]
  /\ worker = [w \in Workers |-> "select"]
  /\ batch = [w \in Workers |-> <<>>]
  /\ written = [p \in Pipes |-> {}]
  /\ dropped = [p \in Pipes |-> {}]
  /\ discarded = [p \in Pipes |-> {}]
  /\ spilled = {}
  /\ late = [p \in Pipes |-> {}]

\* A goroutine enters a call with an event of its own.
Enter(e) == /\ call[e] = "new"
            /\ Cardinality(InCall) < MaxCallers

\* Mutant: the flag is not read.
CheckStoppingNever(e) ==
  /\ Enter(e)
  /\ call' = [call EXCEPT ![e] = "op"]
  /\ UNCHANGED <<stop, pipelineVars, written, dropped, spilled, late>>

\* SaveEventAsyncWithRaw reads the flag once, before it touches a channel.
CheckStopping(e) ==
  /\ Enter(e)
  /\ call' = [call EXCEPT ![e] = IF stopping THEN "rejected" ELSE "op"]
  /\ UNCHANGED <<stop, pipelineVars, written, dropped, spilled, late>>

\* A non-blocking send: the event is in the channel, or it is dropped.
TrySend(p, e) ==
  IF Len(chan[p]) < PipelineBufferSize
    THEN /\ chan' = [chan EXCEPT ![p] = Append(@, e)]
         /\ late' = [late EXCEPT ![p] = IF stopChanClosed THEN @ \cup {e}
                                                          ELSE @]
         /\ UNCHANGED dropped
    ELSE /\ dropped' = [dropped EXCEPT ![p] = @ \cup {e}]
         /\ UNCHANGED <<chan, late>>

\* handleSpillover passes on only events that came with their raw message.
HandleSpillover(e) == IF e \in Raw THEN spilled \cup {e} ELSE spilled

SendOp(e) ==
  /\ call[e] = "op"
  /\ TrySend("op", e)
  /\ spilled' = IF Len(chan["op"]) < PipelineBufferSize
                  THEN spilled ELSE HandleSpillover(e)
  /\ call' = [call EXCEPT ![e] = "an"]
  /\ UNCHANGED <<stop, worker, batch, written, discarded>>

SendAn(e) ==
  /\ call[e] = "an"
  /\ TrySend("an", e)
  /\ call' = [call EXCEPT ![e] = "accepted"]
  /\ UNCHANGED <<stop, worker, batch, written, discarded, spilled>>

\* One statement of the synchronous SaveEvent.  It may fail, and a statement
\* that was applied may still be reported as failed (a lost reply).
Insert(p, e, next) ==
  \E applied, acked \in BOOLEAN :
    /\ acked => applied
    /\ written' = [written EXCEPT ![p] = IF applied THEN @ \cup {e} ELSE @]
    /\ call' = [call EXCEPT ![e] = IF acked THEN next ELSE "failed"]
    /\ UNCHANGED <<stop, pipelineVars, dropped, spilled, late>>

\* Mutant: the analytical row is inserted first.
SyncAnFirst(e) == Enter(e) /\ Insert("an", e, "sync")

SyncOp(e) == Enter(e) /\ Insert("op", e, "sync")
SyncAn(e) == call[e] = "sync" /\ Insert("an", e, "saved")

-----------------------------------------------------------------------------
\* A worker's select has three cases: an event, the ticker, the closed stopChan.
\* Its drain loop has two: an event, or nothing left.
Receive(w) ==
  LET p == PipeOf(w) IN
  /\ worker[w] \in {"select", "drain"}
  /\ chan[p] # <<>>
  /\ chan' = [chan EXCEPT ![p] = Tail(@)]
  /\ batch' = [batch EXCEPT ![w] = Append(@, Head(chan[p]))]
  /\ worker' = [worker EXCEPT ![w] =
                  IF Len(batch[w]) + 1 < BatchSize THEN @
                  ELSE IF @ = "select" THEN "flush" ELSE "drainFlush"]
  /\ UNCHANGED <<call, stop, written, dropped, discarded, spilled, late>>

\* Mutant: the ticker never fires.
TickNever(w) == w \notin Workers /\ UNCHANGED writerVars

\* A tick with an empty batch changes nothing.
Tick(w) ==
  /\ worker[w] = "select"
  /\ batch[w] # <<>>
  /\ worker' = [worker EXCEPT ![w] = "flush"]
  /\ UNCHANGED <<call, stop, chan, batch, written, dropped, discarded,
                 spilled, late>>

\* Mutant: a worker that sees stopChan closed flushes and leaves without draining.
SeeStopLeaves(w) ==
  /\ worker[w] = "select"
  /\ stopChanClosed
  /\ worker' = [worker EXCEPT ![w] = "lastFlush"]
  /\ UNCHANGED <<call, stop, chan, batch, written, dropped, discarded,
                 spilled, late>>

SeeStop(w) ==
  /\ worker[w] = "select"
  /\ stopChanClosed
  /\ worker' = [worker EXCEPT ![w] = "drain"]
  /\ UNCHANGED <<call, stop, chan, batch, written, dropped, discarded,
                 spilled, late>>

\* Mutant: the drain loop has no default case, an idle worker waits forever.
DrainBlocks(w) ==
  /\ worker[w] = "drain"
  /\ chan[PipeOf(w)] = <<>>
  /\ batch[w] # <<>>
  /\ worker' = [worker EXCEPT ![w] = "lastFlush"]
  /\ UNCHANGED <<call, stop, chan, batch, written, dropped, discarded,
                 spilled, late>>

DrainEmpty(w) ==
  /\ worker[w] = "drain"
  /\ chan[PipeOf(w)] = <<>>
  /\ worker' = [worker EXCEPT ![w] =
                  IF batch[w] = <<>> THEN "exited" ELSE "lastFlush"]
  /\ UNCHANGED <<call, stop, chan, batch, written, dropped, discarded,
                 spilled, late>>

\* Mutant: batch = batch[:0] is missing after a failed write.
FlushKeepsBatch(w) ==
  LET p == PipeOf(w) IN
  /\ worker[w] \in DOMAIN AfterFlush
  /\ \/ /\ written' = [written EXCEPT ![p] = @ \cup Range(batch[w])]
        /\ batch' = [batch EXCEPT ![w] = <<>>]
        /\ UNCHANGED discarded
     \/ /\ discarded' = [discarded EXCEPT ![p] = @ \cup Range(batch[w])]
        /\ UNCHANGED <<written, batch>>
  /\ worker' = [worker EXCEPT ![w] = AfterFlush[@]]
  /\ UNCHANGED <<call, stop, chan, dropped, spilled, late>>

\* The batch is one transaction: COPY into a temporary table, INSERT from it,
\* COMMIT (or a single INSERT when there is no pgx connection).  The batch is
\* emptied whether or not the transaction was applied.
Flush(w) ==
  LET p == PipeOf(w) IN
  /\ worker[w] \in DOMAIN AfterFlush
  /\ \E applied \in BOOLEAN :
       IF applied
         THEN /\ written' = [written EXCEPT ![p] = @ \cup Range(batch[w])]
              /\ UNCHANGED discarded
         ELSE /\ discarded' = [discarded EXCEPT ![p] = @ \cup Range(batch[w])]
              /\ UNCHANGED written
  /\ batch' = [batch EXCEPT ![w] = <<>>]
  /\ worker' = [worker EXCEPT ![w] = AfterFlush[@]]
  /\ UNCHANGED <<call, stop, chan, dropped, spilled, late>>

-----------------------------------------------------------------------------
\* Stop: the flag, then the channel, then wg.Wait.
RaiseFlag == /\ stop = "up"
             /\ stop' = "flagged"
             /\ UNCHANGED <<call, pipelineVars, written, dropped, spilled, late>>

CloseStopChan == /\ stop = "flagged"
                 /\ stop' = "closed"
                 /\ UNCHANGED <<call, pipelineVars, written, dropped, spilled,
                                late>>

WaitForWorkers == /\ stop = "closed"
                  /\ \A w \in Workers : worker[w] = "exited"
                  /\ stop' = "stopped"
                  /\ UNCHANGED <<call, pipelineVars, written, dropped, spilled,
                                 late>>

-----------------------------------------------------------------------------
CallStep(e) == SendOp(e) \/ SendAn(e) \/ SyncAn(e)
NewCall(e) == CheckStopping(e) \/ SyncOp(e)
WorkerStep(w) == Receive(w) \/ Tick(w) \/ SeeStop(w) \/ DrainEmpty(w) \/ Flush(w)
StopStep == CloseStopChan \/ WaitForWorkers

WriterNext == \/ \E e \in Events : NewCall(e) \/ CallStep(e)
              \/ \E w \in Workers : WorkerStep(w)
              \/ RaiseFlag \/ StopStep

WriterSpec == WriterInit /\ [][WriterNext]_writerVars

\* A call that was entered and a Stop that was begun go on; a worker goes on
\* as long as one of its cases is ready, its ticker included, and the database
\* answers every statement.  Nobody has to make a call or to stop the writer.
WriterFairness == /\ \A e \in Events : WF_writerVars(CallStep(e))
                  /\ \A w \in Workers : WF_writerVars(WorkerStep(w))
                  /\ WF_writerVars(StopStep)

FairWriterSpec == WriterSpec /\ WriterFairness
-----------------------------------------------------------------------------
(* Properties *)

\* What a pipeline still holds in memory.
InPipe(p) == Range(chan[p]) \cup UNION {Range(batch[w]) : w \in WorkersOf(p)}

\* Events that SaveEventAsync has carried past pipeline p.
Handed(p) == {e \in Events :
                call[e] \in IF p = "op" THEN {"an", "accepted"} ELSE {"accepted"}}

SyncCalls == {e \in Events : call[e] \in {"sync", "saved", "failed"}}

\* The type invariant: channels and batches are bounded sequences of events.
TypeOK ==
  /\ call \in [Events -> CallStates]
  /\ stop \in StopStates
  /\ chan \in [Pipes -> Seq(Events)]
  /\ \A p \in Pipes : Len(chan[p]) <= PipelineBufferSize
  /\ worker \in [Workers -> WorkerStates]
  /\ batch \in [Workers -> Seq(Events)]
  /\ \A w \in Workers : Len(batch[w]) <= BatchSize
  /\ written \in [Pipes -> SUBSET Events]
  /\ dropped \in [Pipes -> SUBSET Events]
  /\ discarded \in [Pipes -> SUBSET Events]
  /\ spilled \in SUBSET Events
  /\ late \in [Pipes -> SUBSET Events]

ConservationAt(p) ==
  /\ Handed(p) = InPipe(p) \cup dropped[p] \cup discarded[p]
                    \cup (written[p] \ SyncCalls)
  /\ InPipe(p) \cap (written[p] \cup dropped[p] \cup discarded[p]) = {}
  /\ written[p] \cap (dropped[p] \cup discarded[p]) = {}
  /\ dropped[p] \cap discarded[p] = {}
  /\ IsInjective(chan[p])
  /\ \A w \in WorkersOf(p) :
       /\ IsInjective(batch[w])
       /\ Range(batch[w]) \cap Range(chan[p]) = {}
       /\ \A v \in WorkersOf(p) \ {w} : Range(batch[w]) \cap Range(batch[v]) = {}

\* Every event a call has carried past a pipeline is in exactly one place: in
\* the channel or in one worker's batch, and there once, or in the table, or
\* dropped at the full channel, or discarded with a failed batch.  Receiving,
\* draining and flushing (operationalWorker, analyticalWorker) neither lose an
\* event nor write it twice, however the workers interleave.
Conservation == \A p \in Pipes : ConservationAt(p)

\* Once Stop has returned, what is left in a channel was put there by a call
\* that had read the flag before Stop raised it and sent after stopChan was
\* closed; everything enqueued earlier has been flushed, and no batch is held.
StrandedOnlyByRace ==
  stop = "stopped" =>
    /\ \A p \in Pipes : Range(chan[p]) \subseteq late[p]
    /\ \A w \in Workers : batch[w] = <<>>

\* That race strands at most one event per goroutine that can be in a call: a
\* call that starts after the flag is raised is turned away (the first lines of
\* SaveEventAsyncWithRaw).
StrandedBound ==
  \A p \in Pipes : Cardinality(late[p]) <= MaxCallers

\* The synchronous SaveEvent inserts the operational row first, so whatever
\* fails or is reported as failed, an event it put in the analytical table is in
\* the operational one too, and a call that returned nil put it in both.
SyncOperationalFirst ==
  /\ written["an"] \cap SyncCalls \subseteq written["op"]
  /\ \A e \in Events : call[e] = "saved" =>
       e \in written["op"] /\ e \in written["an"]

\* A row is written by a worker only while Stop has not returned: the container
\* closes the database right after DualEventWriter.Stop.
NoFlushAfterStop ==
  [][stop = "stopped" =>
       \A p \in Pipes : written'[p] \subseteq written[p] \cup SyncCalls']_writerVars

\* Stop returns: the workers see the closed channel, drain and exit, whatever
\* calls are still in progress and whatever the database answers.
StopReturns == stop = "closed" ~> stop = "stopped"

\* An event that was enqueued before stopChan was closed leaves the pipeline: its
\* batch fills up, or the ticker or the drain flushes it.
EnqueuedSettles ==
  \A p \in Pipes, e \in Events :
    e \in Range(chan[p]) /\ e \notin late[p]
      ~> e \in written[p] \cup discarded[p]

Batches == {B \in SUBSET Events : Cardinality(B) <= BatchSize}

OpSink == INSTANCE EventSink WITH
            pending <- InPipe("op"),
            stored <- written["op"],
            lost <- dropped["op"] \cup discarded["op"]

AnSink == INSTANCE EventSink WITH
            pending <- InPipe("an"),
            stored <- written["an"],
            lost <- dropped["an"] \cup discarded["an"]

\* Each pipeline implements EventSink: an event is taken once, batches are stored
\* or lost as a whole and never exceed BatchSize, and what is stored or lost
\* stays so, although channel, batches and transactions come in between.
PipesAreSinks == OpSink!SinkSpec /\ AnSink!SinkSpec
=============================================================================

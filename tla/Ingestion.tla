------------------------------ MODULE Ingestion ------------------------------
(***************************************************************************)
(* The intake path as container.go wires it: the Kafka consumer calls      *)
(* IntakeHandler, which calls EventIngestionService.ProcessEvent, which    *)
(* hands a pair of entities to the dual event writer with SaveEventAsync   *)
(* (useAsyncWrite is true).  The consumer goroutine is the writer's only   *)
(* caller.  Shutdown stops the consumer, closes the adapter, then stops    *)
(* the writer; a crash loses what the writer holds in memory.              *)
(*                                                                         *)
(* An event is <<offset, n>>: the n-th pair built for that message.  Both  *)
(* entities of every pair of a message have the same id, and each pair has *)
(* a created_at of its own.                                                *)
(***************************************************************************)
EXTENDS KafkaConsumer, DualEventWriter

CONSTANTS MaxBuilds,  \* bound: how many pairs are built for one message
          None        \* no pair is being persisted

ASSUME IngestionAssumption ==
  /\ MaxBuilds \in Nat \ {0}
  /\ Events = Offsets \X (1..MaxBuilds)
  /\ None \notin Events
  /\ Raw = {}         \* SaveEventAsync passes no raw message
  /\ MaxCallers = 1   \* ConsumeEvents is the only caller

VARIABLES current,    \* the pair the handler is persisting
          crashLost,  \* history: events in memory when the process ended
          refused     \* history: messages whose pair the stopping writer refused and
                      \* that were not delivered again since

ingestionVars == <<consumerVars, writerVars, current, crashLost, refused>>

-----------------------------------------------------------------------------
IngestionInit == /\ ConsumerInit
                 /\ WriterInit
                 /\ current = None
                 /\ crashLost = [p \in Pipes |-> {}]
                 /\ refused = {}

Builds(o) == {e \in Events : e[1] = o /\ call[e] # "new"}

\* IntakeHandler and ProcessEvent up to persistEvents: every check can fail, with
\* a permanent error (the data) or a transient one (the plant, the database).
FailBeforePersist(outcome) ==
  /\ current = None
  /\ outcome \in {"permanent", "transient"}
  /\ HandleMessage(outcome)
  /\ UNCHANGED <<writerVars, current, crashLost, refused>>

\* buildEventEntities, and SaveEventAsync up to its first send.
Persist ==
  /\ pc = "handle"
  /\ current = None
  /\ position \notin NotJSON
  /\ Cardinality(Builds(position)) < MaxBuilds
  /\ current' = <<position, Cardinality(Builds(position)) + 1>>
  /\ CheckStopping(current')
  /\ refused' = IF stopping THEN refused \cup {position} ELSE refused
  /\ UNCHANGED <<consumerVars, crashLost>>

SendToPipes ==
  /\ current # None
  /\ SendOp(current) \/ SendAn(current)
  /\ UNCHANGED <<consumerVars, current, crashLost, refused>>

\* Mutant: the handler returns before the analytical send.
HandlerReturnsEarly ==
  /\ current # None
  /\ \/ call[current] \in {"an", "accepted"} /\ HandleMessage("nil")
     \/ call[current] = "rejected" /\ HandleMessage("transient")
  /\ current' = None
  /\ UNCHANGED <<writerVars, crashLost, refused>>

\* persistEvents returns, and ProcessEvent with it: the plant status and the
\* alerts that follow do not change its result.
HandlerReturns ==
  /\ current # None
  /\ \/ call[current] = "accepted" /\ HandleMessage("nil")
     \/ call[current] = "rejected" /\ HandleMessage("transient")
  /\ current' = None
  /\ UNCHANGED <<writerVars, crashLost, refused>>

-----------------------------------------------------------------------------
\* Mutant: Shutdown stops the writer before it closes the adapter.
StopWriterFirst == /\ RaiseFlag
                   /\ UNCHANGED <<consumerVars, current, crashLost, refused>>

\* Container.Shutdown: the adapter is closed before the writer is stopped.
StopWriter == /\ ~adapterOpen
              /\ RaiseFlag
              /\ UNCHANGED <<consumerVars, current, crashLost, refused>>

\* The process ends and starts again: the writer is a new one.
ProcessRestart ==
  /\ Restart
  /\ current' = None
  /\ call' = [e \in Events |-> IF e \in InCall THEN "failed" ELSE call[e]]
  /\ crashLost' = [p \in Pipes |-> crashLost[p] \cup InPipe(p)]
  /\ stop' = "up"
  /\ chan' = [p \in Pipes |-> <<>>]
  /\ worker' = [w \in Workers |-> "select"]
  /\ batch' = [w \in Workers |-> <<>>]
  /\ UNCHANGED <<written, dropped, discarded, spilled, late, refused>>

-----------------------------------------------------------------------------
\* A message that is read is delivered, for the first time or again.
ConsumerAlone ==
  /\ Produce \/ PollStep \/ RetryStep \/ Cancel \/ ShutdownStep
  /\ refused' = IF ReadMessage THEN refused \ {position'} ELSE refused
  /\ UNCHANGED <<writerVars, current, crashLost>>

WriterAlone == /\ StopStep \/ \E w \in Workers : WorkerStep(w)
               /\ UNCHANGED <<consumerVars, current, crashLost, refused>>

HandlerStep == \/ \E o \in Outcomes : FailBeforePersist(o)
               \/ Persist \/ SendToPipes \/ HandlerReturns

IngestionNext == ConsumerAlone \/ HandlerStep \/ WriterAlone \/ StopWriter
                 \/ ProcessRestart

IngestionSpec == IngestionInit /\ [][IngestionNext]_ingestionVars

\* As in DualEventWriter: a worker goes on while one of its cases is ready, the
\* database answers, and a Stop that was begun goes on.
WriterGoesOn(w) ==
  WorkerStep(w) /\ UNCHANGED <<consumerVars, current, crashLost, refused>>

FairIngestionSpec ==
  /\ IngestionSpec
  /\ \A w \in Workers : WF_ingestionVars(WriterGoesOn(w))

-----------------------------------------------------------------------------
(* Properties *)

\* Where an event that was given to pipeline p may be.
Placed(p) == InPipe(p) \cup written[p] \cup dropped[p] \cup discarded[p]
               \cup crashLost[p]

\* The messages with an event in S.
MessagesOf(S) == {e[1] : e \in S}

Passed == {o \in Offsets : base < o /\ o <= committed}

\* A message whose offset the group has passed was given to both pipelines, and
\* each still holds it, has stored it, or lost it in one of the ways the writer
\* has (full channel, failed batch, end of the process); or it was due for the
\* DLQ, or given up by a cancelled retry.  No hand-over from consumer to writer
\* commits a message that neither has.
CommittedIsAccounted ==
  \A o \in Passed : \/ o \in dlq \cup dlqLost \cup abandoned
                    \/ \A p \in Pipes : o \in MessagesOf(Placed(p))

\* A message the stopping writer refused is delivered again before the group goes
\* past it, through any number of shutdowns, crashes and restarts: until then it
\* lies after the committed offset and ahead of every consumer that can commit.
\* Shutdown closes the adapter before it stops the writer, so the process that was
\* refused commits nothing more.  The code excepts one case: a group that has not
\* committed yet is put at the end of the log (base), behind the message.
RefusedIsRedelivered ==
  \A o \in refused : \/ o <= base
                     \/ committed < o /\ (adapterOpen => position < o)

\* A committed message that the handler accepted reaches both tables, unless a
\* full channel, a failed batch, the end of the process or the race with Stop
\* took it.
CommittedReachesTables ==
  \A o \in Offsets, p \in Pipes :
    o <= committed /\ o \in handled
      ~> o \in MessagesOf(written[p] \cup dropped[p] \cup discarded[p]
                            \cup crashLost[p] \cup late[p])

\* adapter.go:85: "ensures at-least-once delivery semantics by only committing
\* after successful processing": a handled message whose offset was committed is
\* stored or on its way.
CommittedIsNotLost ==
  \A o \in Passed \cap handled :
    o \in MessagesOf(InPipe("op") \cup written["op"])
=============================================================================

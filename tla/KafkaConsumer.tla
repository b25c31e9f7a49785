---------------------------- MODULE KafkaConsumer ----------------------------
(***************************************************************************)
(* The consumer loop of api/kafka_service.go over one partition: poll,     *)
(* handle with retries, dead-letter queue, manual commit, StopConsuming    *)
(* and the closing of the adapter, with crashes and restarts of the        *)
(* process.  What a handler does is an outcome here; module Ingestion      *)
(* puts the real one in.                                                   *)
(*                                                                         *)
(* Messages are their offsets, counted from 1.  committed = 0 means that   *)
(* the group has no offset on the broker, and a consumer then starts at    *)
(* the end of the log (auto.offset.reset = latest in main.go).             *)
(***************************************************************************)
EXTENDS Naturals

CONSTANTS MaxOffset,    \* bound: length of the partition's log
          NotJSON,      \* the offsets whose bytes are not valid JSON
          maxRetries,   \* 3 in the code
          ErrLimit,     \* connection errors in a row tolerated, 10 in the code
          MaxRestarts   \* bound: how often the process is started again

ASSUME ConsumerAssumption ==
  /\ MaxOffset \in Nat
  /\ NotJSON \subseteq 1..MaxOffset
  /\ maxRetries \in Nat
  /\ ErrLimit \in Nat
  /\ MaxRestarts \in Nat

VARIABLES
  \* the brokers
  logEnd,     \* offset of the last message of the partition
  committed,  \* last offset committed by the group
  dlq,        \* the messages in the dead-letter topic
  \* the process
  pc,                  \* where the consumer goroutine is
  position,            \* offset of the last message it was given
  attempt,             \* retries of that message so far
  connectionErrCount,
  consumerHealthy,
  consumerStop,        \* how far StopConsuming has come
  adapterOpen,
  \* history
  restarts,
  base,       \* where the consumer last started without a committed offset
  handled,    \* messages for which the handler returned nil
  dlqLost,    \* messages due for the DLQ that did not get there
  abandoned   \* messages given up because the context was cancelled

brokerVars == <<logEnd, committed, dlq>>
loopVars == <<pc, position, attempt, connectionErrCount, consumerHealthy>>
shutdownVars == <<consumerStop, adapterOpen>>
historyVars == <<restarts, base, handled, dlqLost, abandoned>>
consumerVars == <<brokerVars, loopVars, shutdownVars, historyVars>>

-----------------------------------------------------------------------------
Offsets == 1..MaxOffset

\* "off": ConsumeEvents not called yet.  "select", "read": the top of the loop
\* and inside ReadMessage.  "handle", "backoff", "dlq": handleWithRetry.
\* "ended": ConsumeEvents has returned.
LoopStates == {"off", "select", "read", "handle", "backoff", "dlq", "commit",
               "ended"}
StopConsumingStates == {"up", "cancelled", "closed"}
Outcomes == {"nil", "permanent", "transient"}

cancelled == consumerStop # "up"
stopChanIsClosed == consumerStop = "closed"

ConsumerInit ==
  /\ logEnd \in 0..MaxOffset
  /\ committed = 0
  /\ dlq = {}
  /\ pc = "off"
  /\ position = 0
  /\ attempt = 0
  /\ connectionErrCount = 0
  /\ consumerHealthy = TRUE
  /\ consumerStop = "up"
  /\ adapterOpen = TRUE
  /\ restarts = 0
  /\ base = 0
  /\ handled = {}
  /\ dlqLost = {}
  /\ abandoned = {}

\* Somebody produces to the topic.
Produce ==
  /\ logEnd < MaxOffset
  /\ logEnd' = logEnd + 1
  /\ UNCHANGED <<committed, dlq, loopVars, shutdownVars, historyVars>>

-----------------------------------------------------------------------------
\* Mutant: a restarted consumer reads the log from its beginning.
SubscribeEarliest ==
  /\ pc = "off"
  /\ pc' = "select"
  /\ position' = 0
  /\ UNCHANGED <<brokerVars, attempt, connectionErrCount, consumerHealthy,
                 shutdownVars, historyVars>>

\* ConsumeEvents: no topics or a failed subscription end it at once, and leave
\* consumerHealthy as it was.
Subscribe ==
  /\ pc = "off"
  /\ pc' = "select"
  /\ position' = IF committed = 0 THEN logEnd ELSE committed
  /\ base' = IF committed = 0 THEN logEnd ELSE base
  /\ UNCHANGED <<brokerVars, attempt, connectionErrCount, consumerHealthy,
                 shutdownVars, restarts, handled, dlqLost, abandoned>>

SubscribeFails ==
  /\ pc = "off"
  /\ pc' = "ended"
  /\ UNCHANGED <<brokerVars, position, attempt, connectionErrCount,
                 consumerHealthy, shutdownVars, historyVars>>

\* Mutant: the loop ends without a word to the health check.
SelectStopSilently ==
  /\ pc = "select"
  /\ stopChanIsClosed
  /\ pc' = "ended"
  /\ UNCHANGED <<brokerVars, position, attempt, connectionErrCount,
                 consumerHealthy, shutdownVars, historyVars>>

\* The select at the top of the loop.
SelectStop ==
  /\ pc = "select"
  /\ stopChanIsClosed
  /\ pc' = "ended"
  /\ consumerHealthy' = FALSE
  /\ UNCHANGED <<brokerVars, position, attempt, connectionErrCount,
                 shutdownVars, historyVars>>

\* Mutant: the loop polls without looking at stopChan.
SelectDefaultAlways ==
  /\ pc = "select"
  /\ pc' = "read"
  /\ UNCHANGED <<brokerVars, position, attempt, connectionErrCount,
                 consumerHealthy, shutdownVars, historyVars>>

SelectDefault ==
  /\ pc = "select"
  /\ ~stopChanIsClosed
  /\ pc' = "read"
  /\ UNCHANGED <<brokerVars, position, attempt, connectionErrCount,
                 consumerHealthy, shutdownVars, historyVars>>

\* ReadMessage blocks for up to five seconds; StopConsuming may run meanwhile.
ReadMessage ==
  /\ pc = "read"
  /\ adapterOpen
  /\ position < logEnd
  /\ position' = position + 1
  /\ attempt' = 0
  /\ connectionErrCount' = 0
  /\ pc' = "handle"
  /\ UNCHANGED <<brokerVars, consumerHealthy, shutdownVars, historyVars>>

\* A timeout or an error that is not a connection error.
ReadNothing ==
  /\ pc = "read"
  /\ pc' = "select"
  /\ UNCHANGED <<brokerVars, position, attempt, connectionErrCount,
                 consumerHealthy, shutdownVars, historyVars>>

ReadConnectionError ==
  /\ pc = "read"
  /\ connectionErrCount' = connectionErrCount + 1
  /\ IF connectionErrCount' > ErrLimit
       THEN consumerHealthy' = FALSE /\ pc' = "ended"
       ELSE pc' = "select" /\ UNCHANGED consumerHealthy
  /\ UNCHANGED <<brokerVars, position, attempt, shutdownVars, historyVars>>

-----------------------------------------------------------------------------
\* Mutant: a transient error is retried without counting the attempts.
HandleMessageUncounted(outcome) ==
  /\ pc = "handle"
  /\ position \in NotJSON => outcome = "permanent"
  /\ pc' = CASE outcome = "nil" -> "commit"
             [] outcome = "permanent" -> "dlq"
             [] outcome = "transient" -> "backoff"
  /\ handled' = IF outcome = "nil" THEN handled \cup {position} ELSE handled
  /\ UNCHANGED <<brokerVars, position, attempt, connectionErrCount,
                 consumerHealthy, shutdownVars, restarts, base, dlqLost,
                 abandoned>>

\* One call of HandleMessage returns.  Bytes that are not JSON are a permanent
\* error of IntakeHandler.
HandleMessage(outcome) ==
  /\ pc = "handle"
  /\ position \in NotJSON => outcome = "permanent"
  /\ \/ /\ outcome = "nil"
        /\ pc' = "commit"
        /\ handled' = handled \cup {position}
        /\ UNCHANGED attempt
     \/ /\ outcome = "permanent" \/ (outcome = "transient" /\ attempt = maxRetries)
        /\ pc' = "dlq"
        /\ UNCHANGED <<attempt, handled>>
     \/ /\ outcome = "transient" /\ attempt < maxRetries
        /\ pc' = "backoff"
        /\ attempt' = attempt + 1
        /\ UNCHANGED handled
  /\ UNCHANGED <<brokerVars, position, connectionErrCount, consumerHealthy,
                 shutdownVars, restarts, base, dlqLost, abandoned>>

\* The wait between attempts: the timer or the cancelled context, either one when
\* both are ready.
BackoffElapsed ==
  /\ pc = "backoff"
  /\ pc' = "handle"
  /\ UNCHANGED <<brokerVars, position, attempt, connectionErrCount,
                 consumerHealthy, shutdownVars, historyVars>>

\* Mutant: a cancelled backoff returns true, so the message is committed.
BackoffCancelledCommits ==
  /\ pc = "backoff"
  /\ cancelled
  /\ pc' = "commit"
  /\ UNCHANGED <<brokerVars, position, attempt, connectionErrCount,
                 consumerHealthy, shutdownVars, historyVars>>

BackoffCancelled ==
  /\ pc = "backoff"
  /\ cancelled
  /\ pc' = "select"
  /\ abandoned' = abandoned \cup {position}
  /\ UNCHANGED <<brokerVars, position, attempt, connectionErrCount,
                 consumerHealthy, shutdownVars, restarts, base, handled, dlqLost>>

\* sendToDLQWithCtx: json.Marshal refuses a raw message that is not JSON, and a
\* failed send is logged only.  handleWithRetry returns true in every case.
SendToDLQ ==
  /\ pc = "dlq"
  /\ pc' = "commit"
  /\ \/ /\ position \notin NotJSON
        /\ adapterOpen
        /\ dlq' = dlq \cup {position}
        /\ UNCHANGED dlqLost
     \/ /\ dlqLost' = dlqLost \cup {position}
        /\ UNCHANGED dlq
  /\ UNCHANGED <<logEnd, committed, position, attempt, connectionErrCount,
                 consumerHealthy, shutdownVars, restarts, base, handled,
                 abandoned>>

\* commitOffset: an error is logged and the loop goes on.
CommitOffset ==
  /\ pc = "commit"
  /\ pc' = "select"
  /\ \/ adapterOpen /\ committed' = position
     \/ UNCHANGED committed
  /\ UNCHANGED <<logEnd, dlq, position, attempt, connectionErrCount,
                 consumerHealthy, shutdownVars, historyVars>>

-----------------------------------------------------------------------------
\* StopConsuming cancels the context, then closes stopChan; Shutdown closes the
\* adapter next, without waiting for the loop to end.
Cancel == /\ consumerStop = "up"
          /\ consumerStop' = "cancelled"
          /\ UNCHANGED <<brokerVars, loopVars, adapterOpen, historyVars>>

CloseConsumerStopChan ==
  /\ consumerStop = "cancelled"
  /\ consumerStop' = "closed"
  /\ UNCHANGED <<brokerVars, loopVars, adapterOpen, historyVars>>

CloseAdapter == /\ consumerStop = "closed"
                /\ adapterOpen
                /\ adapterOpen' = FALSE
                /\ UNCHANGED <<brokerVars, loopVars, consumerStop, historyVars>>

\* The process ends, at the end of main or by a crash, and is started again.
Restart ==
  /\ restarts < MaxRestarts
  /\ restarts' = restarts + 1
  /\ pc' = "off"
  /\ position' = 0
  /\ attempt' = 0
  /\ connectionErrCount' = 0
  /\ consumerHealthy' = TRUE
  /\ consumerStop' = "up"
  /\ adapterOpen' = TRUE
  /\ UNCHANGED <<brokerVars, base, handled, dlqLost, abandoned>>

-----------------------------------------------------------------------------
\* What the loop does besides calling the handler.
PollStep == \/ Subscribe \/ SubscribeFails \/ SelectStop \/ SelectDefault
            \/ ReadMessage \/ ReadNothing \/ ReadConnectionError
RetryStep == BackoffElapsed \/ BackoffCancelled \/ SendToDLQ \/ CommitOffset
ShutdownStep == CloseConsumerStopChan \/ CloseAdapter

LoopStep == PollStep \/ RetryStep \/ \E o \in Outcomes : HandleMessage(o)

ConsumerNext == Produce \/ LoopStep \/ Cancel \/ ShutdownStep \/ Restart

ConsumerSpec == ConsumerInit /\ [][ConsumerNext]_consumerVars

\* The goroutine goes on, its handler and the brokers answer, and a shutdown that
\* was begun goes on; nobody has to produce, stop or crash.
FairConsumerSpec == /\ ConsumerSpec
                    /\ WF_consumerVars(LoopStep)
                    /\ WF_consumerVars(ShutdownStep)

-----------------------------------------------------------------------------
(* Properties *)

\* The type invariant.
ConsumerTypeOK ==
  /\ logEnd \in 0..MaxOffset
  /\ committed \in 0..MaxOffset
  /\ dlq \subseteq Offsets
  /\ pc \in LoopStates
  /\ position \in 0..MaxOffset
  /\ attempt \in 0..maxRetries
  /\ connectionErrCount \in 0..(ErrLimit + 1)
  /\ consumerHealthy \in BOOLEAN
  /\ consumerStop \in StopConsumingStates
  /\ adapterOpen \in BOOLEAN
  /\ restarts \in 0..MaxRestarts
  /\ base \in 0..MaxOffset
  /\ handled \subseteq Offsets
  /\ dlqLost \subseteq Offsets
  /\ abandoned \subseteq Offsets

Decided == handled \cup dlq \cup dlqLost

\* The committed offset, which speaks for every message before it, never passes
\* a message that was only read: each one was handled, or was due for the DLQ,
\* or was given up in a cancelled backoff, or lies before the point where a group
\* without an offset started.  This holds across failed commits and restarts.
CommitPassesOnlyDecided ==
  \A o \in Offsets : base < o /\ o <= committed => o \in Decided \cup abandoned

\* The group's offset never goes back: a restarted consumer takes up at the
\* committed offset and commits in the order of the log.
CommittedNeverRewinds == [][committed' >= committed]_consumerVars

\* A loop that reports unhealthy has ended, and one that was ended by StopConsuming
\* or by connection errors reports unhealthy: only a consumer that could not
\* subscribe ends in silence.
UnhealthyIffEnded ==
  /\ ~consumerHealthy => pc = "ended"
  /\ pc = "ended" /\ consumerHealthy => position = 0

\* No delivery keeps the loop busy for ever: whatever the handler returns, the
\* message is decided or given up and the loop is back at its select.
DeliveryEnds == pc = "handle" ~> pc \in {"select", "off"}

\* After StopConsuming the loop ends, or the process does, even if a message is
\* being retried or the brokers are gone.
StopEndsLoop == stopChanIsClosed ~> pc \in {"ended", "off"}
=============================================================================

--------------------------- MODULE EventProcessing ---------------------------
(***************************************************************************)
(* EventIngestionService.ProcessEvent (event_ingestion_service.go) in the  *)
(* processes of a consumer group: validation against the plants, hand-over *)
(* to the writer, and the plant's current status.  The test endpoint       *)
(* (rest/test_handlers.go) shares the cache of plants.                     *)
(*                                                                         *)
(* The messages are one partition's.  After a rebalance or a restart its   *)
(* owner starts again at the committed offset, while the one before may    *)
(* still be handling a message.  KafkaConsumer has the consumer's loop and *)
(* Ingestion the way from the writer to the tables; the alerts, which are  *)
(* evaluated last and cannot fail, are AlertEvaluation's.                  *)
(***************************************************************************)
EXTENDS PlantCache

CONSTANTS MaxOffset,
          PlantOf,       \* of each message
          Malformed,     \* messages without a valid plant_source_id
          Invalid,       \* messages whose data breaks the rules of EventData
          TestHandlers,  \* HTTP handlers in the test endpoint
          maxRetries,
          MaxDisturbances \* bound: rebalances and restarts

Messages == 1..MaxOffset

ASSUME ProcessingAssumption ==
  /\ MaxOffset \in Nat
  /\ PlantOf \in [Messages -> Plants]
  /\ Malformed \cup Invalid \subseteq Messages
  /\ Callers = Processes \cup TestHandlers  \* a process stands for its consumer
  /\ \A r \in Processes : ProcessOf[r] = r
  /\ maxRetries \in Nat /\ MaxDisturbances \in Nat

VARIABLES
  owner,      \* who is assigned the partition
  position,   \* the last message each process has read
  committed,
  task,       \* where ProcessEvent is, and the attempt
  status,     \* plant_current_status: the message of each plant, 0 for none
  delivered,  \* history: how often a message was read
  accepted,   \* history: how often its event was given to the writer
  done,       \* history: messages committed after ProcessEvent returned nil
  behind,     \* history: plants whose last upsert failed, or was made by a process
              \* that had lost the partition
  disturbances \* history: rebalances and restarts so far

groupVars == <<owner, position, committed>>
deliveryHistory == <<delivered, accepted, done>>
processingVars == <<cacheVars, groupVars, task, status, deliveryHistory,
                    behind, disturbances>>

-----------------------------------------------------------------------------
NoTask == [at |-> "idle", attempt |-> 0]
TaskPlaces == {"idle", "extract", "exists", "persist", "status", "done", "failed"}

ProcessingInit ==
  /\ CacheInit
  /\ owner \in Processes
  /\ position = [r \in Processes |-> 0]
  /\ committed = 0
  /\ task = [r \in Processes |-> NoTask]
  /\ status = [p \in Plants |-> 0]
  /\ delivered = [m \in Messages |-> 0]
  /\ accepted = [m \in Messages |-> 0]
  /\ done = {} /\ behind = {}
  /\ disturbances = 0

Go(r, place) == task' = [task EXCEPT ![r].at = place]

\* handleWithRetry: a transient error is tried again after a pause.
FailTransient(r) ==
  task' = [task EXCEPT ![r] =
    IF @.attempt < maxRetries THEN [at |-> "extract", attempt |-> @.attempt + 1]
    ELSE [@ EXCEPT !.at = "failed"]]

Message(r) == position[r]
Plant(r) == PlantOf[Message(r)]

\* The owner reads the next message.
ReadMessage(r) ==
  /\ r = owner /\ task[r].at = "idle" /\ position[r] < MaxOffset
  /\ position' = [position EXCEPT ![r] = @ + 1]
  /\ task' = [task EXCEPT ![r] = [at |-> "extract", attempt |-> 0]]
  /\ delivered' = [delivered EXCEPT ![position[r] + 1] = @ + 1]
  /\ UNCHANGED <<cacheVars, owner, committed, status, accepted, done,
                 behind, disturbances>>

\* extractAndValidatePlantInfo, and the first part of Exists.
ExtractPlantInfo(r) ==
  /\ task[r].at = "extract"
  /\ IF Message(r) \in Malformed
     THEN Go(r, "failed") /\ UNCHANGED cacheVars
     ELSE Go(r, "exists") /\ GetFromCache(r, Plant(r))
  /\ UNCHANGED <<groupVars, status, deliveryHistory, behind, disturbances>>

\* Exists has returned to validatePlantExists; validateEventData follows.
ValidateEvent(r) ==
  /\ task[r].at = "exists" /\ lookup[r].at = "answered"
  /\ \/ lookup[r].answer \in {"error", "no"} /\ FailTransient(r)
     \/ lookup[r].answer = "yes" /\ Message(r) \in Invalid /\ Go(r, "failed")
     \/ lookup[r].answer = "yes" /\ Message(r) \notin Invalid /\ Go(r, "persist")
  /\ lookup' = [lookup EXCEPT ![r] = NoLookup]
  /\ UNCHANGED <<plants, cache, plantsAtStart, groupVars, status,
                 deliveryHistory, behind, disturbances>>

\* persistEvents: the writer takes the event or is stopping.
PersistEvents(r) ==
  /\ task[r].at = "persist"
  /\ \/ /\ Go(r, "status")
        /\ accepted' = [accepted EXCEPT ![Message(r)] = @ + 1]
     \/ FailTransient(r) /\ UNCHANGED accepted
  /\ UNCHANGED <<cacheVars, groupVars, status, delivered, done, behind,
                 disturbances>>

-----------------------------------------------------------------------------
\* Mutant: the upsert does nothing when there is a row.
UpsertOnce(p, m) == status' = [status EXCEPT ![p] = IF @ = 0 THEN m ELSE @]

\* PlantStatusRepository.Upsert: the row is overwritten whatever it holds.
Upsert(p, m) == status' = [status EXCEPT ![p] = m]

\* updatePlantStatus
UpdatePlantStatus(r) ==
  /\ task[r].at = "status"
  /\ Upsert(Plant(r), Message(r))
  /\ behind' = IF r = owner THEN behind \ {Plant(r)} ELSE behind \cup {Plant(r)}
  /\ Go(r, "done")
  /\ UNCHANGED <<cacheVars, groupVars, deliveryHistory, disturbances>>

\* Mutant: an error of Upsert is returned, and the message tried again.
UpdateErrorReturned(r) ==
  /\ task[r].at = "status"
  /\ behind' = behind \cup {Plant(r)}
  /\ FailTransient(r)
  /\ UNCHANGED <<cacheVars, groupVars, status, deliveryHistory, disturbances>>

\* An error is logged.
UpdateStatusFails(r) ==
  /\ task[r].at = "status"
  /\ behind' = behind \cup {Plant(r)}
  /\ Go(r, "done")
  /\ UNCHANGED <<cacheVars, groupVars, status, deliveryHistory, disturbances>>

-----------------------------------------------------------------------------
\* commitOffset, after the DLQ if ProcessEvent failed for good.  It may fail, and
\* does in a process that has lost the partition.
CommitMessage(r) ==
  /\ task[r].at \in {"done", "failed"}
  /\ \/ /\ r = owner
        /\ committed' = position[r]
        /\ done' = IF task[r].at = "done" THEN done \cup {Message(r)} ELSE done
     \/ UNCHANGED <<committed, done>>
  /\ task' = [task EXCEPT ![r] = NoTask]
  /\ UNCHANGED <<cacheVars, owner, position, status, delivered, accepted,
                 behind, disturbances>>

-----------------------------------------------------------------------------
\* TestIntake
TestIntake(h) ==
  /\ \E p \in Plants : GetFromCache(h, p)
  /\ UNCHANGED <<groupVars, task, status, deliveryHistory, behind, disturbances>>

TestAnswered(h) ==
  /\ lookup[h].at = "answered"
  /\ lookup' = [lookup EXCEPT ![h] = NoLookup]
  /\ UNCHANGED <<plants, cache, plantsAtStart, groupVars, task, status,
                 deliveryHistory, behind, disturbances>>

\* The rest of Exists, and what goes on without the consumers.
CacheAlone ==
  /\ \/ \E p \in Plants : CreatePlant(p)
     \/ \E c \in Callers : CountPlants(c) \/ CountFails(c) \/ AddToCache(c)
  /\ UNCHANGED <<groupVars, task, status, deliveryHistory, behind, disturbances>>

-----------------------------------------------------------------------------
\* The partition goes to another process.
Rebalance(r) ==
  /\ r # owner /\ task[r].at = "idle" /\ disturbances < MaxDisturbances
  /\ disturbances' = disturbances + 1
  /\ owner' = r
  /\ position' = [position EXCEPT ![r] = committed]
  /\ UNCHANGED <<cacheVars, committed, task, status, deliveryHistory,
                 behind>>

\* The process ends, and starts again with nothing in memory.
RestartProcess(r) ==
  /\ disturbances < MaxDisturbances
  /\ disturbances' = disturbances + 1
  /\ cache' = [cache EXCEPT ![r] = <<>>]
  /\ lookup' = [c \in Callers |-> IF ProcessOf[c] = r THEN NoLookup ELSE lookup[c]]
  /\ plantsAtStart' = [plantsAtStart EXCEPT ![r] = plants]
  /\ task' = [task EXCEPT ![r] = NoTask]
  /\ position' = [position EXCEPT ![r] = committed]
  /\ UNCHANGED <<plants, owner, committed, status, deliveryHistory,
                 behind>>

ProcessStep(r) ==
  \/ ReadMessage(r) \/ ExtractPlantInfo(r) \/ ValidateEvent(r) \/ PersistEvents(r)
  \/ UpdatePlantStatus(r) \/ UpdateStatusFails(r)
  \/ CommitMessage(r)

ProcessingNext ==
  \/ \E r \in Processes : ProcessStep(r) \/ Rebalance(r) \/ RestartProcess(r)
  \/ \E h \in TestHandlers : TestIntake(h) \/ TestAnswered(h)
  \/ CacheAlone

ProcessingSpec == ProcessingInit /\ [][ProcessingNext]_processingVars

-----------------------------------------------------------------------------
(* Properties *)

\* The type invariant, with what the LRU library and the code keep of the cache:
\* its size, and one entry for a plant.
ProcessingTypeOK ==
  /\ plants \subseteq Plants
  /\ cache \in [Processes -> Seq(Entries)]
  /\ \A r \in Processes :
       /\ Len(cache[r]) <= CacheSize
       /\ \A i, j \in DOMAIN cache[r] : cache[r][i].plant = cache[r][j].plant => i = j
  /\ lookup \in [Callers -> [at : {"idle", "query", "add", "answered"},
                             plant : Plants \cup {NoPlant}, answer : Answers]]
  /\ plantsAtStart \in [Processes -> SUBSET Plants]
  /\ owner \in Processes /\ position \in [Processes -> 0..MaxOffset]
  /\ committed \in 0..MaxOffset
  /\ task \in [Processes -> [at : TaskPlaces, attempt : 0..maxRetries]]
  /\ status \in [Plants -> 0..MaxOffset]
  /\ delivered \in [Messages -> Nat] /\ accepted \in [Messages -> Nat]
  /\ done \subseteq Messages /\ behind \subseteq Plants

Justified(r, p, exists) == IF exists THEN p \in plants ELSE p \notin plantsAtStart[r]

\* What a process holds or says of a plant was true at some time since it started,
\* whoever asked, in whatever order the cache was filled and whatever the database
\* failed to answer: a plant that exists is refused only if it was created after
\* the process started, and none is accepted that does not exist.
AnswersJustified ==
  /\ \A r \in Processes : \A i \in DOMAIN cache[r] :
       Justified(r, cache[r][i].plant, cache[r][i].exists)
  /\ \A c \in Callers : lookup[c].answer \in {"yes", "no"} =>
       Justified(ProcessOf[c], lookup[c].plant, lookup[c].answer = "yes")

\* The status of a plant is not older than the messages the group is done with,
\* through failed commits, redeliveries, rebalances and restarts, except where the
\* last upsert failed or came late from the partition's former owner.
StatusNotBehindCommit ==
  \A p \in Plants \ behind :
    \A m \in done : PlantOf[m] = p => status[p] >= m

\* Retries hand an event to the writer once at most for each time its message is
\* read: what fails after the hand-over is not tried again.
AcceptedOncePerDelivery == \A m \in Messages : accepted[m] <= delivered[m]
=============================================================================

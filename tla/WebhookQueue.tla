----------------------------- MODULE WebhookQueue -----------------------------
(***************************************************************************)
(* The webhook queue of repositories/analytics_worker_repo.go, between the *)
(* aggregator, which recalculates the hourly statistics and puts their     *)
(* rows into the queue, and the dispatchers of analytics_coordinator.go,   *)
(* which send the statistics and update the rows.                          *)
(*                                                                         *)
(* The dispatcher works on a copy of the rows while the aggregator may put *)
(* them back to PENDING.  A second dispatcher runs at the same time only   *)
(* when the session holding the lock has ended, as module                  *)
(* AnalyticsCoordinator shows; MaxLost bounds how often.                   *)
(***************************************************************************)
EXTENDS Naturals, Sequences, FiniteSets, SequencesExt

CONSTANTS Buckets,             \* pairs of hour and plant
          Dispatchers,         \* replicas that dispatch
          MaxWebhookAttempts,
          WebhookBatchSize,
          MaxEvents,           \* bound: events of each bucket
          MaxLost,             \* bound: lock sessions that end within a cycle
          MaxCrashes           \* bound: crashes of a dispatcher within a cycle

ASSUME QueueAssumption ==
  /\ IsFiniteSet(Buckets) /\ IsFiniteSet(Dispatchers)
  /\ MaxWebhookAttempts \in Nat \ {0}
  /\ WebhookBatchSize \in Nat \ {0}
  /\ MaxEvents \in [Buckets -> Nat]
  /\ {MaxLost, MaxCrashes} \subseteq Nat

VARIABLES
  events,    \* how many events the analytical table has for each bucket
  recent,    \* buckets with an event in the lookback window
  stats,     \* hourly_plant_stats: the events that were counted, 0 for no row
  row,       \* webhook_queue: the row of each bucket
  created,   \* the order of its created_at, 0 for no row
  job,       \* what each dispatcher is doing
  received,  \* the newest statistics the receiver has got
  lost,      \* how often a cycle began beside another one
  crashes,   \* how often a dispatcher crashed
  requeued,  \* history: buckets requeued since the dispatcher has read them
  raced      \* history: buckets settled over a row that had been requeued

boundVars == <<lost, crashes>>
statsVars == <<events, recent, stats>>
queueHistory == <<requeued, raced>>
webhookVars == <<statsVars, row, created, job, received, boundVars, queueHistory>>

-----------------------------------------------------------------------------
Statuses == {"none", "PENDING", "RETRYING", "SENT", "FAILED"}
Idle == [at |-> "idle", todo |-> <<>>, payload |-> 0, verdict |-> "none"]
Items == [bucket : Buckets, attempts : Nat]
Jobs == [at : {"idle", "next", "send", "write"}, todo : Seq(Items), payload : Nat,
         verdict : {"none", "SENT", "FAILED", "RETRYING"}]

QueueInit ==
  /\ events = [b \in Buckets |-> 0]
  /\ recent = {}
  /\ stats = [b \in Buckets |-> 0]
  /\ row = [b \in Buckets |-> [status |-> "none", attempts |-> 0, due |-> TRUE]]
  /\ created = [b \in Buckets |-> 0]
  /\ job = [d \in Dispatchers |-> Idle]
  /\ received = [b \in Buckets |-> 0]
  /\ lost = 0 /\ crashes = 0
  /\ requeued = [d \in Dispatchers |-> {}]
  /\ raced = {}

\* The writer stores an analytical event.
StoreEvent(b) ==
  /\ events[b] < MaxEvents[b]
  /\ events' = [events EXCEPT ![b] = @ + 1]
  /\ recent' = recent \cup {b}
  /\ UNCHANGED <<stats, row, created, job, received, boundVars, queueHistory>>

\* Time passes: the bucket's events leave the lookback window.
LeaveWindow(b) ==
  /\ b \in recent
  /\ recent' = recent \ {b}
  /\ UNCHANGED <<events, stats, row, created, job, received, boundVars, queueHistory>>

Rows == {b \in Buckets : row[b].status # "none"}

\* The dirty rows are inserted together, or put back to PENDING; then they keep
\* next_retry_at and created_at.
Requeue ==
  /\ row' = [b \in Buckets |->
               IF b \in recent
               THEN [row[b] EXCEPT !.status = "PENDING", !.attempts = 0] ELSE row[b]]
  /\ created' = [b \in Buckets |->
                   IF b \in recent \ Rows
                   THEN Cardinality({created[c] : c \in Rows}) + 1 ELSE created[b]]
  /\ requeued' = [d \in Dispatchers |->
                    IF job[d].at = "idle" THEN {} ELSE requeued[d] \cup recent]
  /\ raced' = raced \ recent

\* One statement: the buckets with an event in the window are counted anew.
RecalculateDirtyBuckets ==
  /\ recent # {}
  /\ stats' = [b \in Buckets |-> IF b \in recent THEN events[b] ELSE stats[b]]
  /\ Requeue
  /\ UNCHANGED <<events, recent, job, received, boundVars>>

-----------------------------------------------------------------------------
\* Mutant: whatever was not sent is picked up.
PendingOrSent(b) == row[b].status # "none" /\ row[b].due

\* The condition of GetPendingWebhooks.
Pending(b) == row[b].status \in {"PENDING", "RETRYING"} /\ row[b].due

Ready == {b \in Buckets : Pending(b)}

\* Its answers: the oldest rows, at most WebhookBatchSize of them, in order of
\* created_at, which rows that were inserted together share.
Answers ==
  {answer \in SetToAllKPermutations(Ready) :
     /\ Len(answer) <= WebhookBatchSize
     /\ Len(answer) < WebhookBatchSize => ToSet(answer) = Ready
     /\ \A i, j \in DOMAIN answer : i < j => created[answer[i]] <= created[answer[j]]
     /\ \A b \in ToSet(answer), c \in Ready \ ToSet(answer) : created[b] <= created[c]}

InCycle == {d \in Dispatchers : job[d].at # "idle"}

\* doDispatch begins: it has the lock and fetches the rows, attempts included.
\* With no rows, or an error, the cycle is over and nothing has changed.
GetPendingWebhooks(d) ==
  /\ d \notin InCycle
  /\ IF InCycle = {} THEN lost' = lost ELSE lost < MaxLost /\ lost' = lost + 1
  /\ \E answer \in Answers :
       /\ answer # <<>>
       /\ job' = [job EXCEPT ![d].at = "next",
                    ![d].todo = [i \in DOMAIN answer |->
                       [bucket |-> answer[i], attempts |-> row[answer[i]].attempts]]]
  /\ UNCHANGED <<statsVars, row, created, received, crashes, queueHistory>>

Item(d) == Head(job[d].todo)

\* Mutants: one attempt too few, one too many.
ExhaustedEarly(i) == i.attempts + 1 >= MaxWebhookAttempts
ExhaustedLate(i) == i.attempts > MaxWebhookAttempts

Exhausted(i) == i.attempts >= MaxWebhookAttempts

Decide(d, verdict) ==
  job' = [job EXCEPT ![d].at = "write", ![d].payload = 0, ![d].verdict = verdict]

GiveUp(d) ==
  /\ job[d].at = "next" /\ Exhausted(Item(d))
  /\ Decide(d, "FAILED")
  /\ UNCHANGED <<statsVars, row, created, received, boundVars, queueHistory>>

\* GetHourlyStats; without a row in the table the webhook has failed.
GetHourlyStats(d) ==
  LET b == Item(d).bucket IN
  /\ job[d].at = "next" /\ ~Exhausted(Item(d))
  /\ IF stats[b] = 0
     THEN Decide(d, "FAILED") /\ UNCHANGED requeued
     ELSE /\ job' = [job EXCEPT ![d].at = "send", ![d].payload = stats[b]]
          /\ requeued' = [requeued EXCEPT ![d] = @ \ {b}]
  /\ UNCHANGED <<statsVars, row, created, received, boundVars, raced>>

GetHourlyStatsFails(d) ==
  /\ job[d].at = "next" /\ ~Exhausted(Item(d))
  /\ Decide(d, "RETRYING")
  /\ UNCHANGED <<statsVars, row, created, received, boundVars, queueHistory>>

\* The receiver gets the statistics that the dispatcher has read.
Deliver(d) ==
  LET b == Item(d).bucket IN
  received' = [received EXCEPT ![b] = IF job[d].payload > @ THEN job[d].payload ELSE @]

SendSucceeds(d) ==
  /\ job[d].at = "send"
  /\ Deliver(d)
  /\ Decide(d, "SENT")
  /\ UNCHANGED <<statsVars, row, created, boundVars, queueHistory>>

\* Mutant: the error of SendPayload is not looked at.
SendFailsUnseen(d) ==
  /\ job[d].at = "send"
  /\ Decide(d, "SENT")
  /\ UNCHANGED <<statsVars, row, created, received, boundVars, queueHistory>>

\* SendPayload returns an error: the breaker is open, or the request, the answer
\* or its status went wrong, with or without the receiver having got it.
SendFails(d) ==
  /\ job[d].at = "send"
  /\ Deliver(d) \/ UNCHANGED received
  /\ Decide(d, "RETRYING")
  /\ UNCHANGED <<statsVars, row, created, boundVars, queueHistory>>

-----------------------------------------------------------------------------
\* The dispatcher goes on with the next row or ends its cycle.
GoOn(d) ==
  job' = [job EXCEPT ![d] =
            IF Len(@.todo) = 1 THEN Idle
            ELSE [Idle EXCEPT !.at = "next", !.todo = Tail(job[d].todo)]]

\* Mutant: the attempt is not counted.
UpdatedUncounted(old, verdict) ==
  CASE verdict = "SENT"     -> [old EXCEPT !.status = "SENT", !.due = TRUE]
    [] verdict = "FAILED"   -> [old EXCEPT !.status = "FAILED"]
    [] verdict = "RETRYING" -> [old EXCEPT !.status = "RETRYING", !.due = FALSE]

\* What UpdateWebhookStatus sets: "attempts + 1" counts from what the row holds.
Updated(old, verdict) ==
  CASE verdict = "SENT"     -> [old EXCEPT !.status = "SENT", !.due = TRUE]
    [] verdict = "FAILED"   -> [old EXCEPT !.status = "FAILED"]
    [] verdict = "RETRYING" -> [status |-> "RETRYING", attempts |-> old.attempts + 1,
                                due |-> FALSE]

UpdateWebhookStatus(d) ==
  LET b == Item(d).bucket IN
  /\ job[d].at = "write"
  /\ row' = [row EXCEPT ![b] = Updated(@, job[d].verdict)]
  /\ raced' = IF b \in requeued[d] /\ job[d].verdict # "RETRYING"
              THEN raced \cup {b} ELSE raced \ {b}
  /\ requeued' = [requeued EXCEPT ![d] = IF Len(job[d].todo) = 1 THEN {} ELSE @ \ {b}]
  /\ GoOn(d)
  /\ UNCHANGED <<statsVars, created, received, boundVars>>

\* An update that fails is logged.
UpdateFails(d) ==
  /\ job[d].at = "write"
  /\ GoOn(d)
  /\ requeued' = [requeued EXCEPT
       ![d] = IF Len(job[d].todo) = 1 THEN {} ELSE @ \ {Item(d).bucket}]
  /\ UNCHANGED <<statsVars, row, created, received, boundVars, raced>>

\* next_retry_at has come.
RetryDue(b) ==
  /\ ~row[b].due
  /\ row' = [row EXCEPT ![b].due = TRUE]
  /\ UNCHANGED <<statsVars, created, job, received, boundVars, queueHistory>>

\* The process ends within a cycle; its session goes with it.
DispatcherCrash(d) ==
  /\ d \in InCycle /\ crashes < MaxCrashes
  /\ crashes' = crashes + 1
  /\ job' = [job EXCEPT ![d] = Idle]
  /\ requeued' = [requeued EXCEPT ![d] = {}]
  /\ UNCHANGED <<statsVars, row, created, received, lost, raced>>

-----------------------------------------------------------------------------
DispatchStep(d) ==
  \/ GiveUp(d) \/ GetHourlyStats(d) \/ GetHourlyStatsFails(d)
  \/ SendSucceeds(d) \/ SendFails(d)
  \/ UpdateWebhookStatus(d) \/ UpdateFails(d)

QueueNext ==
  \/ \E b \in Buckets : StoreEvent(b) \/ LeaveWindow(b) \/ RetryDue(b)
  \/ RecalculateDirtyBuckets
  \/ \E d \in Dispatchers : GetPendingWebhooks(d) \/ DispatchStep(d) \/ DispatcherCrash(d)

QueueSpec == QueueInit /\ [][QueueNext]_webhookVars

\* Time passes, cycles begin and go on, and an update that is tried again and
\* again is not refused every time.  Nothing is assumed of the receiver.
FairQueueSpec ==
  /\ QueueSpec
  /\ \A b \in Buckets : WF_webhookVars(LeaveWindow(b)) /\ WF_webhookVars(RetryDue(b))
  /\ WF_webhookVars(\E d \in Dispatchers : GetPendingWebhooks(d))
  /\ \A d \in Dispatchers :
       WF_webhookVars(DispatchStep(d)) /\ SF_webhookVars(UpdateWebhookStatus(d))

-----------------------------------------------------------------------------
(* Properties *)

\* The type invariant: a cycle has at most WebhookBatchSize rows.
QueueTypeOK ==
  /\ events \in [Buckets -> Nat]
  /\ \A b \in Buckets : received[b] <= stats[b] /\ stats[b] <= events[b]
  /\ recent \subseteq Buckets
  /\ stats \in [Buckets -> Nat]
  /\ row \in [Buckets -> [status : Statuses, attempts : Nat, due : BOOLEAN]]
  /\ created \in [Buckets -> Nat]
  /\ \A b \in Buckets : b \in Rows <=> created[b] # 0
  /\ job \in [Dispatchers -> Jobs]
  /\ \A d \in Dispatchers :
       /\ Len(job[d].todo) <= WebhookBatchSize
       /\ job[d].todo = <<>> <=> job[d].at = "idle"
  /\ received \in [Buckets -> Nat]
  /\ lost \in 0..MaxLost /\ crashes \in 0..MaxCrashes
  /\ requeued \in [Dispatchers -> SUBSET Buckets]
  /\ raced \subseteq Buckets

\* A row is SENT only if the receiver has the statistics of the table, unless the
\* aggregator put it back between the dispatcher's reading of the statistics and
\* its update: then the new ones wait for the next recalculation (doDispatch).
SentIsCurrent ==
  \A b \in Buckets :
    row[b].status = "SENT" /\ b \notin raced => received[b] = stats[b]

\* A webhook is given up only after MaxWebhookAttempts attempts, unless the row
\* was put back with new statistics meanwhile; its statistics are never missing.
FailedIsExhausted ==
  \A b \in Buckets :
    row[b].status = "FAILED" /\ b \notin raced => row[b].attempts >= MaxWebhookAttempts

\* There are no more attempts than MaxWebhookAttempts, and one for each cycle
\* that ran beside another.
AttemptsBounded ==
  \A b \in Buckets : row[b].attempts <= MaxWebhookAttempts + lost

\* A row that is SENT or FAILED stays so until it is recalculated, while cycles
\* exclude each other: no dispatcher works on it from an old copy.
SettledStays ==
  [][\A b \in Buckets :
       row[b].status \in {"SENT", "FAILED"} /\ row'[b].status # row[b].status
         => row'[b].status = "PENDING" \/ lost > 0]_webhookVars

\* Every queued webhook is sent or given up in the end, however often sending
\* fails, and although the rows are fetched in batches.
QueuedSettles ==
  \A b \in Buckets :
    row[b].status \in {"PENDING", "RETRYING"} ~> row[b].status \in {"SENT", "FAILED"}
=============================================================================

------------------------- MODULE AnalyticsCoordinator -------------------------
(***************************************************************************)
(* The background loops of repositories/analytics_coordinator.go in        *)
(* several replicas: Start and Stop, the aggregator's and the dispatcher's *)
(* ticks, and the PostgreSQL advisory lock around each cycle.              *)
(*                                                                         *)
(* An advisory lock belongs to a session and is counted there, and every   *)
(* statement goes to some connection of the replica's pool: the one that   *)
(* unlocks need not be the one that locked, and the pool closes            *)
(* connections that are too old (SetConnMaxLifetime in postgres.go).  What *)
(* a cycle does is module WebhookQueue's.                                  *)
(***************************************************************************)
EXTENDS Naturals, FiniteSets

CONSTANTS Replicas,   \* the processes
          Conns,      \* the connections of all pools
          PoolOf,     \* the replica each connection belongs to
          NoConn,     \* what holds a free lock
          WebhookEnabled,
          MaxDepth    \* bound: how often one session takes a lock it has

ASSUME CoordinatorAssumption ==
  /\ PoolOf \in [Conns -> Replicas]
  /\ \A r \in Replicas : \E c \in Conns : PoolOf[c] = r
  /\ NoConn \notin Conns
  /\ WebhookEnabled \in BOOLEAN
  /\ MaxDepth \in Nat \ {0}

VARIABLES
  launched,  \* how many of its goroutines Start has launched
  loop,      \* where each goroutine is
  stopPc,    \* how far Stop has come
  dbOpen,    \* whether the pool is open
  holder,    \* the session that holds each lock
  depth,     \* how often it does
  lateLoops, \* history: goroutines launched after Stop had returned
  orphaned   \* history: running cycles whose lock ended with its session

lockVars == <<holder, depth>>
coordinatorHistory == <<lateLoops, orphaned>>
coordinatorVars == <<launched, loop, stopPc, dbOpen, lockVars, coordinatorHistory>>

-----------------------------------------------------------------------------
\* In the order in which Start launches them.
LaunchOrder == <<"aggregator", "dispatcher", "reporter">>
Loops == {"aggregator", "dispatcher", "reporter"}
Locks == {"aggregator", "dispatcher"}    \* 100001 and 100002 in the code

LoopPlaces == {"absent", "select", "try", "inside", "exited"}
Pool(r) == {c \in Conns : PoolOf[c] = r}

CoordinatorInit ==
  /\ launched = [r \in Replicas |-> 0]
  /\ loop = [r \in Replicas |-> [k \in Loops |-> "absent"]]
  /\ stopPc = [r \in Replicas |-> "up"]
  /\ dbOpen = [r \in Replicas |-> TRUE]
  /\ holder = [k \in Locks |-> NoConn]
  /\ depth = [k \in Locks |-> 0]
  /\ lateLoops = {}
  /\ orphaned = {}

Goto(r, k, place) == loop' = [loop EXCEPT ![r][k] = place]

\* Start runs in a goroutine of its own (container.go): wg.Add and go, three
\* times.  The aggregator starts with a cycle, the others wait for their tickers.
Launch(r) ==
  LET k == LaunchOrder[launched[r] + 1] IN
  /\ launched[r] < 3
  /\ launched' = [launched EXCEPT ![r] = @ + 1]
  /\ Goto(r, k, IF k = "aggregator" THEN "try" ELSE "select")
  /\ lateLoops' = IF stopPc[r] = "stopped" THEN lateLoops \cup {<<r, k>>}
                                           ELSE lateLoops
  /\ UNCHANGED <<stopPc, dbOpen, lockVars, orphaned>>

\* The reporter's ticks, and the dispatcher's with webhooks disabled, change
\* nothing.
Tick(r, k) ==
  /\ loop[r][k] = "select"
  /\ k = "dispatcher" => WebhookEnabled
  /\ Goto(r, k, "try")
  /\ UNCHANGED <<launched, stopPc, dbOpen, lockVars, coordinatorHistory>>

\* Mutant: the loop does not look at stopChan.
SeeStopChanNever(r, k) ==
  /\ loop[r][k] = "select"
  /\ k = "reporter"
  /\ stopPc[r] # "up"
  /\ Goto(r, k, "exited")
  /\ UNCHANGED <<launched, stopPc, dbOpen, lockVars, coordinatorHistory>>

SeeStopChan(r, k) ==
  /\ loop[r][k] = "select"
  /\ stopPc[r] # "up"
  /\ Goto(r, k, "exited")
  /\ UNCHANGED <<launched, stopPc, dbOpen, lockVars, coordinatorHistory>>

-----------------------------------------------------------------------------
\* tryAdvisoryLock on some connection: granted if the lock is free or this very
\* session has it.
Acquire(r, k, c) ==
  /\ loop[r][k] = "try"
  /\ dbOpen[r]
  /\ holder[k] \in {NoConn, c}
  /\ depth[k] < MaxDepth
  /\ holder' = [holder EXCEPT ![k] = c]
  /\ depth' = [depth EXCEPT ![k] = @ + 1]
  /\ Goto(r, k, "inside")
  /\ UNCHANGED <<launched, stopPc, dbOpen, coordinatorHistory>>

Refused(r, k, c) ==
  /\ loop[r][k] = "try"
  /\ dbOpen[r]
  /\ holder[k] \notin {NoConn, c}
  /\ Goto(r, k, "select")
  /\ UNCHANGED <<launched, stopPc, dbOpen, lockVars, coordinatorHistory>>

\* Mutant: an error counts as success.
TryErrorEnters(r, k) ==
  /\ loop[r][k] = "try"
  /\ Goto(r, k, "inside")
  /\ UNCHANGED <<launched, stopPc, dbOpen, lockVars, coordinatorHistory>>

\* Mutant: the cycle does not give up on a statement that fails for good.
TryErrorRetries(r, k) ==
  /\ loop[r][k] = "try"
  /\ dbOpen[r]
  /\ Goto(r, k, "select")
  /\ UNCHANGED <<launched, stopPc, dbOpen, lockVars, coordinatorHistory>>

\* The statement fails, and with a closed pool it always does: false as well.
TryError(r, k) ==
  /\ loop[r][k] = "try"
  /\ Goto(r, k, "select")
  /\ UNCHANGED <<launched, stopPc, dbOpen, lockVars, coordinatorHistory>>

\* releaseAdvisoryLock on some connection.  A session that does not hold the lock
\* is told so in the result, which nobody reads.
Release(r, k, c) ==
  /\ loop[r][k] = "inside"
  /\ dbOpen[r] /\ holder[k] = c
  /\ depth' = [depth EXCEPT ![k] = @ - 1]
  /\ holder' = [holder EXCEPT ![k] = IF depth[k] = 1 THEN NoConn ELSE @]
  /\ Goto(r, k, "select")
  /\ orphaned' = orphaned \ {<<r, k>>}
  /\ UNCHANGED <<launched, stopPc, dbOpen, lateLoops>>

\* Elsewhere, or it failed: the lock stays where it is.
ReleaseMisses(r, k) ==
  /\ loop[r][k] = "inside"
  /\ Goto(r, k, "select")
  /\ orphaned' = orphaned \ {<<r, k>>}
  /\ UNCHANGED <<launched, stopPc, dbOpen, lockVars, lateLoops>>

\* PostgreSQL frees what a session held when it ends.
SessionsEnd(ended) ==
  LET freed == {k \in Locks : holder[k] \in ended} IN
  /\ holder' = [k \in Locks |-> IF k \in freed THEN NoConn ELSE holder[k]]
  /\ depth' = [k \in Locks |-> IF k \in freed THEN 0 ELSE depth[k]]
  /\ orphaned' = orphaned \cup
       {cycle \in Replicas \X freed :
          /\ loop[cycle[1]][cycle[2]] = "inside"
          /\ PoolOf[holder[cycle[2]]] = cycle[1]}

\* The pool closes a connection that has reached its maximal lifetime; a new one
\* takes its place.
Expire(c) ==
  /\ \E k \in Locks : holder[k] = c
  /\ SessionsEnd({c})
  /\ UNCHANGED <<launched, loop, stopPc, dbOpen, lateLoops>>

-----------------------------------------------------------------------------
\* Shutdown: Stop closes stopChan and waits for the WaitGroup; later the database
\* is closed.
CloseStop(r) ==
  /\ stopPc[r] = "up"
  /\ stopPc' = [stopPc EXCEPT ![r] = "closed"]
  /\ UNCHANGED <<launched, loop, dbOpen, lockVars, coordinatorHistory>>

\* Mutant: Stop does not wait.
WaitForNone(r) ==
  /\ stopPc[r] = "closed"
  /\ stopPc' = [stopPc EXCEPT ![r] = "stopped"]
  /\ UNCHANGED <<launched, loop, dbOpen, lockVars, coordinatorHistory>>

WaitForLoops(r) ==
  /\ stopPc[r] = "closed"
  /\ \A k \in Loops : loop[r][k] \in {"absent", "exited"}
  /\ stopPc' = [stopPc EXCEPT ![r] = "stopped"]
  /\ UNCHANGED <<launched, loop, dbOpen, lockVars, coordinatorHistory>>

CloseDatabase(r) ==
  /\ stopPc[r] = "stopped"
  /\ dbOpen[r]
  /\ dbOpen' = [dbOpen EXCEPT ![r] = FALSE]
  /\ SessionsEnd(Pool(r))
  /\ UNCHANGED <<launched, loop, stopPc, lateLoops>>

\* The process ends, in order or not, and is started again.
Reboot(r) ==
  /\ launched' = [launched EXCEPT ![r] = 0]
  /\ loop' = [loop EXCEPT ![r] = [k \in Loops |-> "absent"]]
  /\ stopPc' = [stopPc EXCEPT ![r] = "up"]
  /\ dbOpen' = [dbOpen EXCEPT ![r] = TRUE]
  /\ lateLoops' = {l \in lateLoops : l[1] # r}
  /\ holder' = [k \in Locks |-> IF holder[k] \in Pool(r) THEN NoConn ELSE holder[k]]
  /\ depth' = [k \in Locks |-> IF holder[k] \in Pool(r) THEN 0 ELSE depth[k]]
  /\ orphaned' = {o \in orphaned : o[1] # r}

-----------------------------------------------------------------------------
CycleStep(r, k) ==
  \/ \E c \in Pool(r) : Acquire(r, k, c) \/ Refused(r, k, c) \/ Release(r, k, c)
  \/ TryError(r, k) \/ ReleaseMisses(r, k)
ShutdownSteps(r) == WaitForLoops(r) \/ CloseDatabase(r)

CoordinatorNext ==
  \/ \E r \in Replicas :
       \/ Launch(r) \/ CloseStop(r) \/ ShutdownSteps(r) \/ Reboot(r)
       \/ \E k \in Locks : Tick(r, k) \/ CycleStep(r, k)
       \/ \E k \in Loops : SeeStopChan(r, k)
  \/ \E c \in Conns : Expire(c)

CoordinatorSpec == CoordinatorInit /\ [][CoordinatorNext]_coordinatorVars

\* Statements return, goroutines in their select do not overlook the closed
\* stopChan for ever (select is random, hence the strong fairness), and a shutdown
\* goes on.
FairCoordinatorSpec ==
  /\ CoordinatorSpec
  /\ \A r \in Replicas :
       /\ WF_coordinatorVars(\E k \in Locks : CycleStep(r, k))
       /\ SF_coordinatorVars(\E k \in Loops : SeeStopChan(r, k))
       /\ WF_coordinatorVars(ShutdownSteps(r))

-----------------------------------------------------------------------------
(* Properties *)

\* The type invariant.
CoordinatorTypeOK ==
  /\ launched \in [Replicas -> 0..3]
  /\ loop \in [Replicas -> [Loops -> LoopPlaces]]
  /\ stopPc \in [Replicas -> {"up", "closed", "stopped"}]
  /\ dbOpen \in [Replicas -> BOOLEAN]
  /\ holder \in [Locks -> Conns \cup {NoConn}]
  /\ depth \in [Locks -> 0..MaxDepth]
  /\ \A k \in Locks : depth[k] = 0 <=> holder[k] = NoConn
  /\ lateLoops \subseteq Replicas \X Loops
  /\ orphaned \subseteq Replicas \X Locks

\* Two replicas are in the same cycle only if the session that locked for one of
\* them has ended meanwhile.  The unlocks that miss, and the locks left behind,
\* cannot let a second replica in (tryAdvisoryLock, releaseAdvisoryLock).
ExclusiveWhileSessionLives ==
  \A r, s \in Replicas, k \in Locks :
    r # s /\ loop[r][k] = "inside" /\ loop[s][k] = "inside"
      => <<r, k>> \in orphaned \/ <<s, k>> \in orphaned

\* After Stop has returned, and so when the database is closed, only goroutines
\* run that Start launched too late for Stop to wait for.
StoppedIsQuiet ==
  \A r \in Replicas, k \in Loops :
    stopPc[r] = "stopped" /\ loop[r][k] \notin {"absent", "exited"}
      => <<r, k>> \in lateLoops

\* Stop returns, though its goroutines look at stopChan only between two cycles.
CoordinatorStops == \A r \in Replicas : stopPc[r] = "closed" ~> stopPc[r] # "closed"

\* A goroutine that Start has launched behind the back of Stop ends by itself, though
\* nobody waits for it and the database is closed under its cycle: what it launches is
\* not left over (Start in a goroutine of its own in container.go).
LateLoopsEnd ==
  \A r \in Replicas, k \in Loops :
    <<r, k>> \in lateLoops ~> <<r, k>> \notin lateLoops \/ loop[r][k] = "exited"
=============================================================================

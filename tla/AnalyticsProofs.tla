--------------------------- MODULE AnalyticsProofs ---------------------------
(***************************************************************************)
(* Proofs about the analytics in the background: the coordinator's cycles, *)
(* for any replicas, connections and nesting of locks, and the webhook     *)
(* queue they work on, for any buckets, dispatchers, batch sizes and       *)
(* limits.                                                                 *)
(*                                                                         *)
(* A running cycle whose session lives has the lock.  A dispatcher works   *)
(* on copies of rows; the queue's invariant says what a copy still has to  *)
(* do with its row, whatever the aggregator and other dispatchers have     *)
(* done to the row since.                                                  *)
(***************************************************************************)
EXTENDS AnalyticsCoordinator, WebhookQueue, FiniteSetTheorems, TLAPS

-----------------------------------------------------------------------------
(* The coordinator *)

\* A running cycle whose session lives has the lock, in its own replica's pool.
\* Exclusion rests on this: a connection belongs to one pool.
CycleHasLock ==
  \A r \in Replicas, k \in Locks :
    loop[r][k] = "inside" /\ <<r, k>> \notin orphaned => holder[k] \in Pool(r)

CoordinatorInv == CoordinatorTypeOK /\ CycleHasLock /\ StoppedIsQuiet

-----------------------------------------------------------------------------
\* Start launches the three goroutines of Loops.
LEMMA Launched ==
  ASSUME NEW n \in 0..3, n < 3
  PROVE  LaunchOrder[n + 1] \in Loops
<1>1. n = 0 \/ n = 1 \/ n = 2
  OBVIOUS
<1> QED BY <1>1 DEF LaunchOrder, Loops

\* A goroutine that is somewhere else changes one place.
LEMMA GotoType ==
  ASSUME NEW r \in Replicas, NEW k \in Loops, NEW place \in LoopPlaces,
         loop \in [Replicas -> [Loops -> LoopPlaces]], Goto(r, k, place)
  PROVE  /\ loop' \in [Replicas -> [Loops -> LoopPlaces]]
         /\ loop'[r][k] = place
         /\ \A s \in Replicas, l \in Loops :
              s # r \/ l # k => loop'[s][l] = loop[s][l]
BY DEF Goto

LEMMA LocksAreLoops == Locks \subseteq Loops
BY DEF Locks, Loops

LEMMA CoordinatorInvInit == CoordinatorInit => CoordinatorInv
BY CoordinatorAssumption
   DEF CoordinatorInit, CoordinatorInv, CoordinatorTypeOK, CycleHasLock,
       StoppedIsQuiet, LoopPlaces, Loops, Locks

\* The end of sessions frees their locks and marks the cycles that ran in them.
LEMMA SessionsEndKeeps ==
  ASSUME CoordinatorTypeOK, CycleHasLock, NEW ended \in SUBSET Conns,
         SessionsEnd(ended), UNCHANGED loop
  PROVE  /\ holder' \in [Locks -> Conns \cup {NoConn}]
         /\ depth' \in [Locks -> 0..MaxDepth]
         /\ \A k \in Locks : depth'[k] = 0 <=> holder'[k] = NoConn
         /\ orphaned' \subseteq Replicas \X Locks
         /\ CycleHasLock'
<1> USE CoordinatorAssumption DEF CoordinatorTypeOK, SessionsEnd
<1>1. /\ holder' \in [Locks -> Conns \cup {NoConn}]
      /\ depth' \in [Locks -> 0..MaxDepth]
      /\ \A k \in Locks : depth'[k] = 0 <=> holder'[k] = NoConn
  OBVIOUS
<1>2. orphaned' \subseteq Replicas \X Locks
  OBVIOUS
<1>3. CycleHasLock'
  <2> SUFFICES ASSUME NEW r \in Replicas, NEW k \in Locks,
                      loop[r][k] = "inside", <<r, k>> \notin orphaned'
               PROVE  holder'[k] \in Pool(r)
    BY DEF CycleHasLock
  <2>1. holder[k] \in Pool(r)
    BY DEF CycleHasLock
  <2>2. holder[k] \notin ended
    BY <2>1 DEF Pool
  <2> QED BY <2>1, <2>2
<1> QED BY <1>1, <1>2, <1>3

-----------------------------------------------------------------------------
\* What one loop of a replica does to itself and, with a lock, to holder.
LEMMA CycleStepKeeps ==
  ASSUME CoordinatorInv, NEW r \in Replicas, NEW k \in Locks,
         Tick(r, k) \/ CycleStep(r, k)
  PROVE  CoordinatorInv'
<1> USE CoordinatorAssumption, LocksAreLoops DEF CoordinatorInv, lockVars,
        coordinatorHistory
<1>1. CASE Tick(r, k) \/ TryError(r, k) \/ ReleaseMisses(r, k)
           \/ \E c \in Pool(r) : Refused(r, k, c)
  <2>1. PICK place \in {"try", "select"} :
          /\ Goto(r, k, place)
          /\ loop[r][k] \notin {"absent", "exited"}
          /\ orphaned' \in {orphaned, orphaned \ {<<r, k>>}}
          /\ UNCHANGED <<launched, stopPc, dbOpen, holder, depth, lateLoops>>
    BY <1>1 DEF Tick, TryError, ReleaseMisses, Refused
  <2>2. /\ loop' \in [Replicas -> [Loops -> LoopPlaces]]
        /\ loop'[r][k] = place
        /\ \A s \in Replicas, l \in Loops :
             s # r \/ l # k => loop'[s][l] = loop[s][l]
    BY <2>1, GotoType DEF CoordinatorTypeOK, LoopPlaces
  <2>3. CoordinatorTypeOK'
    BY <2>1, <2>2 DEF CoordinatorTypeOK
  <2>4. CycleHasLock'
    BY <2>1, <2>2 DEF CycleHasLock
  <2>5. StoppedIsQuiet'
    BY <2>1, <2>2 DEF StoppedIsQuiet
  <2> QED BY <2>3, <2>4, <2>5
<1>2. ASSUME NEW c \in Pool(r), Acquire(r, k, c)
      PROVE  CoordinatorInv'
  <2>1. /\ c \in Conns /\ PoolOf[c] = r
        /\ loop[r][k] = "try"
        /\ loop' \in [Replicas -> [Loops -> LoopPlaces]]
        /\ loop'[r][k] = "inside"
        /\ \A s \in Replicas, l \in Loops :
             s # r \/ l # k => loop'[s][l] = loop[s][l]
    BY <1>2, GotoType DEF Acquire, Pool, CoordinatorTypeOK, LoopPlaces
  <2>2. /\ holder' \in [Locks -> Conns \cup {NoConn}]
        /\ depth' \in [Locks -> 0..MaxDepth]
        /\ \A l \in Locks : depth'[l] = 0 <=> holder'[l] = NoConn
    BY <1>2, <2>1 DEF Acquire, CoordinatorTypeOK
  <2>3. CoordinatorTypeOK'
    BY <1>2, <2>1, <2>2 DEF Acquire, CoordinatorTypeOK
  <2>4. CycleHasLock'
    <3> SUFFICES ASSUME NEW s \in Replicas, NEW l \in Locks,
                        loop'[s][l] = "inside", <<s, l>> \notin orphaned'
                 PROVE  holder'[l] \in Pool(s)
      BY DEF CycleHasLock
    <3>1. CASE s = r /\ l = k
      BY <1>2, <2>1, <3>1 DEF Acquire, CoordinatorTypeOK
    <3>2. CASE ~(s = r /\ l = k)
      <4>1. holder[l] \in Pool(s)
        BY <1>2, <2>1, <3>2 DEF Acquire, CycleHasLock
      <4>2. holder'[l] = holder[l]
        BY <1>2, <4>1 DEF Acquire, CoordinatorTypeOK, Pool
      <4> QED BY <4>1, <4>2
    <3> QED BY <3>1, <3>2
  <2>5. StoppedIsQuiet'
    BY <1>2, <2>1 DEF Acquire, StoppedIsQuiet
  <2> QED BY <2>3, <2>4, <2>5
<1>3. ASSUME NEW c \in Pool(r), Release(r, k, c)
      PROVE  CoordinatorInv'
  <2>1. /\ c \in Conns /\ PoolOf[c] = r
        /\ loop[r][k] = "inside"
        /\ loop' \in [Replicas -> [Loops -> LoopPlaces]]
        /\ loop'[r][k] = "select"
        /\ \A s \in Replicas, l \in Loops :
             s # r \/ l # k => loop'[s][l] = loop[s][l]
    BY <1>3, GotoType DEF Release, Pool, CoordinatorTypeOK, LoopPlaces
  <2>2. /\ holder' \in [Locks -> Conns \cup {NoConn}]
        /\ depth' \in [Locks -> 0..MaxDepth]
        /\ \A l \in Locks : depth'[l] = 0 <=> holder'[l] = NoConn
    <3>1. depth[k] \in 1..MaxDepth
      BY <1>3, <2>1 DEF Release, CoordinatorTypeOK
    <3>2. /\ depth' = [depth EXCEPT ![k] = depth[k] - 1]
          /\ holder' = [holder EXCEPT ![k] = IF depth[k] = 1 THEN NoConn
                                                              ELSE holder[k]]
      BY <1>3 DEF Release
    <3>3. depth' \in [Locks -> 0..MaxDepth]
      BY <3>1, <3>2 DEF CoordinatorTypeOK
    <3>4. holder' \in [Locks -> Conns \cup {NoConn}]
      BY <3>2 DEF CoordinatorTypeOK
    <3>5. depth'[k] = 0 <=> holder'[k] = NoConn
      BY <2>1, <3>1, <3>2, <1>3 DEF CoordinatorTypeOK, Release
    <3>6. \A l \in Locks \ {k} : depth'[l] = depth[l] /\ holder'[l] = holder[l]
      BY <3>2 DEF CoordinatorTypeOK
    <3> QED BY <3>3, <3>4, <3>5, <3>6 DEF CoordinatorTypeOK
  <2>3. CoordinatorTypeOK'
    BY <1>3, <2>1, <2>2 DEF Release, CoordinatorTypeOK
  <2>4. CycleHasLock'
    <3> SUFFICES ASSUME NEW s \in Replicas, NEW l \in Locks,
                        loop'[s][l] = "inside", <<s, l>> \notin orphaned'
                 PROVE  holder'[l] \in Pool(s)
      BY DEF CycleHasLock
    <3>1. s # r \/ l # k
      BY <2>1
    <3>2. holder[l] \in Pool(s)
      BY <1>3, <2>1, <3>1 DEF Release, CycleHasLock
    <3>3. l # k
      BY <1>3, <2>1, <3>1, <3>2 DEF Release, Pool
    <3> QED BY <1>3, <3>2, <3>3 DEF Release, CoordinatorTypeOK
  <2>5. StoppedIsQuiet'
    BY <1>3, <2>1 DEF Release, StoppedIsQuiet
  <2> QED BY <2>3, <2>4, <2>5
<1> QED BY <1>1, <1>2, <1>3 DEF CycleStep

-----------------------------------------------------------------------------
LEMMA LaunchKeeps ==
  ASSUME CoordinatorInv, NEW r \in Replicas, Launch(r)
  PROVE  CoordinatorInv'
<1> DEFINE k == LaunchOrder[launched[r] + 1]
           place == IF k = "aggregator" THEN "try" ELSE "select"
<1> USE DEF CoordinatorInv, lockVars
<1>1. /\ launched[r] \in 0..3 /\ launched[r] < 3
      /\ Goto(r, k, place)
      /\ launched' = [launched EXCEPT ![r] = @ + 1]
      /\ lateLoops' = IF stopPc[r] = "stopped" THEN lateLoops \cup {<<r, k>>}
                                               ELSE lateLoops
      /\ UNCHANGED <<stopPc, dbOpen, holder, depth, orphaned>>
  BY DEF Launch, CoordinatorTypeOK
<1>2. k \in Loops
  BY <1>1, Launched
<1>3. place \in {"try", "select"} /\ place \in LoopPlaces
  BY DEF LoopPlaces
<1> HIDE DEF k, place
<1>4. /\ loop' \in [Replicas -> [Loops -> LoopPlaces]]
      /\ loop'[r][k] = place
      /\ \A s \in Replicas, l \in Loops :
           s # r \/ l # k => loop'[s][l] = loop[s][l]
  BY <1>1, <1>2, <1>3, GotoType DEF CoordinatorTypeOK
<1>5. launched' \in [Replicas -> 0..3]
  BY <1>1 DEF CoordinatorTypeOK
<1>6. lateLoops' \subseteq Replicas \X Loops
  BY <1>1, <1>2 DEF CoordinatorTypeOK
<1>7. CoordinatorTypeOK'
  BY <1>1, <1>4, <1>5, <1>6 DEF CoordinatorTypeOK
<1>8. CycleHasLock'
  BY <1>1, <1>3, <1>4, LocksAreLoops DEF CycleHasLock
<1>9. StoppedIsQuiet'
  BY <1>1, <1>4 DEF StoppedIsQuiet
<1> QED BY <1>7, <1>8, <1>9

LEMMA StopKeeps ==
  ASSUME CoordinatorInv, NEW r \in Replicas,
         \/ CloseStop(r) \/ WaitForLoops(r) \/ CloseDatabase(r)
         \/ \E k \in Loops : SeeStopChan(r, k)
  PROVE  CoordinatorInv'
<1> USE DEF CoordinatorInv, lockVars, coordinatorHistory
<1>1. CASE CloseStop(r)
  BY <1>1 DEF CloseStop, CoordinatorTypeOK, CycleHasLock, StoppedIsQuiet
<1>2. CASE WaitForLoops(r)
  BY <1>2 DEF WaitForLoops, CoordinatorTypeOK, CycleHasLock, StoppedIsQuiet
<1>3. CASE CloseDatabase(r)
  <2>1. /\ SessionsEnd(Pool(r)) /\ UNCHANGED <<launched, loop, stopPc, lateLoops>>
        /\ dbOpen' \in [Replicas -> BOOLEAN]
    BY <1>3 DEF CloseDatabase, CoordinatorTypeOK
  <2>2. Pool(r) \in SUBSET Conns
    BY DEF Pool
  <2>3. /\ holder' \in [Locks -> Conns \cup {NoConn}]
        /\ depth' \in [Locks -> 0..MaxDepth]
        /\ \A k \in Locks : depth'[k] = 0 <=> holder'[k] = NoConn
        /\ orphaned' \subseteq Replicas \X Locks
        /\ CycleHasLock'
    BY <2>1, <2>2, SessionsEndKeeps
  <2>4. StoppedIsQuiet'
    BY <2>1 DEF StoppedIsQuiet
  <2> QED BY <2>1, <2>3, <2>4 DEF CoordinatorTypeOK
<1>4. ASSUME NEW k \in Loops, SeeStopChan(r, k)
      PROVE  CoordinatorInv'
  <2>1. /\ loop' \in [Replicas -> [Loops -> LoopPlaces]]
        /\ loop'[r][k] = "exited"
        /\ \A s \in Replicas, l \in Loops :
             s # r \/ l # k => loop'[s][l] = loop[s][l]
        /\ UNCHANGED <<launched, stopPc, dbOpen, holder, depth, lateLoops, orphaned>>
    BY <1>4, GotoType DEF SeeStopChan, CoordinatorTypeOK, LoopPlaces
  <2>2. CoordinatorTypeOK'
    BY <2>1 DEF CoordinatorTypeOK
  <2>3. CycleHasLock'
    BY <2>1, LocksAreLoops DEF CycleHasLock
  <2>4. StoppedIsQuiet'
    BY <2>1 DEF StoppedIsQuiet
  <2> QED BY <2>2, <2>3, <2>4
<1> QED BY <1>1, <1>2, <1>3, <1>4

LEMMA ExpireKeeps ==
  ASSUME CoordinatorInv, NEW c \in Conns, Expire(c)
  PROVE  CoordinatorInv'
<1>1. SessionsEnd({c}) /\ UNCHANGED <<launched, loop, stopPc, dbOpen, lateLoops>>
  BY DEF Expire
<1>2. /\ holder' \in [Locks -> Conns \cup {NoConn}]
      /\ depth' \in [Locks -> 0..MaxDepth]
      /\ \A k \in Locks : depth'[k] = 0 <=> holder'[k] = NoConn
      /\ orphaned' \subseteq Replicas \X Locks
      /\ CycleHasLock'
  BY <1>1, SessionsEndKeeps DEF CoordinatorInv
<1> QED BY <1>1, <1>2 DEF CoordinatorInv, CoordinatorTypeOK, StoppedIsQuiet

LEMMA RebootKeeps ==
  ASSUME CoordinatorInv, NEW r \in Replicas, Reboot(r)
  PROVE  CoordinatorInv'
<1> USE CoordinatorAssumption DEF CoordinatorInv
<1>1. /\ loop' \in [Replicas -> [Loops -> LoopPlaces]]
      /\ \A k \in Loops : loop'[r][k] = "absent"
      /\ \A s \in Replicas \ {r}, k \in Loops : loop'[s][k] = loop[s][k]
  BY DEF Reboot, CoordinatorTypeOK, LoopPlaces
<1>2. /\ launched' \in [Replicas -> 0..3]
      /\ stopPc' \in [Replicas -> {"up", "closed", "stopped"}]
      /\ dbOpen' \in [Replicas -> BOOLEAN]
  BY DEF Reboot, CoordinatorTypeOK
<1>3. /\ holder' \in [Locks -> Conns \cup {NoConn}]
      /\ depth' \in [Locks -> 0..MaxDepth]
      /\ \A k \in Locks : depth'[k] = 0 <=> holder'[k] = NoConn
  BY DEF Reboot, CoordinatorTypeOK
<1>4. lateLoops' \subseteq Replicas \X Loops /\ orphaned' \subseteq Replicas \X Locks
  BY DEF Reboot, CoordinatorTypeOK
<1>5. CycleHasLock'
  <2> SUFFICES ASSUME NEW s \in Replicas, NEW k \in Locks,
                      loop'[s][k] = "inside", <<s, k>> \notin orphaned'
               PROVE  holder'[k] \in Pool(s)
    BY DEF CycleHasLock
  <2>1. s # r
    BY <1>1, LocksAreLoops
  <2>2. <<s, k>> \notin orphaned
    BY <2>1 DEF Reboot
  <2>3. holder[k] \in Pool(s)
    BY <1>1, <2>1, <2>2, LocksAreLoops DEF CycleHasLock
  <2>4. holder[k] \notin Pool(r)
    BY <2>1, <2>3 DEF Pool
  <2> QED BY <2>3, <2>4 DEF Reboot
<1>6. StoppedIsQuiet'
  <2> SUFFICES ASSUME NEW s \in Replicas, NEW k \in Loops, stopPc'[s] = "stopped",
                      loop'[s][k] \notin {"absent", "exited"}
               PROVE  <<s, k>> \in lateLoops'
    BY DEF StoppedIsQuiet
  <2>1. s # r
    BY <1>1
  <2>2. <<s, k>> \in lateLoops
    BY <1>1, <2>1 DEF Reboot, StoppedIsQuiet, CoordinatorTypeOK
  <2> QED BY <2>1, <2>2 DEF Reboot
<1> QED BY <1>1, <1>2, <1>3, <1>4, <1>5, <1>6 DEF CoordinatorTypeOK

-----------------------------------------------------------------------------
\* Every reachable state satisfies the inductive invariant.
THEOREM CoordinatorInvariant == CoordinatorSpec => []CoordinatorInv
<1>1. CoordinatorInv /\ [CoordinatorNext]_coordinatorVars => CoordinatorInv'
  <2> SUFFICES ASSUME CoordinatorInv, [CoordinatorNext]_coordinatorVars
               PROVE  CoordinatorInv'
    OBVIOUS
  <2>1. CASE UNCHANGED coordinatorVars
    BY <2>1 DEF coordinatorVars, lockVars, coordinatorHistory, CoordinatorInv,
                CoordinatorTypeOK, CycleHasLock, StoppedIsQuiet
  <2>2. CASE CoordinatorNext
    BY <2>2, LaunchKeeps, StopKeeps, RebootKeeps, CycleStepKeeps, ExpireKeeps
       DEF CoordinatorNext, ShutdownSteps
  <2> QED BY <2>1, <2>2
<1> QED BY <1>1, CoordinatorInvInit, PTL DEF CoordinatorSpec

\* Locks, sessions and goroutines are consistent: a lock is counted exactly while
\* some session holds it (tryAdvisoryLock, releaseAdvisoryLock).
THEOREM CoordinatorTypeCorrect == CoordinatorSpec => []CoordinatorTypeOK
BY CoordinatorInvariant, PTL DEF CoordinatorInv

\* Two replicas are in the same cycle only after a session of one of them ended.
THEOREM LocksExclude == CoordinatorSpec => []ExclusiveWhileSessionLives
<1>1. CoordinatorInv => ExclusiveWhileSessionLives
  BY DEF CoordinatorInv, CycleHasLock, ExclusiveWhileSessionLives, Pool
<1> QED BY <1>1, CoordinatorInvariant, PTL

\* After Stop only goroutines run that Start launched too late.
THEOREM QuietAfterCoordinatorStop == CoordinatorSpec => []StoppedIsQuiet
BY CoordinatorInvariant, PTL DEF CoordinatorInv
-----------------------------------------------------------------------------
(* The webhook queue *)

Todo(d) == job[d].todo

\* A row in the queue has statistics, which have counted something.
CountedOnce ==
  \A b \in Buckets : /\ b \in recent => events[b] > 0
                     /\ b \in Rows => stats[b] > 0

\* A cycle has each row once.
TodoIsQueued ==
  \A d \in Dispatchers : \A i \in DOMAIN Todo(d) :
    /\ Todo(d)[i].bucket \in Rows
    /\ \A j \in DOMAIN Todo(d) : Todo(d)[j].bucket = Todo(d)[i].bucket => j = i

\* A copy whose statistics were not read yet has no more attempts than its row,
\* unless the row was requeued.
CopiesFollow ==
  \A d \in Dispatchers : \A i \in DOMAIN Todo(d) :
    (i = 1 => job[d].at = "next") /\ Todo(d)[i].bucket \notin requeued[d] =>
      Todo(d)[i].attempts <= row[Todo(d)[i].bucket].attempts

\* What a dispatcher is about to send or to write is right if its row was not
\* requeued since it has read the statistics.
VerdictIsRight ==
  \A d \in Dispatchers :
    LET b == Item(d).bucket
        fresh == b \notin requeued[d]
    IN
    /\ job[d].at = "send" =>
         /\ job[d].payload \in 1..stats[b]
         /\ fresh => job[d].payload = stats[b]
         /\ ~Exhausted(Item(d))
    /\ job[d].at = "write" =>
         \/ job[d].verdict = "SENT" /\ (fresh => received[b] = stats[b])
         \/ job[d].verdict = "FAILED" /\ (fresh => row[b].attempts >= MaxWebhookAttempts)
         \/ job[d].verdict = "RETRYING" /\ ~Exhausted(Item(d))

\* What makes SentIsCurrent and FailedIsExhausted inductive.
SettledInv == CountedOnce /\ TodoIsQueued /\ CopiesFollow /\ VerdictIsRight
              /\ SentIsCurrent /\ FailedIsExhausted

-----------------------------------------------------------------------------
(* The places of a dispatcher *)

\* The dispatcher at one place of its cycle, with what it has to do.
LEMMA InTheCycle ==
  ASSUME QueueTypeOK, NEW d \in Dispatchers, job[d].at # "idle"
  PROVE  /\ Todo(d) \in Seq(Items) /\ Todo(d) # <<>>
         /\ 1 \in DOMAIN Todo(d) /\ Item(d) = Todo(d)[1]
         /\ Item(d) \in Items /\ Item(d).bucket \in Buckets /\ Item(d).attempts \in Nat
<1>1. job[d] \in Jobs /\ Todo(d) # <<>>
  BY DEF QueueTypeOK, Todo
<1>2. Todo(d) \in Seq(Items)
  BY <1>1 DEF Jobs, Todo
<1>3. 1 \in DOMAIN Todo(d) /\ Head(Todo(d)) = Todo(d)[1] /\ Head(Todo(d)) \in Items
  BY <1>1, <1>2
<1> QED BY <1>1, <1>2, <1>3 DEF Item, Items, Todo

\* What is to be done are rows.
LEMMA TodoIsItems ==
  ASSUME QueueTypeOK, NEW d \in Dispatchers
  PROVE  /\ Todo(d) \in Seq(Items)
         /\ \A i \in DOMAIN Todo(d) :
              Todo(d)[i].bucket \in Buckets /\ Todo(d)[i].attempts \in Nat
<1>1. Todo(d) \in Seq(Items)
  BY DEF QueueTypeOK, Jobs, Todo
<1>2. \A i \in DOMAIN Todo(d) : Todo(d)[i] \in Items
  BY <1>1
<1> QED BY <1>1, <1>2 DEF Items

\* A verdict leaves what is to be done as it is.
LEMMA DecideEffect ==
  ASSUME QueueTypeOK, NEW d \in Dispatchers, NEW v \in {"SENT", "FAILED", "RETRYING"},
         Decide(d, v)
  PROVE  /\ job' \in [Dispatchers -> Jobs]
         /\ job'[d].at = "write" /\ job'[d].verdict = v /\ job'[d].todo = job[d].todo
         /\ \A e \in Dispatchers \ {d} : job'[e] = job[e]
<1>1. job \in [Dispatchers -> Jobs] /\ job[d] \in Jobs
  BY DEF QueueTypeOK
<1>2. job'[d] = [job[d] EXCEPT !.at = "write", !.payload = 0, !.verdict = v]
  BY <1>1 DEF Decide
<1>3. job'[d] \in Jobs
  <2>1. job'[d] = [at |-> "write", todo |-> job[d].todo, payload |-> 0, verdict |-> v]
    BY <1>1, <1>2 DEF Jobs
  <2>2. job[d].todo \in Seq(Items) /\ v \in {"none", "SENT", "FAILED", "RETRYING"}
    BY <1>1 DEF Jobs
  <2> QED BY <2>1, <2>2 DEF Jobs
<1>4. \A e \in Dispatchers \ {d} : job'[e] = job[e]
  BY <1>1 DEF Decide
<1>5. job'[d].at = "write" /\ job'[d].verdict = v /\ job'[d].todo = job[d].todo
  BY <1>1, <1>2 DEF Jobs
<1>6. job' \in [Dispatchers -> Jobs]
  BY <1>1, <1>3 DEF Decide
<1> QED BY <1>4, <1>5, <1>6

\* A sequence without its first element.
LEMMA DropFirst ==
  ASSUME NEW S, NEW s \in Seq(S), s # <<>>
  PROVE  /\ Tail(s) \in Seq(S)
         /\ Len(Tail(s)) = Len(s) - 1
         /\ Len(s) # 1 => Tail(s) # <<>>
         /\ \A i \in DOMAIN Tail(s) :
              i + 1 \in DOMAIN s /\ i + 1 # 1 /\ Tail(s)[i] = s[i + 1]
<1>1. /\ Len(s) \in Nat \ {0}
      /\ Tail(s) \in Seq(S)
      /\ Len(Tail(s)) = Len(s) - 1
      /\ DOMAIN s = 1..Len(s)
      /\ DOMAIN Tail(s) = 1..(Len(s) - 1)
      /\ \A i \in 1..(Len(s) - 1) : Tail(s)[i] = s[i + 1]
  OBVIOUS
<1>2. Len(s) # 1 => Tail(s) # <<>>
  BY <1>1
<1> QED BY <1>1, <1>2

\* Going on drops the row that was written and no other.
LEMMA GoOnEffect ==
  ASSUME QueueTypeOK, NEW d \in Dispatchers, job[d].at = "write", GoOn(d)
  PROVE  /\ job' \in [Dispatchers -> Jobs]
         /\ job'[d].at \in {"idle", "next"}
         /\ job'[d].todo = <<>> <=> job'[d].at = "idle"
         /\ job'[d].todo \in Seq(Items)
         /\ Len(job'[d].todo) = Len(Todo(d)) - 1
         /\ \A i \in DOMAIN job'[d].todo :
              i + 1 \in DOMAIN Todo(d) /\ i + 1 # 1 /\ job'[d].todo[i] = Todo(d)[i + 1]
         /\ \A e \in Dispatchers \ {d} : job'[e] = job[e]
<1>1. job \in [Dispatchers -> Jobs] /\ job[d] \in Jobs
  BY DEF QueueTypeOK
<1>2. Todo(d) \in Seq(Items) /\ Todo(d) # <<>>
  BY InTheCycle
<1>3. job'[d] = IF Len(Todo(d)) = 1 THEN Idle
                ELSE [Idle EXCEPT !.at = "next", !.todo = Tail(Todo(d))]
  BY <1>1 DEF GoOn, Todo
<1>4. \A e \in Dispatchers \ {d} : job'[e] = job[e]
  BY <1>1 DEF GoOn
<1>5. Idle \in Jobs /\ Idle.at = "idle" /\ Idle.todo = <<>>
  BY DEF Idle, Jobs
<1>6. CASE Len(Todo(d)) = 1
  <2>1. job'[d] = Idle
    BY <1>3, <1>6
  <2>2. job' \in [Dispatchers -> Jobs]
    BY <1>1, <1>5, <1>6 DEF GoOn, Todo
  <2>3. /\ job'[d].at = "idle" /\ job'[d].todo = <<>>
        /\ job'[d].todo \in Seq(Items) /\ Len(job'[d].todo) = 0
    <3>1. <<>> \in Seq(Items) /\ Len(<<>>) = 0
      OBVIOUS
    <3> QED BY <1>5, <2>1, <3>1
  <2> QED BY <1>4, <1>6, <2>2, <2>3
<1>7. CASE Len(Todo(d)) # 1
  <2>1. /\ Tail(Todo(d)) \in Seq(Items)
        /\ Len(Tail(Todo(d))) = Len(Todo(d)) - 1
        /\ Tail(Todo(d)) # <<>>
        /\ \A i \in DOMAIN Tail(Todo(d)) :
             i + 1 \in DOMAIN Todo(d) /\ i + 1 # 1 /\ Tail(Todo(d))[i] = Todo(d)[i + 1]
    BY <1>2, <1>7, DropFirst
  <2>2. job'[d] = [Idle EXCEPT !.at = "next", !.todo = Tail(Todo(d))]
    BY <1>3, <1>7
  <2>3. job'[d].at = "next" /\ job'[d].todo = Tail(Todo(d)) /\ job'[d] \in Jobs
    <3>1. job'[d] = [at |-> "next", todo |-> Tail(Todo(d)), payload |-> 0, verdict |-> "none"]
      BY <2>2 DEF Idle
    <3> QED BY <2>1, <3>1 DEF Jobs
  <2>4. job' \in [Dispatchers -> Jobs]
    BY <1>1, <2>2, <2>3, <1>7 DEF GoOn, Todo
  <2> QED BY <1>4, <2>1, <2>3, <2>4
<1> QED BY <1>6, <1>7

\* The answers are sequences of distinct rows that are due.
LEMMA AnswersAreDue ==
  ASSUME NEW answer \in Answers
  PROVE  /\ answer \in Seq(Buckets)
         /\ Len(answer) <= WebhookBatchSize
         /\ \A i \in DOMAIN answer : Pending(answer[i])
         /\ \A i, j \in DOMAIN answer : answer[i] = answer[j] => i = j
<1>1. PICK s \in SUBSET Ready : answer \in SetToSeqs(s)
  BY DEF Answers, SetToAllKPermutations
<1>2. s \subseteq Buckets
  BY DEF Ready
<1>3. Cardinality(s) \in Nat
  BY <1>2, QueueAssumption, FS_Subset, FS_CardinalityType
<1>4. /\ answer \in [1..Cardinality(s) -> s]
      /\ \A i, j \in 1..Cardinality(s) : i # j => answer[i] # answer[j]
  BY <1>1 DEF SetToSeqs
<1>5. answer \in Seq(Buckets)
  BY <1>2, <1>3, <1>4
<1>6. Len(answer) <= WebhookBatchSize
  BY DEF Answers
<1>7. \A i \in DOMAIN answer : Pending(answer[i])
  BY <1>4 DEF Ready
<1> QED BY <1>4, <1>5, <1>6, <1>7

\* A cycle begins with the answer's rows as they are.
LEMMA FetchEffect ==
  ASSUME QueueTypeOK, NEW d \in Dispatchers, GetPendingWebhooks(d)
  PROVE  /\ job[d].at = "idle"
         /\ job' \in [Dispatchers -> Jobs]
         /\ job'[d].at = "next" /\ job'[d].todo # <<>>
         /\ Len(job'[d].todo) <= WebhookBatchSize
         /\ \A i \in DOMAIN job'[d].todo :
              /\ job'[d].todo[i].bucket \in Buckets
              /\ Pending(job'[d].todo[i].bucket)
              /\ job'[d].todo[i].attempts = row[job'[d].todo[i].bucket].attempts
              /\ \A j \in DOMAIN job'[d].todo :
                   job'[d].todo[j].bucket = job'[d].todo[i].bucket => j = i
         /\ \A e \in Dispatchers \ {d} : job'[e] = job[e]
<1>1. PICK answer \in Answers :
        /\ answer # <<>>
        /\ job' = [job EXCEPT ![d].at = "next",
                     ![d].todo = [i \in DOMAIN answer |->
                        [bucket |-> answer[i], attempts |-> row[answer[i]].attempts]]]
  BY DEF GetPendingWebhooks
<1>2. job \in [Dispatchers -> Jobs] /\ job[d] \in Jobs /\ job[d].at = "idle"
  BY DEF GetPendingWebhooks, QueueTypeOK, InCycle
<1> DEFINE t == [i \in DOMAIN answer |->
                   [bucket |-> answer[i], attempts |-> row[answer[i]].attempts]]
<1>3. /\ answer \in Seq(Buckets)
      /\ Len(answer) <= WebhookBatchSize
      /\ \A i \in DOMAIN answer : Pending(answer[i])
      /\ \A i, j \in DOMAIN answer : answer[i] = answer[j] => i = j
  BY AnswersAreDue
<1>4. /\ Len(answer) \in Nat /\ DOMAIN answer = 1..Len(answer)
      /\ \A i \in DOMAIN answer : answer[i] \in Buckets
  BY <1>3
<1>5. \A i \in DOMAIN answer : row[answer[i]].attempts \in Nat
  BY <1>4 DEF QueueTypeOK
<1>6. /\ DOMAIN t = 1..Len(answer)
      /\ \A i \in DOMAIN t : /\ t[i] \in Items
                             /\ t[i].bucket = answer[i]
                             /\ t[i].attempts = row[answer[i]].attempts
  BY <1>4, <1>5 DEF Items
<1>7. t \in Seq(Items) /\ Len(t) = Len(answer) /\ t # <<>>
  BY <1>1, <1>3, <1>4, <1>6
<1>8. job'[d] = [job[d] EXCEPT !.at = "next", !.todo = t]
  BY <1>1, <1>2
<1> HIDE DEF t
<1>9. job'[d].at = "next" /\ job'[d].todo = t /\ job'[d] \in Jobs
  BY <1>2, <1>7, <1>8 DEF Jobs
<1>10. job' \in [Dispatchers -> Jobs]
  BY <1>1, <1>2, <1>8, <1>9
<1>11. \A e \in Dispatchers \ {d} : job'[e] = job[e]
  BY <1>1, <1>2
<1> QED BY <1>2, <1>3, <1>4, <1>6, <1>7, <1>9, <1>10, <1>11

-----------------------------------------------------------------------------
(* The verdicts and what they rest on *)

QueueInv == QueueTypeOK /\ SettledInv

LEMMA QueueInvInit == QueueInit => QueueInv
<1> SUFFICES ASSUME QueueInit PROVE QueueInv
  OBVIOUS
<1>1. Idle \in Jobs /\ Idle.at = "idle" /\ Idle.todo = <<>>
  BY DEF Idle, Jobs
<1>2. Len(<<>>) = 0 /\ DOMAIN <<>> = {}
  OBVIOUS
<1>3. QueueTypeOK
  BY <1>1, <1>2, QueueAssumption DEF QueueInit, QueueTypeOK, Rows, Statuses
<1>4. CountedOnce /\ TodoIsQueued /\ CopiesFollow /\ VerdictIsRight
  BY <1>1, <1>2 DEF QueueInit, CountedOnce, TodoIsQueued, CopiesFollow, VerdictIsRight,
                    Todo, Rows
<1>5. SentIsCurrent /\ FailedIsExhausted
  BY DEF QueueInit, SentIsCurrent, FailedIsExhausted
<1> QED BY <1>3, <1>4, <1>5 DEF QueueInv, SettledInv

LEMMA TimeKeeps ==
  ASSUME QueueInv, NEW b \in Buckets, StoreEvent(b) \/ LeaveWindow(b) \/ RetryDue(b)
  PROVE  QueueInv'
<1> USE DEF QueueInv, SettledInv
<1>1. /\ \A c \in Buckets : /\ row'[c].status = row[c].status
                            /\ row'[c].attempts = row[c].attempts
      /\ row' \in [Buckets -> [status : Statuses, attempts : Nat, due : BOOLEAN]]
      /\ UNCHANGED <<stats, created, job, received, boundVars, queueHistory>>
  <2>1. CASE StoreEvent(b) \/ LeaveWindow(b)
    BY <2>1 DEF QueueTypeOK, StoreEvent, LeaveWindow
  <2>2. CASE RetryDue(b)
    <3>1. row[b] \in [status : Statuses, attempts : Nat, due : BOOLEAN]
      BY DEF QueueTypeOK
    <3>2. row' = [row EXCEPT ![b] = [row[b] EXCEPT !.due = TRUE]]
      BY <2>2 DEF RetryDue, QueueTypeOK
    <3>3. /\ [row[b] EXCEPT !.due = TRUE]
               \in [status : Statuses, attempts : Nat, due : BOOLEAN]
          /\ [row[b] EXCEPT !.due = TRUE].status = row[b].status
          /\ [row[b] EXCEPT !.due = TRUE].attempts = row[b].attempts
      BY <3>1
    <3> HIDE DEF QueueInv, SettledInv
    <3>4. /\ \A c \in Buckets : /\ row'[c].status = row[c].status
                                /\ row'[c].attempts = row[c].attempts
          /\ row' \in [Buckets -> [status : Statuses, attempts : Nat, due : BOOLEAN]]
      BY <3>2, <3>3 DEF QueueInv, QueueTypeOK
    <3> QED BY <2>2, <3>4 DEF RetryDue, statsVars
  <2> QED BY <2>1, <2>2
<1>2. /\ events' \in [Buckets -> Nat] /\ recent' \in SUBSET Buckets
      /\ \A c \in Buckets : events'[c] >= events[c] /\ (c \in recent' => events'[c] > 0)
  <2>1. CASE StoreEvent(b)
    BY <2>1 DEF QueueTypeOK, CountedOnce, StoreEvent
  <2>2. CASE LeaveWindow(b)
    BY <2>2 DEF QueueTypeOK, CountedOnce, LeaveWindow
  <2>3. CASE RetryDue(b)
    BY <2>3 DEF QueueTypeOK, CountedOnce, RetryDue, statsVars
  <2> QED BY <2>1, <2>2, <2>3
<1>3. Rows' = Rows
  BY <1>1 DEF Rows
<1>4. QueueTypeOK'
  BY <1>1, <1>2, <1>3 DEF QueueTypeOK, boundVars, queueHistory
<1>5. CountedOnce' /\ SentIsCurrent' /\ FailedIsExhausted'
  BY <1>1, <1>2, <1>3
     DEF CountedOnce, SentIsCurrent, FailedIsExhausted, queueHistory
<1>6. ASSUME NEW d \in Dispatchers, NEW i \in DOMAIN Todo(d)
      PROVE  Todo(d)[i].bucket \in Buckets
  BY <1>6, TodoIsItems
<1>7. TodoIsQueued' /\ CopiesFollow'
  BY <1>1, <1>3, <1>6 DEF TodoIsQueued, CopiesFollow, Todo, queueHistory
<1>8. VerdictIsRight'
  <2>1. ASSUME NEW d \in Dispatchers, job[d].at # "idle"
        PROVE  Item(d).bucket \in Buckets
    BY <2>1, InTheCycle
  <2> QED BY <1>1, <2>1 DEF VerdictIsRight, Item, Exhausted, queueHistory
<1> QED BY <1>4, <1>5, <1>7, <1>8


\* What a recalculation does to the rows.
LEMMA RequeueEffect ==
  ASSUME QueueTypeOK, RecalculateDirtyBuckets
  PROVE  /\ row' \in [Buckets -> [status : Statuses, attempts : Nat, due : BOOLEAN]]
         /\ \A b \in recent : row'[b].status = "PENDING" /\ row'[b].attempts = 0
         /\ \A b \in Buckets \ recent : row'[b] = row[b]
         /\ Rows' = Rows \cup recent
         /\ created' \in [Buckets -> Nat]
         /\ \A b \in Buckets : b \in Rows' <=> created'[b] # 0
<1>1. /\ recent \subseteq Buckets
      /\ \A b \in Buckets : row[b] \in [status : Statuses, attempts : Nat, due : BOOLEAN]
  BY DEF QueueTypeOK
<1>2. row' = [b \in Buckets |->
               IF b \in recent
               THEN [row[b] EXCEPT !.status = "PENDING", !.attempts = 0] ELSE row[b]]
  BY DEF RecalculateDirtyBuckets, Requeue
<1>3. ASSUME NEW b \in Buckets
      PROVE  LET r == [row[b] EXCEPT !.status = "PENDING", !.attempts = 0]
             IN /\ r \in [status : Statuses, attempts : Nat, due : BOOLEAN]
                /\ r.status = "PENDING" /\ r.attempts = 0
  BY <1>1, <1>3 DEF Statuses
<1>4. /\ row' \in [Buckets -> [status : Statuses, attempts : Nat, due : BOOLEAN]]
      /\ \A b \in recent : row'[b].status = "PENDING" /\ row'[b].attempts = 0
      /\ \A b \in Buckets \ recent : row'[b] = row[b]
  BY <1>1, <1>2, <1>3
<1>5. Rows' = Rows \cup recent
  BY <1>1, <1>4 DEF Rows
<1>6. Cardinality({created[c] : c \in Rows}) \in Nat
  <2>1. IsFiniteSet(Rows)
    BY QueueAssumption, FS_Subset DEF Rows
  <2>2. IsFiniteSet({created[c] : c \in Rows})
    <3> DEFINE f == [c \in Rows |-> created[c]]
    <3>1. f \in Surjection(Rows, {created[c] : c \in Rows})
      BY DEF Surjection
    <3> QED BY <2>1, <3>1, FS_Surjection
  <2> QED BY <2>2, FS_CardinalityType
<1>7. created' = [b \in Buckets |->
                   IF b \in recent \ Rows
                   THEN Cardinality({created[c] : c \in Rows}) + 1 ELSE created[b]]
  BY DEF RecalculateDirtyBuckets, Requeue
<1>8. created' \in [Buckets -> Nat] /\ \A b \in Buckets : b \in Rows' <=> created'[b] # 0
  <2> HIDE DEF Rows
  <2>1. created \in [Buckets -> Nat] /\ \A b \in Buckets : b \in Rows <=> created[b] # 0
    BY DEF QueueTypeOK
  <2> QED BY <1>1, <1>5, <1>6, <1>7, <2>1
<1> QED BY <1>4, <1>5, <1>8

LEMMA RecalculateKeeps ==
  ASSUME QueueInv, RecalculateDirtyBuckets
  PROVE  QueueInv'
<1> USE DEF QueueInv, SettledInv
<1>1. /\ row' \in [Buckets -> [status : Statuses, attempts : Nat, due : BOOLEAN]]
      /\ \A b \in recent : row'[b].status = "PENDING" /\ row'[b].attempts = 0
      /\ \A b \in Buckets \ recent : row'[b] = row[b]
      /\ Rows' = Rows \cup recent
      /\ created' \in [Buckets -> Nat]
      /\ \A b \in Buckets : b \in Rows' <=> created'[b] # 0
  BY RequeueEffect
<1>2. /\ recent \subseteq Buckets
      /\ stats' = [b \in Buckets |-> IF b \in recent THEN events[b] ELSE stats[b]]
      /\ requeued' = [d \in Dispatchers |->
                        IF job[d].at = "idle" THEN {} ELSE requeued[d] \cup recent]
      /\ raced' = raced \ recent
      /\ UNCHANGED <<events, recent, job, received, boundVars>>
  BY DEF RecalculateDirtyBuckets, Requeue, QueueTypeOK
<1>3. /\ stats' \in [Buckets -> Nat]
      /\ \A b \in Buckets : /\ stats[b] <= stats'[b] /\ stats'[b] <= events[b]
                            /\ b \notin recent => stats'[b] = stats[b]
                            /\ b \in recent => stats'[b] > 0
  BY <1>2 DEF QueueTypeOK, CountedOnce
<1>4. requeued' \in [Dispatchers -> SUBSET Buckets]
  BY <1>2 DEF QueueTypeOK
<1>5. QueueTypeOK'
  BY <1>1, <1>2, <1>3, <1>4 DEF QueueTypeOK, boundVars
<1>6. CountedOnce' /\ SentIsCurrent' /\ FailedIsExhausted'
  BY <1>1, <1>2, <1>3 DEF CountedOnce, SentIsCurrent, FailedIsExhausted
<1>7. ASSUME NEW d \in Dispatchers, job[d].at # "idle"
      PROVE  requeued'[d] = requeued[d] \cup recent
  BY <1>2, <1>7
<1>8. TodoIsQueued'
  BY <1>1, <1>2 DEF TodoIsQueued, Todo
<1>9. CopiesFollow'
  <2> SUFFICES ASSUME NEW d \in Dispatchers, NEW i \in DOMAIN Todo(d),
                      i = 1 => job[d].at = "next",
                      Todo(d)[i].bucket \notin requeued'[d]
               PROVE  Todo(d)[i].attempts <= row'[Todo(d)[i].bucket].attempts
    BY <1>2 DEF CopiesFollow, Todo
  <2>1. job[d].at # "idle"
    BY DEF QueueTypeOK, Todo
  <2>2. Todo(d)[i].bucket \in Buckets \ recent /\ Todo(d)[i].bucket \notin requeued[d]
    BY <1>7, <2>1, TodoIsItems
  <2> QED BY <1>1, <2>2 DEF CopiesFollow
<1>10. VerdictIsRight'
  <2> SUFFICES ASSUME NEW d \in Dispatchers, job[d].at \in {"send", "write"}
               PROVE  LET b == Item(d).bucket
                          fresh == b \notin requeued'[d]
                      IN
                      /\ job[d].at = "send" =>
                           /\ job[d].payload \in 1..stats'[b]
                           /\ fresh => job[d].payload = stats'[b]
                           /\ ~Exhausted(Item(d))
                      /\ job[d].at = "write" =>
                           \/ job[d].verdict = "SENT" /\ (fresh => received[b] = stats'[b])
                           \/ /\ job[d].verdict = "FAILED"
                              /\ fresh => row'[b].attempts >= MaxWebhookAttempts
                           \/ job[d].verdict = "RETRYING" /\ ~Exhausted(Item(d))
    BY <1>2 DEF VerdictIsRight, Item, Exhausted
  <2>1. /\ Item(d).bucket \in Buckets
        /\ requeued'[d] = requeued[d] \cup recent
    BY <1>7, InTheCycle
  <2>2. 1..stats[Item(d).bucket] \subseteq 1..stats'[Item(d).bucket]
    BY <1>3, <2>1 DEF QueueTypeOK
  <2> QED BY <1>1, <1>3, <2>1, <2>2 DEF VerdictIsRight
<1> QED BY <1>5, <1>6, <1>8, <1>9, <1>10

LEMMA FetchKeeps ==
  ASSUME QueueInv, NEW d \in Dispatchers, GetPendingWebhooks(d)
  PROVE  QueueInv'
<1> USE DEF QueueInv, SettledInv
<1>1. /\ job[d].at = "idle"
      /\ job' \in [Dispatchers -> Jobs]
      /\ job'[d].at = "next" /\ job'[d].todo # <<>>
      /\ Len(job'[d].todo) <= WebhookBatchSize
      /\ \A i \in DOMAIN job'[d].todo :
           /\ job'[d].todo[i].bucket \in Buckets
           /\ Pending(job'[d].todo[i].bucket)
           /\ job'[d].todo[i].attempts = row[job'[d].todo[i].bucket].attempts
           /\ \A j \in DOMAIN job'[d].todo :
                job'[d].todo[j].bucket = job'[d].todo[i].bucket => j = i
      /\ \A e \in Dispatchers \ {d} : job'[e] = job[e]
  BY FetchEffect
<1>2. /\ UNCHANGED <<events, recent, stats, row, created, received, crashes, requeued, raced>>
      /\ lost' \in 0..MaxLost
  BY QueueAssumption DEF GetPendingWebhooks, statsVars, queueHistory, QueueTypeOK
<1>3. Rows' = Rows
  BY <1>2 DEF Rows
<1>4. QueueTypeOK'
  BY <1>1, <1>2, <1>3 DEF QueueTypeOK
<1>5. CountedOnce' /\ SentIsCurrent' /\ FailedIsExhausted'
  BY <1>2, <1>3 DEF CountedOnce, SentIsCurrent, FailedIsExhausted
<1>6. TodoIsQueued'
  <2>1. \A i \in DOMAIN job'[d].todo : job'[d].todo[i].bucket \in Rows
    BY <1>1 DEF Pending, Rows
  <2> QED BY <1>1, <1>3, <2>1 DEF TodoIsQueued, Todo
<1>7. CopiesFollow'
  <2>1. ASSUME NEW i \in DOMAIN job'[d].todo
        PROVE  job'[d].todo[i].attempts <= row[job'[d].todo[i].bucket].attempts
    <3>1. /\ job'[d].todo[i].attempts = row[job'[d].todo[i].bucket].attempts
          /\ job'[d].todo[i].bucket \in Buckets
      BY <1>1, <2>1
    <3>2. row[job'[d].todo[i].bucket].attempts \in Nat
      BY <3>1 DEF QueueTypeOK
    <3> QED BY <3>1, <3>2
  <2> QED BY <1>1, <1>2, <2>1 DEF CopiesFollow, Todo
<1>8. VerdictIsRight'
  BY <1>1, <1>2 DEF VerdictIsRight, Item, Exhausted
<1> QED BY <1>4, <1>5, <1>6, <1>7, <1>8


\* Up to its verdict a dispatcher changes no row.
LEMMA VerdictKeeps ==
  ASSUME QueueInv, NEW d \in Dispatchers,
         NEW v \in {"SENT", "FAILED", "RETRYING"}, Decide(d, v),
         job[d].at \in {"next", "send"},
         UNCHANGED <<statsVars, row, created, boundVars, queueHistory>>,
         received' \in [Buckets -> Nat],
         \A b \in Buckets : received[b] <= received'[b] /\ received'[b] <= stats[b],
         v = "SENT" => Item(d).bucket \in requeued[d]
                       \/ received'[Item(d).bucket] = stats[Item(d).bucket],
         v = "FAILED" => Item(d).bucket \in requeued[d]
                         \/ row[Item(d).bucket].attempts >= MaxWebhookAttempts,
         v = "RETRYING" => ~Exhausted(Item(d))
  PROVE  QueueInv'
<1> USE DEF QueueInv, SettledInv
<1>1. /\ job' \in [Dispatchers -> Jobs]
      /\ job'[d].at = "write" /\ job'[d].verdict = v /\ job'[d].todo = job[d].todo
      /\ \A e \in Dispatchers \ {d} : job'[e] = job[e]
  BY DecideEffect
<1>2. UNCHANGED <<events, recent, stats, row, created, lost, crashes, requeued, raced>>
  BY DEF statsVars, boundVars, queueHistory
<1>3. Rows' = Rows
  BY <1>2 DEF Rows
<1>4. QueueTypeOK'
  BY <1>1, <1>2, <1>3 DEF QueueTypeOK
<1>5. CountedOnce' /\ FailedIsExhausted'
  BY <1>2, <1>3 DEF CountedOnce, FailedIsExhausted
<1>6. SentIsCurrent'
  <2>1. \A b \in Buckets : received[b] = stats[b] => received'[b] = stats[b]
    BY DEF QueueTypeOK
  <2> QED BY <1>2, <2>1 DEF SentIsCurrent
<1>7. TodoIsQueued' /\ CopiesFollow'
  BY <1>1, <1>2, <1>3 DEF TodoIsQueued, CopiesFollow, Todo
<1>8. VerdictIsRight'
  <2>1. ASSUME NEW e \in Dispatchers \ {d}, job[e].at # "idle"
        PROVE  received[Item(e).bucket] = stats[Item(e).bucket]
                 => received'[Item(e).bucket] = stats[Item(e).bucket]
    BY <2>1, InTheCycle DEF QueueTypeOK
  <2> QED BY <1>1, <1>2, <2>1 DEF VerdictIsRight, Item, Exhausted
<1> QED BY <1>4, <1>5, <1>6, <1>7, <1>8

\* What Deliver does, for a dispatcher that has statistics.
LEMMA DeliverEffect ==
  ASSUME QueueInv, NEW d \in Dispatchers, job[d].at = "send", Deliver(d)
  PROVE  /\ received' \in [Buckets -> Nat]
         /\ \A b \in Buckets : received[b] <= received'[b] /\ received'[b] <= stats[b]
         /\ Item(d).bucket \in requeued[d]
            \/ received'[Item(d).bucket] = stats[Item(d).bucket]
<1> USE DEF QueueInv, SettledInv
<1>1. /\ Item(d).bucket \in Buckets
      /\ job[d].payload \in 1..stats[Item(d).bucket]
      /\ Item(d).bucket \in requeued[d] \/ job[d].payload = stats[Item(d).bucket]
  BY InTheCycle DEF VerdictIsRight
<1>2. /\ received \in [Buckets -> Nat] /\ stats \in [Buckets -> Nat]
      /\ \A b \in Buckets : received[b] <= stats[b]
  BY DEF QueueTypeOK
<1>3. received' = [received EXCEPT ![Item(d).bucket] =
                     IF job[d].payload > received[Item(d).bucket]
                     THEN job[d].payload ELSE received[Item(d).bucket]]
  BY <1>1, <1>2 DEF Deliver
<1> HIDE DEF QueueInv, SettledInv
<1> QED BY <1>1, <1>2, <1>3

LEMMA SendingKeeps ==
  ASSUME QueueInv, NEW d \in Dispatchers,
         \/ GiveUp(d) \/ GetHourlyStats(d) \/ GetHourlyStatsFails(d)
         \/ SendSucceeds(d) \/ SendFails(d)
  PROVE  QueueInv'
<1> USE DEF QueueInv, SettledInv
<1>1. \A b \in Buckets : received[b] <= received[b] /\ received[b] <= stats[b]
  BY DEF QueueTypeOK
<1>2. received \in [Buckets -> Nat]
  BY DEF QueueTypeOK
<1>3. ASSUME job[d].at = "next"
      PROVE  /\ Item(d).bucket \in Buckets /\ Item(d).bucket \in Rows
             /\ stats[Item(d).bucket] \in Nat \ {0}
             /\ Item(d).bucket \in requeued[d]
                \/ Item(d).attempts <= row[Item(d).bucket].attempts
  <2>1. /\ 1 \in DOMAIN Todo(d) /\ Item(d) = Todo(d)[1]
        /\ Item(d).bucket \in Buckets
    BY <1>3, InTheCycle
  <2>2. Item(d).bucket \in Rows
    BY <2>1 DEF TodoIsQueued
  <2>3. stats[Item(d).bucket] \in Nat \ {0}
    BY <2>1, <2>2 DEF CountedOnce, QueueTypeOK
  <2> QED BY <1>3, <2>1, <2>2, <2>3 DEF CopiesFollow
<1>4. CASE GiveUp(d)
  <2>1. /\ job[d].at = "next" /\ Exhausted(Item(d)) /\ Decide(d, "FAILED")
        /\ UNCHANGED <<statsVars, row, created, boundVars, queueHistory>>
        /\ received' = received
    BY <1>4 DEF GiveUp
  <2>2. Item(d).bucket \in requeued[d]
        \/ row[Item(d).bucket].attempts >= MaxWebhookAttempts
    <3>1. /\ row[Item(d).bucket].attempts \in Nat /\ Item(d).attempts \in Nat
          /\ MaxWebhookAttempts \in Nat
      BY <1>3, <2>1, InTheCycle, QueueAssumption DEF QueueTypeOK
    <3> QED BY <1>3, <2>1, <3>1 DEF Exhausted
  <2> QED BY <1>1, <1>2, <2>1, <2>2, VerdictKeeps
<1>5. CASE GetHourlyStats(d)
  <2>1. /\ job[d].at = "next" /\ ~Exhausted(Item(d))
        /\ stats[Item(d).bucket] # 0 /\ Item(d).bucket \in Buckets
        /\ stats[Item(d).bucket] \in Nat
    BY <1>3, <1>5 DEF GetHourlyStats
  <2>2. /\ job' = [job EXCEPT ![d].at = "send", ![d].payload = stats[Item(d).bucket]]
        /\ requeued' = [requeued EXCEPT ![d] = @ \ {Item(d).bucket}]
        /\ UNCHANGED <<events, recent, stats, row, created, received, lost, crashes, raced>>
    BY <1>5, <2>1 DEF GetHourlyStats, statsVars, boundVars
  <2>3. job \in [Dispatchers -> Jobs] /\ job[d] \in Jobs
    BY DEF QueueTypeOK
  <2>4. /\ job'[d].at = "send" /\ job'[d].payload = stats[Item(d).bucket]
        /\ job'[d].todo = job[d].todo /\ job'[d] \in Jobs
        /\ \A e \in Dispatchers \ {d} : job'[e] = job[e]
        /\ job' \in [Dispatchers -> Jobs]
    <3>1. job'[d] = [job[d] EXCEPT !.at = "send", !.payload = stats[Item(d).bucket]]
      BY <2>2, <2>3
    <3>2. /\ job'[d].at = "send" /\ job'[d].payload = stats[Item(d).bucket]
          /\ job'[d].todo = job[d].todo /\ job'[d] \in Jobs
      BY <2>1, <2>3, <3>1 DEF Jobs
    <3>3. job' = [job EXCEPT ![d] = job'[d]]
      BY <2>2, <2>3, <3>1
    <3> QED BY <2>3, <3>2, <3>3
  <2>5. /\ requeued' \in [Dispatchers -> SUBSET Buckets]
        /\ \A e \in Dispatchers \ {d} : requeued'[e] = requeued[e]
        /\ requeued'[d] = requeued[d] \ {Item(d).bucket}
    BY <2>2 DEF QueueTypeOK
  <2>6. Rows' = Rows
    BY <2>2 DEF Rows
  <2>7. QueueTypeOK'
    BY <2>1, <2>2, <2>4, <2>5, <2>6 DEF QueueTypeOK
  <2>8. CountedOnce' /\ FailedIsExhausted' /\ SentIsCurrent' /\ TodoIsQueued'
    BY <2>2, <2>4, <2>6
       DEF CountedOnce, FailedIsExhausted, SentIsCurrent, TodoIsQueued, Todo
  <2>9. CopiesFollow'
    <3>1. /\ 1 \in DOMAIN Todo(d) /\ Item(d) = Todo(d)[1]
      BY <2>1, InTheCycle
    <3>2. \A i \in DOMAIN Todo(d) : Todo(d)[i].bucket = Item(d).bucket => i = 1
      BY <3>1 DEF TodoIsQueued
    <3> QED BY <2>2, <2>4, <2>5, <3>2 DEF CopiesFollow, Todo
  <2>10. VerdictIsRight'
    BY <2>1, <2>2, <2>4, <2>5 DEF VerdictIsRight, Item, Exhausted
  <2> QED BY <2>7, <2>8, <2>9, <2>10
<1>6. CASE GetHourlyStatsFails(d)
  BY <1>1, <1>2, <1>6, VerdictKeeps DEF GetHourlyStatsFails
<1>7. CASE SendSucceeds(d)
  BY <1>7, DeliverEffect, VerdictKeeps DEF SendSucceeds
<1>8. CASE SendFails(d)
  <2>1. job[d].at = "send" /\ ~Exhausted(Item(d))
    BY <1>8 DEF SendFails, VerdictIsRight
  <2>2. CASE Deliver(d)
    BY <1>8, <2>1, <2>2, DeliverEffect, VerdictKeeps DEF SendFails
  <2>3. CASE UNCHANGED received
    BY <1>1, <1>2, <1>8, <2>1, <2>3, VerdictKeeps DEF SendFails
  <2> QED BY <1>8, <2>2, <2>3 DEF SendFails
<1> QED BY <1>4, <1>5, <1>6, <1>7, <1>8


\* A dispatcher that leaves its row, or its cycle, has the rest to do; the attempts
\* of the row it leaves have not become fewer.
LEMMA LeavingKeeps ==
  ASSUME QueueInv, NEW d \in Dispatchers, job[d].at # "idle",
         UNCHANGED <<statsVars, created, received, lost>>,
         crashes' \in 0..MaxCrashes,
         job' \in [Dispatchers -> Jobs],
         job'[d].at \in {"idle", "next"},
         job'[d].todo = <<>> <=> job'[d].at = "idle",
         Len(job'[d].todo) <= Len(Todo(d)),
         \A i \in DOMAIN job'[d].todo :
           /\ i + 1 \in DOMAIN Todo(d) /\ i + 1 # 1
           /\ job'[d].todo[i] = Todo(d)[i + 1],
         \A e \in Dispatchers \ {d} : job'[e] = job[e] /\ requeued'[e] = requeued[e],
         requeued' \in [Dispatchers -> SUBSET Buckets],
         job'[d].todo # <<>> => requeued'[d] = requeued[d] \ {Item(d).bucket},
         row' \in [Buckets -> [status : Statuses, attempts : Nat, due : BOOLEAN]],
         Rows' = Rows,
         \A b \in Buckets : row'[b].attempts >= row[b].attempts,
         raced' \subseteq Buckets
  PROVE  QueueTypeOK' /\ CountedOnce' /\ TodoIsQueued' /\ CopiesFollow' /\ VerdictIsRight'
<1> USE DEF QueueInv, SettledInv
<1>1. UNCHANGED <<events, recent, stats, created, received, lost>>
  BY DEF statsVars
<1>2. /\ 1 \in DOMAIN Todo(d) /\ Item(d) = Todo(d)[1]
      /\ Todo(d) \in Seq(Items) /\ Len(Todo(d)) <= WebhookBatchSize
  BY InTheCycle DEF QueueTypeOK, Todo
<1>3. Len(job'[d].todo) <= WebhookBatchSize
  <2>1. job'[d].todo \in Seq(Items)
    BY DEF Jobs
  <2> QED BY <1>2, <2>1, QueueAssumption
<1>4. QueueTypeOK'
  BY <1>1, <1>3 DEF QueueTypeOK
<1>5. CountedOnce'
  BY <1>1 DEF CountedOnce
<1>6. ASSUME NEW i \in DOMAIN job'[d].todo
      PROVE  /\ i \in Int
             /\ i + 1 \in DOMAIN Todo(d) /\ job'[d].todo[i] = Todo(d)[i + 1]
             /\ Todo(d)[i + 1].bucket # Item(d).bucket
             /\ Todo(d)[i + 1].bucket \in Rows
             /\ requeued'[d] = requeued[d] \ {Item(d).bucket}
  <2>1. job'[d].todo \in Seq(Items) /\ job'[d].todo # <<>>
    BY <1>6 DEF Jobs
  <2>2. i \in Int
    BY <1>6, <2>1
  <2>3. Todo(d)[i + 1].bucket # Item(d).bucket /\ Todo(d)[i + 1].bucket \in Rows
    BY <1>2, <1>6 DEF TodoIsQueued
  <2> QED BY <1>6, <2>1, <2>2, <2>3
<1>7. TodoIsQueued'
  <2>1. ASSUME NEW i \in DOMAIN job'[d].todo, NEW j \in DOMAIN job'[d].todo,
               job'[d].todo[j].bucket = job'[d].todo[i].bucket
        PROVE  j = i
    <3>1. i \in Int /\ j \in Int /\ i + 1 \in DOMAIN Todo(d) /\ j + 1 \in DOMAIN Todo(d)
          /\ Todo(d)[j + 1].bucket = Todo(d)[i + 1].bucket
      BY <1>6, <2>1
    <3>2. j + 1 = i + 1
      BY <3>1 DEF TodoIsQueued
    <3> QED BY <3>1, <3>2
  <2>2. \A i \in DOMAIN job'[d].todo :
          /\ job'[d].todo[i].bucket \in Rows
          /\ \A j \in DOMAIN job'[d].todo :
               job'[d].todo[j].bucket = job'[d].todo[i].bucket => j = i
    BY <1>6, <2>1
  <2> QED BY <2>2 DEF TodoIsQueued, Todo
<1>8. CopiesFollow'
  <2> SUFFICES ASSUME NEW e \in Dispatchers, NEW i \in DOMAIN job'[e].todo,
                      i = 1 => job'[e].at = "next",
                      job'[e].todo[i].bucket \notin requeued'[e]
               PROVE  job'[e].todo[i].attempts <= row'[job'[e].todo[i].bucket].attempts
    BY DEF CopiesFollow, Todo
  <2>1. PICK j \in DOMAIN Todo(e) : /\ job'[e].todo[i] = Todo(e)[j]
                                    /\ j = 1 => job[e].at = "next"
                                    /\ Todo(e)[j].bucket \notin requeued[e]
    <3>1. CASE e = d
      BY <1>6, <3>1
    <3>2. CASE e # d
      BY <3>2 DEF Todo
    <3> QED BY <3>1, <3>2
  <2>2. Todo(e)[j].attempts <= row[Todo(e)[j].bucket].attempts
    BY <2>1 DEF CopiesFollow
  <2>3. Todo(e)[j].bucket \in Buckets /\ Todo(e)[j].attempts \in Nat
    BY <2>1, TodoIsItems
  <2>4. /\ row'[Todo(e)[j].bucket].attempts >= row[Todo(e)[j].bucket].attempts
        /\ row'[Todo(e)[j].bucket].attempts \in Nat
        /\ row[Todo(e)[j].bucket].attempts \in Nat
    BY <2>3 DEF QueueTypeOK
  <2> QED BY <2>1, <2>2, <2>3, <2>4
<1>9. VerdictIsRight'
  <2>1. ASSUME NEW e \in Dispatchers \ {d}, job[e].at # "idle"
        PROVE  /\ row'[Item(e).bucket].attempts >= row[Item(e).bucket].attempts
               /\ row'[Item(e).bucket].attempts \in Nat
               /\ row[Item(e).bucket].attempts \in Nat
    BY <2>1, InTheCycle DEF QueueTypeOK
  <2>2. MaxWebhookAttempts \in Nat
    BY QueueAssumption
  <2> QED BY <1>1, <2>1, <2>2 DEF VerdictIsRight, Item, Exhausted
<1> QED BY <1>4, <1>5, <1>7, <1>8, <1>9

\* An update sets the status to the verdict and counts an attempt for a retry.
LEMMA UpdateEffect ==
  ASSUME QueueInv, NEW d \in Dispatchers, UpdateWebhookStatus(d)
  PROVE  LET b == Item(d).bucket IN
         /\ b \in Buckets
         /\ job[d].verdict \in {"SENT", "FAILED", "RETRYING"}
         /\ row' \in [Buckets -> [status : Statuses, attempts : Nat, due : BOOLEAN]]
         /\ \A c \in Buckets \ {b} : row'[c] = row[c]
         /\ row'[b].status = job[d].verdict
         /\ row'[b].attempts = IF job[d].verdict = "RETRYING" THEN row[b].attempts + 1
                               ELSE row[b].attempts
         /\ Rows' = Rows
<1> DEFINE b == Item(d).bucket
           old == row[b]
           r == Updated(old, job[d].verdict)
<1>1. /\ job[d].at = "write"
      /\ row' = [row EXCEPT ![b] = r]
      /\ row \in [Buckets -> [status : Statuses, attempts : Nat, due : BOOLEAN]]
  BY DEF UpdateWebhookStatus, QueueInv, QueueTypeOK
<1>2. b \in Buckets /\ b \in Rows
  BY <1>1, InTheCycle DEF QueueInv, SettledInv, TodoIsQueued
<1>3. job[d].verdict \in {"SENT", "FAILED", "RETRYING"}
  BY <1>1 DEF QueueInv, SettledInv, VerdictIsRight
<1>4. old \in [status : Statuses, attempts : Nat, due : BOOLEAN]
  BY <1>1, <1>2
<1> HIDE DEF b, old
<1>5. /\ r \in [status : Statuses, attempts : Nat, due : BOOLEAN]
      /\ r.status = job[d].verdict
      /\ r.attempts = IF job[d].verdict = "RETRYING" THEN old.attempts + 1
                      ELSE old.attempts
  <2>1. CASE job[d].verdict = "SENT"
    BY <1>4, <2>1 DEF Updated, Statuses
  <2>2. CASE job[d].verdict = "FAILED"
    BY <1>4, <2>2 DEF Updated, Statuses
  <2>3. CASE job[d].verdict = "RETRYING"
    BY <1>4, <2>3 DEF Updated, Statuses
  <2> QED BY <1>3, <2>1, <2>2, <2>3
<1> HIDE DEF r
<1>6. /\ row' \in [Buckets -> [status : Statuses, attempts : Nat, due : BOOLEAN]]
      /\ row'[b] = r
      /\ \A c \in Buckets \ {b} : row'[c] = row[c]
  BY <1>1, <1>2, <1>5
<1>7. Rows' = Rows
  <2>1. row'[b].status # "none"
    BY <1>3, <1>5, <1>6
  <2> QED BY <1>2, <1>6, <2>1 DEF Rows
<1> QED BY <1>2, <1>3, <1>5, <1>6, <1>7 DEF b, old

LEMMA UpdateKeeps ==
  ASSUME QueueInv, NEW d \in Dispatchers, UpdateWebhookStatus(d)
  PROVE  QueueInv'
<1> DEFINE b == Item(d).bucket
<1>1. /\ job[d].at = "write" /\ GoOn(d)
      /\ UNCHANGED <<statsVars, created, received, lost, crashes>>
      /\ raced' = IF b \in requeued[d] /\ job[d].verdict # "RETRYING"
                  THEN raced \cup {b} ELSE raced \ {b}
      /\ requeued' = [requeued EXCEPT
           ![d] = IF Len(job[d].todo) = 1 THEN {} ELSE requeued[d] \ {b}]
  BY DEF UpdateWebhookStatus, boundVars, QueueInv, QueueTypeOK
<1>2. /\ b \in Buckets
      /\ job[d].verdict \in {"SENT", "FAILED", "RETRYING"}
      /\ row' \in [Buckets -> [status : Statuses, attempts : Nat, due : BOOLEAN]]
      /\ \A c \in Buckets \ {b} : row'[c] = row[c]
      /\ row'[b].status = job[d].verdict
      /\ row'[b].attempts = IF job[d].verdict = "RETRYING" THEN row[b].attempts + 1
                            ELSE row[b].attempts
      /\ Rows' = Rows
  BY UpdateEffect
<1>3. /\ job' \in [Dispatchers -> Jobs]
      /\ job'[d].at \in {"idle", "next"}
      /\ job'[d].todo = <<>> <=> job'[d].at = "idle"
      /\ job'[d].todo \in Seq(Items)
      /\ Len(job'[d].todo) = Len(Todo(d)) - 1
      /\ \A i \in DOMAIN job'[d].todo :
           i + 1 \in DOMAIN Todo(d) /\ i + 1 # 1 /\ job'[d].todo[i] = Todo(d)[i + 1]
      /\ \A e \in Dispatchers \ {d} : job'[e] = job[e]
  BY <1>1, GoOnEffect DEF QueueInv
<1>4. Len(job'[d].todo) <= Len(Todo(d)) /\ (Len(job[d].todo) = 1 => job'[d].todo = <<>>)
  <2>1. Todo(d) \in Seq(Items)
    BY TodoIsItems DEF QueueInv
  <2> QED BY <1>3, <2>1 DEF Todo
<1>5. /\ requeued \in [Dispatchers -> SUBSET Buckets] /\ raced \subseteq Buckets
      /\ \A c \in Buckets : row[c].attempts \in Nat
      /\ crashes \in 0..MaxCrashes
  BY DEF QueueInv, QueueTypeOK
<1>6. /\ requeued' \in [Dispatchers -> SUBSET Buckets]
      /\ \A e \in Dispatchers \ {d} : requeued'[e] = requeued[e]
      /\ job'[d].todo # <<>> => requeued'[d] = requeued[d] \ {b}
  BY <1>1, <1>4, <1>5
<1>7. \A c \in Buckets : row'[c].attempts >= row[c].attempts
  BY <1>2, <1>5
<1>8. raced' \subseteq Buckets
  BY <1>1, <1>2, <1>5
<1>9. QueueTypeOK' /\ CountedOnce' /\ TodoIsQueued' /\ CopiesFollow' /\ VerdictIsRight'
  BY <1>1, <1>2, <1>3, <1>4, <1>5, <1>6, <1>7, <1>8, LeavingKeeps
<1>10. SentIsCurrent' /\ FailedIsExhausted'
  <2>1. UNCHANGED <<stats, received>>
    BY <1>1 DEF statsVars
  <2>2. job[d].verdict = "SENT" /\ b \notin requeued[d] => received[b] = stats[b]
    BY <1>1 DEF QueueInv, SettledInv, VerdictIsRight
  <2>3. job[d].verdict = "FAILED" /\ b \notin requeued[d]
          => row[b].attempts >= MaxWebhookAttempts
    BY <1>1 DEF QueueInv, SettledInv, VerdictIsRight
  <2> HIDE DEF b
  <2> QED BY <1>1, <1>2, <2>1, <2>2, <2>3
          DEF QueueInv, SettledInv, SentIsCurrent, FailedIsExhausted
<1> QED BY <1>9, <1>10 DEF QueueInv, SettledInv

LEMMA GivingWayKeeps ==
  ASSUME QueueInv, NEW d \in Dispatchers, UpdateFails(d) \/ DispatcherCrash(d)
  PROVE  QueueInv'
<1> DEFINE b == Item(d).bucket
<1>1. /\ UNCHANGED <<statsVars, row, created, received, lost, raced>>
      /\ job[d].at # "idle"
  BY DEF UpdateFails, DispatcherCrash, InCycle, boundVars
<1>2. /\ requeued \in [Dispatchers -> SUBSET Buckets] /\ raced \subseteq Buckets
      /\ job \in [Dispatchers -> Jobs] /\ crashes \in 0..MaxCrashes
      /\ row \in [Buckets -> [status : Statuses, attempts : Nat, due : BOOLEAN]]
      /\ Todo(d) \in Seq(Items)
  BY TodoIsItems DEF QueueInv, QueueTypeOK
<1>3. Rows' = Rows
  BY <1>1 DEF Rows
<1>4. \A c \in Buckets : row'[c].attempts >= row[c].attempts
  BY <1>1, <1>2
<1>5. QueueTypeOK' /\ CountedOnce' /\ TodoIsQueued' /\ CopiesFollow' /\ VerdictIsRight'
  <2>1. CASE UpdateFails(d)
    <3>1. /\ job[d].at = "write" /\ GoOn(d) /\ crashes' = crashes
          /\ requeued' = [requeued EXCEPT
               ![d] = IF Len(job[d].todo) = 1 THEN {} ELSE requeued[d] \ {b}]
      BY <2>1, <1>2 DEF UpdateFails, boundVars
    <3>2. /\ job' \in [Dispatchers -> Jobs]
          /\ job'[d].at \in {"idle", "next"}
          /\ job'[d].todo = <<>> <=> job'[d].at = "idle"
          /\ job'[d].todo \in Seq(Items)
          /\ Len(job'[d].todo) = Len(Todo(d)) - 1
          /\ \A i \in DOMAIN job'[d].todo :
               i + 1 \in DOMAIN Todo(d) /\ i + 1 # 1 /\ job'[d].todo[i] = Todo(d)[i + 1]
          /\ \A e \in Dispatchers \ {d} : job'[e] = job[e]
      BY <3>1, GoOnEffect DEF QueueInv
    <3>3. Len(job'[d].todo) <= Len(Todo(d)) /\ (Len(job[d].todo) = 1 => job'[d].todo = <<>>)
      BY <1>2, <3>2 DEF Todo
    <3>4. /\ requeued' \in [Dispatchers -> SUBSET Buckets]
          /\ \A e \in Dispatchers \ {d} : requeued'[e] = requeued[e]
          /\ job'[d].todo # <<>> => requeued'[d] = requeued[d] \ {b}
      BY <1>2, <3>1, <3>3
    <3> QED BY <1>1, <1>2, <1>3, <1>4, <3>1, <3>2, <3>3, <3>4, LeavingKeeps
  <2>2. CASE DispatcherCrash(d)
    <3>1. /\ job' = [job EXCEPT ![d] = Idle]
          /\ requeued' = [requeued EXCEPT ![d] = {}]
          /\ crashes' \in 0..MaxCrashes
      BY <1>2, <2>2, QueueAssumption DEF DispatcherCrash
    <3>2. Idle \in Jobs /\ Idle.at = "idle" /\ Idle.todo = <<>>
      BY DEF Idle, Jobs
    <3>3. Len(<<>>) = 0 /\ DOMAIN <<>> = {}
      OBVIOUS
    <3>4. Len(Todo(d)) \in Nat
      BY <1>2
    <3>5. /\ job' \in [Dispatchers -> Jobs]
          /\ job'[d].at = "idle" /\ job'[d].todo = <<>>
          /\ \A e \in Dispatchers \ {d} : job'[e] = job[e]
      BY <1>2, <3>1, <3>2
    <3>6. /\ requeued' \in [Dispatchers -> SUBSET Buckets]
          /\ \A e \in Dispatchers \ {d} : requeued'[e] = requeued[e]
      BY <1>2, <3>1
    <3> QED BY <1>1, <1>2, <1>3, <1>4, <3>1, <3>3, <3>4, <3>5, <3>6, LeavingKeeps
  <2> QED BY <2>1, <2>2
<1>6. SentIsCurrent' /\ FailedIsExhausted'
  BY <1>1 DEF QueueInv, SettledInv, SentIsCurrent, FailedIsExhausted, statsVars
<1> QED BY <1>5, <1>6 DEF QueueInv, SettledInv

LEMMA QueueInvStep == QueueInv /\ [QueueNext]_webhookVars => QueueInv'
<1> SUFFICES ASSUME QueueInv, [QueueNext]_webhookVars PROVE QueueInv'
  OBVIOUS
<1>1. CASE UNCHANGED webhookVars
  BY <1>1 DEF QueueInv, SettledInv, QueueTypeOK, CountedOnce, TodoIsQueued, CopiesFollow,
              VerdictIsRight, SentIsCurrent, FailedIsExhausted, webhookVars, statsVars,
              boundVars, queueHistory, Rows, Todo, Item, Exhausted
<1> QED BY <1>1, TimeKeeps, RecalculateKeeps, FetchKeeps, SendingKeeps, UpdateKeeps,
           GivingWayKeeps DEF QueueNext, DispatchStep

\* The invariant holds in every behaviour.
THEOREM QueueInvariant == QueueSpec => []QueueInv
BY QueueInvInit, QueueInvStep, PTL DEF QueueSpec

\* The types of the queue hold in every behaviour.
THEOREM QueueTypeCorrect == QueueSpec => []QueueTypeOK
BY QueueInvariant, PTL DEF QueueInv

\* A row that is SENT has its statistics at the receiver, unless it was requeued
\* while the dispatcher had them.
THEOREM StatisticsArrive == QueueSpec => []SentIsCurrent
<1>1. QueueInv => SentIsCurrent
  BY DEF QueueInv, SettledInv
<1> QED BY <1>1, QueueInvariant, PTL

\* A row that is FAILED was tried MaxWebhookAttempts times, with the same exception.
THEOREM FailedAfterAllAttempts == QueueSpec => []FailedIsExhausted
<1>1. QueueInv => FailedIsExhausted
  BY DEF QueueInv, SettledInv
<1> QED BY <1>1, QueueInvariant, PTL

-----------------------------------------------------------------------------
(* How many attempts a row can still get *)

\* The dispatchers that may add an attempt to the row of b.
Trying(b) ==
  {d \in Dispatchers :
     \E i \in DOMAIN Todo(d) : Todo(d)[i].bucket = b /\ ~Exhausted(Todo(d)[i])}

TriesLeft ==
  \A b \in Buckets :
    row[b].attempts + Cardinality(Trying(b)) <= MaxWebhookAttempts + lost

\* While cycles exclude each other, no row of the running one is settled.
AloneIsUnsettled ==
  lost = 0 =>
    /\ \A d, e \in InCycle : d = e
    /\ \A d \in Dispatchers : \A i \in DOMAIN Todo(d) :
         row[Todo(d)[i].bucket].status \in {"PENDING", "RETRYING"}

AttemptsInv == TriesLeft /\ AloneIsUnsettled

LEMMA TryingIsFinite ==
  ASSUME NEW b
  PROVE  /\ IsFiniteSet(Trying(b)) /\ Cardinality(Trying(b)) \in Nat
         /\ IsFiniteSet(Trying(b)') /\ Cardinality(Trying(b)') \in Nat
<1>1. Trying(b) \subseteq Dispatchers /\ Trying(b)' \subseteq Dispatchers
  BY DEF Trying
<1> HIDE DEF Trying
<1>2. IsFiniteSet(Trying(b)) /\ IsFiniteSet(Trying(b)')
  BY <1>1, QueueAssumption, FS_Subset
<1> QED BY <1>2, FS_CardinalityType

\* Whatever is not the beginning of a cycle and not an update adds no attempt and
\* no row to a cycle, and settles nothing.
LEMMA OthersAddNothing ==
  ASSUME QueueInv,
         \/ UNCHANGED webhookVars
         \/ \E b \in Buckets : StoreEvent(b) \/ LeaveWindow(b) \/ RetryDue(b)
         \/ RecalculateDirtyBuckets
         \/ \E d \in Dispatchers :
              \/ GiveUp(d) \/ GetHourlyStats(d) \/ GetHourlyStatsFails(d)
              \/ SendSucceeds(d) \/ SendFails(d)
              \/ UpdateFails(d) \/ DispatcherCrash(d)
  PROVE  /\ lost' = lost
         /\ \A e \in Dispatchers :
              /\ job'[e].at # "idle" => job[e].at # "idle"
              /\ \A i \in DOMAIN job'[e].todo :
                   \E j \in DOMAIN Todo(e) : job'[e].todo[i] = Todo(e)[j]
         /\ \A b \in Buckets :
              /\ row'[b].attempts \in Nat /\ row'[b].attempts <= row[b].attempts
              /\ row'[b].status \in {row[b].status, "PENDING"}
<1> DEFINE Cycles ==
             \A e \in Dispatchers :
               /\ job'[e].at # "idle" => job[e].at # "idle"
               /\ \A i \in DOMAIN job'[e].todo :
                    \E j \in DOMAIN Todo(e) : job'[e].todo[i] = Todo(e)[j]
           RowsOnly ==
             \A b \in Buckets :
               /\ row'[b].attempts \in Nat /\ row'[b].attempts <= row[b].attempts
               /\ row'[b].status \in {row[b].status, "PENDING"}
<1>1. /\ \A b \in Buckets : row[b].attempts \in Nat
      /\ row \in [Buckets -> [status : Statuses, attempts : Nat, due : BOOLEAN]]
      /\ job \in [Dispatchers -> Jobs]
  BY DEF QueueInv, QueueTypeOK
<1>2. ASSUME UNCHANGED row PROVE RowsOnly
  BY <1>1, <1>2
<1>3. ASSUME UNCHANGED job PROVE Cycles
  BY <1>3 DEF Todo
<1>4. ASSUME NEW d \in Dispatchers, job[d].at # "idle", job'[d].todo = Todo(d),
             \A e \in Dispatchers \ {d} : job'[e] = job[e]
      PROVE  Cycles
  BY <1>4 DEF Todo
<1>5. CASE UNCHANGED webhookVars
  BY <1>2, <1>3, <1>5 DEF webhookVars, boundVars
<1>6. ASSUME NEW b \in Buckets, StoreEvent(b) \/ LeaveWindow(b)
      PROVE  lost' = lost /\ Cycles /\ RowsOnly
  BY <1>2, <1>3, <1>6 DEF StoreEvent, LeaveWindow, boundVars
<1>7. ASSUME NEW b \in Buckets, RetryDue(b)
      PROVE  lost' = lost /\ Cycles /\ RowsOnly
  <2>1. \A c \in Buckets : row'[c].status = row[c].status
                           /\ row'[c].attempts = row[c].attempts
    BY <1>1, <1>7 DEF RetryDue
  <2> QED BY <1>1, <1>3, <1>7, <2>1 DEF RetryDue, boundVars
<1>8. CASE RecalculateDirtyBuckets
  <2>1. RowsOnly
    BY <1>1, <1>8, RequeueEffect DEF QueueInv
  <2> QED BY <1>3, <1>8, <2>1 DEF RecalculateDirtyBuckets, boundVars
<1>9. ASSUME NEW d \in Dispatchers,
             \/ GiveUp(d) \/ GetHourlyStats(d) \/ GetHourlyStatsFails(d)
             \/ SendSucceeds(d) \/ SendFails(d)
      PROVE  lost' = lost /\ Cycles /\ RowsOnly
  <2>1. UNCHANGED <<row, lost>> /\ job[d].at # "idle"
    BY <1>9 DEF GiveUp, GetHourlyStats, GetHourlyStatsFails, SendSucceeds, SendFails,
                boundVars
  <2>2. /\ job'[d].todo = Todo(d)
        /\ \A e \in Dispatchers \ {d} : job'[e] = job[e]
    <3>1. \/ \E v \in {"SENT", "FAILED", "RETRYING"} : Decide(d, v)
          \/ \E n : job' = [job EXCEPT ![d].at = "send", ![d].payload = n]
      BY <1>9 DEF GiveUp, GetHourlyStats, GetHourlyStatsFails, SendSucceeds, SendFails
    <3>2. CASE \E v \in {"SENT", "FAILED", "RETRYING"} : Decide(d, v)
      BY <3>2, DecideEffect DEF QueueInv, Todo
    <3>3. CASE \E n : job' = [job EXCEPT ![d].at = "send", ![d].payload = n]
      BY <1>1, <3>3 DEF Todo, Jobs
    <3> QED BY <3>1, <3>2, <3>3
  <2> QED BY <1>2, <1>4, <2>1, <2>2
<1>10. ASSUME NEW d \in Dispatchers, UpdateFails(d)
       PROVE  lost' = lost /\ Cycles /\ RowsOnly
  <2>1. UNCHANGED <<row, lost>> /\ job[d].at = "write" /\ GoOn(d)
    BY <1>10 DEF UpdateFails, boundVars
  <2>2. /\ \A i \in DOMAIN job'[d].todo :
             i + 1 \in DOMAIN Todo(d) /\ job'[d].todo[i] = Todo(d)[i + 1]
        /\ \A e \in Dispatchers \ {d} : job'[e] = job[e]
    BY <2>1, GoOnEffect DEF QueueInv
  <2>3. Cycles
    BY <2>1, <2>2 DEF Todo
  <2> QED BY <1>2, <2>1, <2>3
<1>11. ASSUME NEW d \in Dispatchers, DispatcherCrash(d)
       PROVE  lost' = lost /\ Cycles /\ RowsOnly
  <2>1. UNCHANGED <<row, lost>> /\ job' = [job EXCEPT ![d] = Idle]
    BY <1>11 DEF DispatcherCrash
  <2>2. Idle.at = "idle" /\ Idle.todo = <<>> /\ DOMAIN <<>> = {}
    BY DEF Idle
  <2>3. Cycles
    BY <1>1, <2>1, <2>2 DEF Todo
  <2> QED BY <1>2, <2>1, <2>3
<1> QED BY <1>5, <1>6, <1>7, <1>8, <1>9, <1>10, <1>11

LEMMA OthersKeepAttempts ==
  ASSUME QueueInv, AttemptsInv,
         lost' = lost,
         \A e \in Dispatchers :
           /\ job'[e].at # "idle" => job[e].at # "idle"
           /\ \A i \in DOMAIN job'[e].todo :
                \E j \in DOMAIN Todo(e) : job'[e].todo[i] = Todo(e)[j],
         \A b \in Buckets :
           /\ row'[b].attempts \in Nat /\ row'[b].attempts <= row[b].attempts
           /\ row'[b].status \in {row[b].status, "PENDING"}
  PROVE  AttemptsInv'
<1>1. lost \in Nat /\ MaxWebhookAttempts \in Nat
      /\ \A b \in Buckets : row[b].attempts \in Nat
  BY QueueAssumption DEF QueueInv, QueueTypeOK
<1>2. TriesLeft'
  <2> SUFFICES ASSUME NEW b \in Buckets
               PROVE  row'[b].attempts + Cardinality(Trying(b)') <= MaxWebhookAttempts + lost'
    BY DEF TriesLeft
  <2>1. Trying(b)' \subseteq Trying(b)
    BY DEF Trying, Exhausted, Todo
  <2>2. Cardinality(Trying(b)') <= Cardinality(Trying(b))
    BY <2>1, TryingIsFinite, FS_Subset
  <2>3. row[b].attempts + Cardinality(Trying(b)) <= MaxWebhookAttempts + lost
    BY DEF AttemptsInv, TriesLeft
  <2>4. Cardinality(Trying(b)) \in Nat /\ Cardinality(Trying(b)') \in Nat
    BY TryingIsFinite
  <2> QED BY <1>1, <2>2, <2>3, <2>4
<1>3. AloneIsUnsettled'
  <2> SUFFICES ASSUME lost' = 0 PROVE AloneIsUnsettled'
    BY DEF AloneIsUnsettled
  <2>1. /\ \A d, e \in InCycle : d = e
        /\ \A d \in Dispatchers : \A i \in DOMAIN Todo(d) :
             row[Todo(d)[i].bucket].status \in {"PENDING", "RETRYING"}
    BY DEF AttemptsInv, AloneIsUnsettled
  <2>2. \A d, e \in InCycle' : d = e
    BY <2>1 DEF InCycle
  <2>3. ASSUME NEW d \in Dispatchers, NEW i \in DOMAIN job'[d].todo
        PROVE  row'[job'[d].todo[i].bucket].status \in {"PENDING", "RETRYING"}
    <3>1. PICK j \in DOMAIN Todo(d) : job'[d].todo[i] = Todo(d)[j]
      BY <2>3
    <3>2. Todo(d)[j].bucket \in Buckets
      BY TodoIsItems DEF QueueInv
    <3> QED BY <2>1, <3>1, <3>2
  <2> QED BY <2>2, <2>3 DEF AloneIsUnsettled, Todo
<1> QED BY <1>2, <1>3 DEF AttemptsInv

\* A cycle that begins alone finds rows with attempts left; one that begins beside
\* another may add one attempt more, which lost counts.
LEMMA FetchKeepsAttempts ==
  ASSUME QueueInv, AttemptsInv, NEW d \in Dispatchers, GetPendingWebhooks(d)
  PROVE  AttemptsInv'
<1>1. /\ lost \in Nat /\ MaxWebhookAttempts \in Nat
      /\ \A b \in Buckets : row[b].attempts \in Nat
      /\ \A e \in Dispatchers : job[e].at = "idle" => Todo(e) = <<>>
  BY QueueAssumption DEF QueueInv, QueueTypeOK, Todo
<1>2. /\ d \notin InCycle
      /\ IF InCycle = {} THEN lost' = lost ELSE lost' = lost + 1
      /\ row' = row
  BY DEF GetPendingWebhooks
<1>3. /\ \A i \in DOMAIN job'[d].todo :
           /\ job'[d].todo[i].bucket \in Buckets
           /\ Pending(job'[d].todo[i].bucket)
           /\ job'[d].todo[i].attempts = row[job'[d].todo[i].bucket].attempts
      /\ \A e \in Dispatchers \ {d} : job'[e] = job[e]
  BY FetchEffect DEF QueueInv
<1>4. TriesLeft'
  <2> SUFFICES ASSUME NEW b \in Buckets
               PROVE  row'[b].attempts + Cardinality(Trying(b)') <= MaxWebhookAttempts + lost'
    BY DEF TriesLeft
  <2>1. Trying(b)' \subseteq Trying(b) \cup {d}
    BY <1>3 DEF Trying, Exhausted, Todo
  <2>2. d \in Trying(b)' => row[b].attempts + 1 <= MaxWebhookAttempts
    <3> SUFFICES ASSUME NEW i \in DOMAIN job'[d].todo,
                        job'[d].todo[i].bucket = b, ~Exhausted(job'[d].todo[i])
                 PROVE  row[b].attempts + 1 <= MaxWebhookAttempts
      BY DEF Trying, Exhausted, Todo
    <3> QED BY <1>1, <1>3 DEF Exhausted
  <2>3. row[b].attempts + Cardinality(Trying(b)) <= MaxWebhookAttempts + lost
    BY DEF AttemptsInv, TriesLeft
  <2>4. /\ IsFiniteSet(Trying(b)) /\ Cardinality(Trying(b)) \in Nat
        /\ IsFiniteSet(Trying(b)') /\ Cardinality(Trying(b)') \in Nat
    BY TryingIsFinite
  <2>5. /\ IsFiniteSet(Trying(b) \cup {d})
        /\ Cardinality(Trying(b) \cup {d}) <= Cardinality(Trying(b)) + 1
    <3>1. /\ IsFiniteSet(Trying(b) \cup {d})
          /\ Cardinality(Trying(b) \cup {d})
               = IF d \in Trying(b) THEN Cardinality(Trying(b)) ELSE Cardinality(Trying(b)) + 1
      BY <2>4, FS_AddElement
    <3> QED BY <2>4, <3>1
  <2>6. Cardinality(Trying(b)') <= Cardinality(Trying(b)) + 1
    <3>1. Cardinality(Trying(b)') <= Cardinality(Trying(b) \cup {d})
      BY <2>1, <2>5, FS_Subset
    <3>2. Cardinality(Trying(b) \cup {d}) \in Nat
      BY <2>5, FS_CardinalityType
    <3> QED BY <2>4, <2>5, <3>1, <3>2
  <2>7. CASE InCycle # {}
    BY <1>1, <1>2, <2>3, <2>4, <2>6, <2>7
  <2>8. CASE InCycle = {}
    <3>1. Trying(b) = {}
      <4>1. \A e \in Dispatchers : Todo(e) = <<>>
        BY <1>1, <2>8 DEF InCycle
      <4>2. DOMAIN <<>> = {}
        OBVIOUS
      <4> QED BY <4>1, <4>2 DEF Trying
    <3>2. Cardinality(Trying(b)) = 0
      BY <3>1, FS_EmptySet
    <3>3. d \notin Trying(b)' => Cardinality(Trying(b)') = 0
      <4>1. d \notin Trying(b)' => Trying(b)' = {}
        BY <2>1, <3>1
      <4> QED BY <4>1, FS_EmptySet
    <3> QED BY <1>1, <1>2, <2>2, <2>3, <2>4, <2>6, <2>8, <3>2, <3>3
  <2> QED BY <2>7, <2>8
<1>5. AloneIsUnsettled'
  <2> SUFFICES ASSUME lost' = 0 PROVE AloneIsUnsettled'
    BY DEF AloneIsUnsettled
  <2>1. InCycle = {}
    BY <1>1, <1>2
  <2>2. \A e, f \in InCycle' : e = f
    BY <1>3, <2>1 DEF InCycle
  <2>3. ASSUME NEW e \in Dispatchers, NEW i \in DOMAIN job'[e].todo
        PROVE  row'[job'[e].todo[i].bucket].status \in {"PENDING", "RETRYING"}
    <3>1. CASE e = d
      BY <1>2, <1>3, <3>1 DEF Pending
    <3>2. CASE e # d
      <4>1. Todo(e) = <<>> /\ DOMAIN <<>> = {}
        BY <1>1, <2>1 DEF InCycle
      <4>2. job'[e] = job[e]
        BY <1>3, <3>2
      <4> QED BY <4>1, <4>2 DEF Todo
    <3> QED BY <3>1, <3>2
  <2> QED BY <2>2, <2>3 DEF AloneIsUnsettled, Todo
<1> QED BY <1>4, <1>5 DEF AttemptsInv

\* An update that counts an attempt is the last one of its dispatcher for that row.
LEMMA UpdateKeepsAttempts ==
  ASSUME QueueInv, AttemptsInv, NEW d \in Dispatchers, UpdateWebhookStatus(d)
  PROVE  AttemptsInv'
<1> DEFINE b == Item(d).bucket
<1>1. /\ lost \in Nat /\ MaxWebhookAttempts \in Nat
      /\ \A c \in Buckets : row[c].attempts \in Nat
  BY QueueAssumption DEF QueueInv, QueueTypeOK
<1>2. job[d].at = "write" /\ GoOn(d) /\ lost' = lost
  BY DEF UpdateWebhookStatus, boundVars
<1>3. /\ b \in Buckets
      /\ job[d].verdict \in {"SENT", "FAILED", "RETRYING"}
      /\ \A c \in Buckets \ {b} : row'[c] = row[c]
      /\ row'[b].attempts = IF job[d].verdict = "RETRYING" THEN row[b].attempts + 1
                            ELSE row[b].attempts
  BY UpdateEffect
<1>4. /\ \A i \in DOMAIN job'[d].todo :
           i + 1 \in DOMAIN Todo(d) /\ i + 1 # 1 /\ job'[d].todo[i] = Todo(d)[i + 1]
      /\ \A e \in Dispatchers \ {d} : job'[e] = job[e]
  BY <1>2, GoOnEffect DEF QueueInv
<1>5. 1 \in DOMAIN Todo(d) /\ Item(d) = Todo(d)[1]
  BY <1>2, InTheCycle DEF QueueInv
<1>6. \A i \in DOMAIN job'[d].todo : job'[d].todo[i].bucket # b
  BY <1>4, <1>5 DEF QueueInv, SettledInv, TodoIsQueued
<1>7. job[d].verdict = "RETRYING" => ~Exhausted(Item(d))
  BY <1>2 DEF QueueInv, SettledInv, VerdictIsRight
<1>8. TriesLeft'
  <2> SUFFICES ASSUME NEW c \in Buckets
               PROVE  row'[c].attempts + Cardinality(Trying(c)') <= MaxWebhookAttempts + lost'
    BY DEF TriesLeft
  <2>1. row[c].attempts + Cardinality(Trying(c)) <= MaxWebhookAttempts + lost
    BY DEF AttemptsInv, TriesLeft
  <2>2. /\ IsFiniteSet(Trying(c)) /\ Cardinality(Trying(c)) \in Nat
        /\ IsFiniteSet(Trying(c)') /\ Cardinality(Trying(c)') \in Nat
    BY TryingIsFinite
  <2>3. Trying(c)' \subseteq Trying(c)
    BY <1>4 DEF Trying, Exhausted, Todo
  <2>4. Cardinality(Trying(c)') <= Cardinality(Trying(c))
    BY <2>2, <2>3, FS_Subset
  <2>5. CASE c = b /\ job[d].verdict = "RETRYING"
    <3>1. d \in Trying(c)
      BY <1>5, <1>7, <2>5 DEF Trying
    <3>2. Trying(c)' \subseteq Trying(c) \ {d}
      BY <1>6, <2>3, <2>5 DEF Trying, Todo
    <3>3. /\ IsFiniteSet(Trying(c) \ {d})
          /\ Cardinality(Trying(c) \ {d}) = Cardinality(Trying(c)) - 1
      BY <2>2, <3>1, FS_RemoveElement
    <3>4. Cardinality(Trying(c)') <= Cardinality(Trying(c)) - 1
      BY <3>2, <3>3, FS_Subset
    <3>5. row'[c].attempts = row[c].attempts + 1
      BY <1>3, <2>5
    <3> HIDE DEF b
    <3> QED BY <1>1, <1>2, <2>1, <2>2, <3>4, <3>5
  <2>6. CASE ~(c = b /\ job[d].verdict = "RETRYING")
    <3>1. row'[c].attempts = row[c].attempts
      BY <1>3, <2>6
    <3> HIDE DEF b
    <3> QED BY <1>1, <1>2, <2>1, <2>2, <2>4, <3>1
  <2> QED BY <2>5, <2>6
<1>9. AloneIsUnsettled'
  <2> SUFFICES ASSUME lost' = 0 PROVE AloneIsUnsettled'
    BY DEF AloneIsUnsettled
  <2>1. /\ \A e, f \in InCycle : e = f
        /\ \A e \in Dispatchers : \A i \in DOMAIN Todo(e) :
             row[Todo(e)[i].bucket].status \in {"PENDING", "RETRYING"}
    BY <1>2 DEF AttemptsInv, AloneIsUnsettled
  <2>2. \A e \in Dispatchers \ {d} : job[e].at = "idle" /\ job'[e] = job[e]
    BY <1>2, <1>4, <2>1 DEF InCycle
  <2>3. \A e, f \in InCycle' : e = f
    BY <2>2 DEF InCycle
  <2>4. ASSUME NEW e \in Dispatchers, NEW i \in DOMAIN job'[e].todo
        PROVE  row'[job'[e].todo[i].bucket].status \in {"PENDING", "RETRYING"}
    <3>1. CASE e = d
      <4>1. i + 1 \in DOMAIN Todo(d) /\ job'[d].todo[i] = Todo(d)[i + 1]
            /\ Todo(d)[i + 1].bucket # b
        BY <1>4, <1>6, <2>4, <3>1
      <4>2. Todo(d)[i + 1].bucket \in Buckets
        BY <4>1, TodoIsItems DEF QueueInv
      <4>3. row'[Todo(d)[i + 1].bucket] = row[Todo(d)[i + 1].bucket]
        BY <1>3, <4>1, <4>2
      <4> QED BY <2>1, <3>1, <4>1, <4>3
    <3>2. CASE e # d
      <4>1. Todo(e) = <<>> /\ DOMAIN <<>> = {} /\ job'[e] = job[e]
        BY <2>2, <3>2 DEF QueueInv, QueueTypeOK, Todo
      <4> QED BY <2>4, <4>1 DEF Todo
    <3> QED BY <3>1, <3>2
  <2> QED BY <2>3, <2>4 DEF AloneIsUnsettled, Todo
<1> QED BY <1>8, <1>9 DEF AttemptsInv

LEMMA AttemptsInvInit == QueueInit => AttemptsInv
<1> SUFFICES ASSUME QueueInit PROVE AttemptsInv
  OBVIOUS
<1>1. \A d \in Dispatchers : job[d].at = "idle" /\ Todo(d) = <<>>
  BY DEF QueueInit, Idle, Todo
<1>2. DOMAIN <<>> = {}
  OBVIOUS
<1>3. AloneIsUnsettled
  BY <1>1, <1>2 DEF AloneIsUnsettled, InCycle
<1>4. ASSUME NEW b \in Buckets
      PROVE  row[b].attempts + Cardinality(Trying(b)) <= MaxWebhookAttempts + lost
  <2>1. Trying(b) = {}
    BY <1>1, <1>2 DEF Trying
  <2>2. Cardinality(Trying(b)) = 0
    BY <2>1, FS_EmptySet
  <2>3. row[b].attempts = 0 /\ lost = 0
    BY DEF QueueInit
  <2> QED BY <2>2, <2>3, QueueAssumption
<1> QED BY <1>3, <1>4 DEF AttemptsInv, TriesLeft

LEMMA AttemptsInvStep ==
  QueueInv /\ AttemptsInv /\ [QueueNext]_webhookVars => AttemptsInv'
<1> SUFFICES ASSUME QueueInv, AttemptsInv, [QueueNext]_webhookVars PROVE AttemptsInv'
  OBVIOUS
<1>1. CASE \E d \in Dispatchers : GetPendingWebhooks(d)
  BY <1>1, FetchKeepsAttempts
<1>2. CASE \E d \in Dispatchers : UpdateWebhookStatus(d)
  BY <1>2, UpdateKeepsAttempts
<1>3. CASE \/ UNCHANGED webhookVars
           \/ \E b \in Buckets : StoreEvent(b) \/ LeaveWindow(b) \/ RetryDue(b)
           \/ RecalculateDirtyBuckets
           \/ \E d \in Dispatchers :
                \/ GiveUp(d) \/ GetHourlyStats(d) \/ GetHourlyStatsFails(d)
                \/ SendSucceeds(d) \/ SendFails(d)
                \/ UpdateFails(d) \/ DispatcherCrash(d)
  BY <1>3, OthersAddNothing, OthersKeepAttempts
<1> QED BY <1>1, <1>2, <1>3 DEF QueueNext, DispatchStep

LEMMA AttemptsInvariant == QueueSpec => []AttemptsInv
BY QueueInvariant, AttemptsInvInit, AttemptsInvStep, PTL DEF QueueSpec

\* A row gets no more attempts than the limit, and one for each cycle that began
\* beside another one.
THEOREM AttemptsAreBounded == QueueSpec => []AttemptsBounded
<1>1. QueueInv /\ AttemptsInv => AttemptsBounded
  <2> SUFFICES ASSUME QueueInv, AttemptsInv, NEW b \in Buckets
               PROVE  row[b].attempts <= MaxWebhookAttempts + lost
    BY DEF AttemptsBounded
  <2>1. row[b].attempts + Cardinality(Trying(b)) <= MaxWebhookAttempts + lost
    BY DEF AttemptsInv, TriesLeft
  <2>2. Cardinality(Trying(b)) \in Nat
    BY TryingIsFinite
  <2>3. row[b].attempts \in Nat /\ lost \in Nat /\ MaxWebhookAttempts \in Nat
    BY QueueAssumption DEF QueueInv, QueueTypeOK
  <2> QED BY <2>1, <2>2, <2>3
<1> QED BY <1>1, QueueInvariant, AttemptsInvariant, PTL

\* A settled row is left alone until it is recalculated, while cycles exclude each
\* other.
THEOREM SettledIsFinal == QueueSpec => SettledStays
<1> DEFINE Stays == \A b \in Buckets :
             row[b].status \in {"SENT", "FAILED"} /\ row'[b].status # row[b].status
               => row'[b].status = "PENDING" \/ lost > 0
<1>1. QueueInv /\ AttemptsInv /\ [QueueNext]_webhookVars => Stays
  <2> SUFFICES ASSUME QueueInv, AttemptsInv, [QueueNext]_webhookVars, NEW b \in Buckets,
                      row[b].status \in {"SENT", "FAILED"},
                      row'[b].status # row[b].status, row'[b].status # "PENDING"
               PROVE  lost > 0
    OBVIOUS
  <2>1. PICK d \in Dispatchers : UpdateWebhookStatus(d)
    <3>1. ~\E d \in Dispatchers : GetPendingWebhooks(d)
      BY DEF GetPendingWebhooks
    <3> QED BY <3>1, OthersAddNothing DEF QueueNext, DispatchStep
  <2>2. b = Item(d).bucket
    BY <2>1, UpdateEffect
  <2>3. 1 \in DOMAIN Todo(d) /\ Item(d) = Todo(d)[1]
    BY <2>1, InTheCycle DEF UpdateWebhookStatus, QueueInv
  <2>4. lost # 0
    BY <2>2, <2>3 DEF AttemptsInv, AloneIsUnsettled
  <2>5. lost \in Nat
    BY DEF QueueInv, QueueTypeOK
  <2> QED BY <2>4, <2>5
<1>2. QueueInv /\ AttemptsInv /\ [QueueNext]_webhookVars => [Stays]_webhookVars
  BY <1>1
<1> QED BY <1>2, QueueInvariant, AttemptsInvariant, PTL DEF QueueSpec, SettledStays

=============================================================================

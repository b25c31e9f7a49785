---------------------------- MODULE RestApiProofs ----------------------------
(***************************************************************************)
(* Proofs about the rate limiter and the endpoints behind it, for any      *)
(* requests, rows, burst and times that satisfy the assumptions.           *)
(***************************************************************************)
EXTENDS RestApi, FiniteSetTheorems, TLAPS

(* The limiter *)

\* Nothing was seen in the future.
Seen == /\ \A c \in Clients : lastSeen[c] <= now
        /\ \A r \in Requests : request[r].since <= now

\* A limiter that a request holds is the one of its client's entry, which was seen
\* when the request got it or later, and not long ago.  This is why cleaning up
\* does not hurt: a stale entry has no holder.
HeldIsCurrent ==
  \A r \in Requests : request[r].at = "holding" =>
    /\ request[r].limiter \in Requests
    /\ limiters[ClientOf[r]] = request[r].limiter
    /\ request[r].since <= lastSeen[ClientOf[r]]
    /\ now - request[r].since <= Patience

\* Clients share no limiter: it is named after a request of its client that is not
\* new any more.
OwnLimiter ==
  \A c \in Clients : limiters[c] \in Requests =>
    ClientOf[limiters[c]] = c /\ request[limiters[c]].at # "new"

\* A limiter nobody made yet is full, and one in an entry has refilled since it was
\* last asked: a stale one is as good as new.
Refreshed ==
  /\ \A r \in Requests : request[r].at = "new" => tokens[r] = Burst
  /\ \A c \in Clients : limiters[c] \in Requests =>
       \/ tokens[limiters[c]] = Burst
       \/ tokens[limiters[c]] >= now - lastSeen[c] - Patience

LimiterInv == LimiterTypeOK /\ Seen /\ HeldIsCurrent /\ OwnLimiter /\ Refreshed

-----------------------------------------------------------------------------
LEMMA ClientsOf == \A r \in Requests : ClientOf[r] \in Clients
BY DEF Clients

\* The invariant holds at NewRateLimiter.
LEMMA LimiterInvInit == LimiterInit => LimiterInv
BY LimiterAssumption, ClientsOf
   DEF LimiterInit, LimiterInv, LimiterTypeOK, Seen, HeldIsCurrent, OwnLimiter,
       Refreshed, Places

\* Nobody holds the limiter of a stale entry.
LEMMA StaleIsFree ==
  ASSUME LimiterInv, NEW c \in Clients, Stale(c), NEW r \in Requests, ClientOf[r] = c
  PROVE  request[r].at # "holding"
BY LimiterAssumption DEF LimiterInv, LimiterTypeOK, HeldIsCurrent, Stale

\* A stale entry's limiter is full.
LEMMA StaleIsFull ==
  ASSUME LimiterInv, NEW c \in Clients, Stale(c)
  PROVE  limiters[c] \in Requests /\ tokens[limiters[c]] = Burst
<1>1. limiters[c] \in Requests
  BY DEF Stale, LimiterInv, LimiterTypeOK
<1>2. tokens[limiters[c]] \in 0..Burst
  BY <1>1 DEF LimiterInv, LimiterTypeOK
<1>3. now - lastSeen[c] - Patience >= Burst
  BY LimiterAssumption DEF Stale, LimiterInv, LimiterTypeOK
<1>4. tokens[limiters[c]] = Burst \/ tokens[limiters[c]] >= now - lastSeen[c] - Patience
  BY <1>1 DEF LimiterInv, Refreshed
<1>5. /\ now \in Nat /\ lastSeen[c] \in Nat /\ Patience \in Nat /\ Burst \in Nat
  BY LimiterAssumption DEF LimiterInv, LimiterTypeOK
<1> QED BY <1>1, <1>2, <1>3, <1>4, <1>5

LEMMA TickKeeps == LimiterInv /\ Tick => LimiterInv'
<1> SUFFICES ASSUME LimiterInv, Tick PROVE LimiterInv'
  OBVIOUS
<1> USE LimiterAssumption DEF LimiterInv, LimiterTypeOK
<1>0. ASSUME NEW r \in Requests
      PROVE  /\ tokens'[r] \in 0..Burst
             /\ tokens[r] = Burst => tokens'[r] = Burst
             /\ tokens'[r] = Burst \/ tokens'[r] = tokens[r] + 1
  <2>1. tokens[r] \in 0..Burst /\ Burst \in Nat
    OBVIOUS
  <2>2. tokens'[r] = IF tokens[r] < Burst THEN tokens[r] + 1 ELSE tokens[r]
    BY DEF Tick, Refilled
  <2> QED BY <2>1, <2>2
<1>1. /\ now' = now + 1 /\ now \in Nat
      /\ UNCHANGED <<limiters, lastSeen, request>>
      /\ \A r \in Requests : tokens'[r] \in 0..Burst
      /\ \A r \in Requests : tokens[r] = Burst => tokens'[r] = Burst
      /\ \A r \in Requests : tokens'[r] = Burst \/ tokens'[r] = tokens[r] + 1
  BY <1>0 DEF Tick
<1>2. LimiterTypeOK'
  BY <1>1 DEF Tick, Refilled
<1>3. Seen'
  BY <1>1 DEF Seen
<1>4. HeldIsCurrent'
  <2>1. \A r \in Requests : request[r].since \in Nat
    OBVIOUS
  <2> QED BY <1>1, <2>1 DEF HeldIsCurrent, Tick
<1>5. OwnLimiter'
  BY <1>1 DEF OwnLimiter
<1>6. Refreshed'
  <2>1. \A c \in Clients : lastSeen[c] \in Nat
    OBVIOUS
  <2>2. \A r \in Requests : tokens[r] \in 0..Burst
    OBVIOUS
  <2> QED BY <1>1, <2>1, <2>2 DEF Refreshed
<1> QED BY <1>2, <1>3, <1>4, <1>5, <1>6

LEMMA GetLimiterKeeps ==
  ASSUME LimiterInv, NEW r \in Requests, GetLimiter(r)
  PROVE  LimiterInv'
<1> USE LimiterAssumption, ClientsOf DEF LimiterInv, LimiterTypeOK
<1> DEFINE c == ClientOf[r]
           l == Entry(r)
<1>1. /\ c \in Clients /\ l \in Requests
      /\ request[r].at = "new"
      /\ limiters' = [limiters EXCEPT ![c] = l]
      /\ lastSeen' = [lastSeen EXCEPT ![c] = now]
      /\ request' = [request EXCEPT ![r] = [at |-> "holding", limiter |-> l, since |-> now]]
      /\ UNCHANGED <<now, tokens>>
  BY DEF GetLimiter, Entry
<1>2. l = r \/ l = limiters[c]
  BY DEF Entry
<1>3. ClientOf[l] = c /\ (l # r => request[l].at # "new")
  BY <1>1, <1>2 DEF OwnLimiter
<1> HIDE DEF c, l
<1>4. LimiterTypeOK'
  BY <1>1 DEF Places
<1>5. Seen'
  BY <1>1 DEF Seen
<1>6. HeldIsCurrent'
  <2> SUFFICES ASSUME NEW s \in Requests, request'[s].at = "holding"
               PROVE  /\ request'[s].limiter \in Requests
                      /\ limiters'[ClientOf[s]] = request'[s].limiter
                      /\ request'[s].since <= lastSeen'[ClientOf[s]]
                      /\ now' - request'[s].since <= Patience
    BY DEF HeldIsCurrent
  <2>1. CASE s = r
    BY <1>1, <2>1 DEF c
  <2>2. CASE s # r
    <3>1. request'[s] = request[s] /\ request[s].limiter = limiters[ClientOf[s]]
          /\ request[s].limiter \in Requests
          /\ request[s].since <= lastSeen[ClientOf[s]]
          /\ now - request[s].since <= Patience
          /\ request[s].since <= now
      BY <1>1, <2>2 DEF HeldIsCurrent, Seen
    <3>2. CASE ClientOf[s] = c
      <4>1. l = limiters[c]
        BY <3>1, <3>2 DEF l, Entry, c
      <4> QED BY <1>1, <3>1, <3>2, <4>1
    <3>3. CASE ClientOf[s] # c
      BY <1>1, <3>1, <3>3
    <3> QED BY <3>2, <3>3
  <2> QED BY <2>1, <2>2
<1>7. OwnLimiter'
  BY <1>1, <1>3 DEF OwnLimiter
<1>8. Refreshed'
  <2>1. tokens[l] \in 0..Burst
    BY <1>1
  <2>2. tokens[l] >= now - now - Patience
    BY <2>1
  <2> QED BY <1>1, <2>2 DEF Refreshed
<1> QED BY <1>4, <1>5, <1>6, <1>7, <1>8

\* A request that leaves its limiter takes no more than one token.
LEMMA LeavingKeeps ==
  ASSUME LimiterInv, NEW r \in Requests, Allow(r) \/ Refuse(r)
  PROVE  LimiterInv'
<1> USE LimiterAssumption, ClientsOf DEF LimiterInv, LimiterTypeOK
<1> DEFINE l == request[r].limiter
           c == ClientOf[r]
<1>1. /\ l \in Requests /\ c \in Clients /\ limiters[c] = l
      /\ ClientOf[l] = c /\ request[l].at # "new"
      /\ request[r].at = "holding"
      /\ now - lastSeen[c] <= Patience
  BY DEF Allow, Refuse, HeldIsCurrent, OwnLimiter
<1>2. /\ UNCHANGED <<now, limiters, lastSeen>>
      /\ tokens' \in [Requests -> 0..Burst]
      /\ \A m \in Requests : m # l => tokens'[m] = tokens[m]
  BY <1>1 DEF Allow, Refuse
<1>3. /\ request' \in [Requests -> [at : Places, limiter : Requests \cup {NoLimiter},
                                    since : Nat]]
      /\ request'[r].at \in {"admitted", "refused"}
      /\ request'[r].since \in {request[r].since, now}
      /\ \A s \in Requests : s # r => request'[s] = request[s]
  BY DEF Allow, Refuse, Places
<1> HIDE DEF l, c
<1>4. LimiterTypeOK'
  BY <1>2, <1>3
<1>5. Seen'
  BY <1>2, <1>3 DEF Seen
<1>6. HeldIsCurrent'
  BY <1>2, <1>3 DEF HeldIsCurrent
<1>7. OwnLimiter'
  BY <1>2, <1>3 DEF OwnLimiter
<1>8. Refreshed'
  <2>1. \A s \in Requests : request'[s].at = "new" => request[s].at = "new" /\ s # l
    BY <1>1, <1>3
  <2>2. \A d \in Clients : limiters[d] \in Requests /\ d # c => limiters[d] # l
    BY <1>1 DEF OwnLimiter
  <2>3. tokens'[l] >= now - lastSeen[c] - Patience
    BY <1>1, <1>2
  <2> QED BY <1>1, <1>2, <2>1, <2>2, <2>3 DEF Refreshed
<1> QED BY <1>4, <1>5, <1>6, <1>7, <1>8

LEMMA CleanupKeeps == LimiterInv /\ Cleanup => LimiterInv'
<1> SUFFICES ASSUME LimiterInv, Cleanup PROVE LimiterInv'
  OBVIOUS
<1>1. /\ UNCHANGED <<now, lastSeen, tokens, request>>
      /\ limiters' \in [Clients -> Requests \cup {NoLimiter}]
      /\ \A c \in Clients : ~Stale(c) => limiters'[c] = limiters[c]
      /\ \A c \in Clients : limiters'[c] \in Requests => limiters'[c] = limiters[c]
  BY LimiterAssumption DEF Cleanup, LimiterInv, LimiterTypeOK
<1>2. HeldIsCurrent'
  <2>1. \A r \in Requests : request[r].at = "holding" => ~Stale(ClientOf[r])
    BY StaleIsFree, ClientsOf
  <2> QED BY <1>1, <2>1, ClientsOf DEF LimiterInv, HeldIsCurrent
<1>3. LimiterTypeOK' /\ Seen' /\ OwnLimiter' /\ Refreshed'
  BY <1>1 DEF LimiterInv, LimiterTypeOK, Seen, OwnLimiter, Refreshed
<1> QED BY <1>2, <1>3 DEF LimiterInv

LEMMA LimiterInvStep == LimiterInv /\ [LimiterNext]_limiterVars => LimiterInv'
<1> SUFFICES ASSUME LimiterInv, [LimiterNext]_limiterVars PROVE LimiterInv'
  OBVIOUS
<1>1. CASE UNCHANGED limiterVars
  BY <1>1 DEF limiterVars, LimiterInv, LimiterTypeOK, Seen, HeldIsCurrent,
              OwnLimiter, Refreshed
<1> QED BY <1>1, TickKeeps, GetLimiterKeeps, LeavingKeeps, CleanupKeeps DEF LimiterNext

\* The invariant holds in every behaviour of the limiter.
THEOREM LimiterInvariant == LimiterSpec => []LimiterInv
BY LimiterInvInit, LimiterInvStep, PTL DEF LimiterSpec

-----------------------------------------------------------------------------
(* One bucket for each client *)

BucketOf(c) == IF limiters[c] = NoLimiter THEN Burst ELSE tokens[limiters[c]]

AdmittedRequests == {r \in Requests : request[r].at = "admitted"}

\* The steps of the buckets, client by client.
LEMMA SameBuckets ==
  ASSUME \A c \in Clients : BucketOf(c)' = BucketOf(c),
         now' = now, AdmittedRequests' = AdmittedRequests
  PROVE  UNCHANGED Buckets!bucketVars
BY DEF BucketOf, AdmittedRequests, Buckets!bucketVars

LEMMA RefilledBuckets ==
  ASSUME \A c \in Clients : BucketOf(c)' = Buckets!Refilled(BucketOf(c)),
         now' = now + 1, AdmittedRequests' = AdmittedRequests
  PROVE  Buckets!Pass
BY DEF BucketOf, AdmittedRequests, Clients, Buckets!Clients, Buckets!Refilled, Buckets!Pass

LEMMA TokenTaken ==
  ASSUME NEW r \in Requests, r \notin AdmittedRequests,
         AdmittedRequests' = AdmittedRequests \cup {r}, now' = now,
         BucketOf(ClientOf[r]) > 0,
         BucketOf(ClientOf[r])' = BucketOf(ClientOf[r]) - 1,
         \A d \in Clients \ {ClientOf[r]} : BucketOf(d)' = BucketOf(d)
  PROVE  Buckets!Admit(r)
BY ClientsOf DEF BucketOf, AdmittedRequests, Buckets!Admit

LEMMA EntriesAreLimiters ==
  LimiterInv => /\ NoLimiter \notin Requests
                /\ \A c \in Clients : limiters[c] = NoLimiter \/ limiters[c] \in Requests
BY LimiterAssumption DEF LimiterInv, LimiterTypeOK

\* Time gives a token to each bucket that is not full.
LEMMA TickRefills ==
  ASSUME LimiterInv, Tick, NEW c \in Clients
  PROVE  BucketOf(c)' = Buckets!Refilled(BucketOf(c))
BY EntriesAreLimiters, LimiterAssumption
   DEF Tick, Refilled, Buckets!Refilled, BucketOf, LimiterInv, LimiterTypeOK

\* An admitted request takes a token from its client's bucket and from no other.
LEMMA AllowTakes ==
  ASSUME LimiterInv, NEW r \in Requests, Allow(r)
  PROVE  /\ BucketOf(ClientOf[r]) > 0
         /\ BucketOf(ClientOf[r])' = BucketOf(ClientOf[r]) - 1
         /\ \A d \in Clients \ {ClientOf[r]} : BucketOf(d)' = BucketOf(d)
<1> USE EntriesAreLimiters, ClientsOf
<1> DEFINE c == ClientOf[r]
<1>1. /\ limiters[c] = request[r].limiter /\ limiters[c] \in Requests
      /\ \A d \in Clients \ {c} : limiters[d] # limiters[c]
  BY DEF Allow, LimiterInv, HeldIsCurrent, OwnLimiter
<1>2. BucketOf(c) > 0 /\ BucketOf(c)' = BucketOf(c) - 1
  BY <1>1 DEF Allow, BucketOf, LimiterInv, LimiterTypeOK
<1>3. \A d \in Clients \ {c} : BucketOf(d)' = BucketOf(d)
  BY <1>1 DEF Allow, BucketOf, LimiterInv, LimiterTypeOK
<1> QED BY <1>2, <1>3

\* No other step touches a bucket: a limiter is full when its entry is made and when
\* it is deleted.
LEMMA OthersKeepBuckets ==
  ASSUME LimiterInv, NEW c \in Clients,
         \/ Cleanup \/ UNCHANGED limiterVars
         \/ \E r \in Requests : GetLimiter(r) \/ Refuse(r)
  PROVE  BucketOf(c)' = BucketOf(c)
<1> USE EntriesAreLimiters
<1>1. CASE Cleanup
  <2>1. Stale(c) => tokens[limiters[c]] = Burst
    BY StaleIsFull
  <2> QED BY <1>1, <2>1 DEF Cleanup, BucketOf, Stale
<1>2. ASSUME NEW r \in Requests, GetLimiter(r) PROVE BucketOf(c)' = BucketOf(c)
  <2>1. tokens[r] = Burst
    BY <1>2 DEF GetLimiter, LimiterInv, Refreshed
  <2> QED
    BY <1>2, <2>1, ClientsOf DEF GetLimiter, Entry, BucketOf, LimiterInv, LimiterTypeOK
<1>3. ASSUME NEW r \in Requests, Refuse(r) PROVE BucketOf(c)' = BucketOf(c)
  BY <1>3 DEF Refuse, BucketOf
<1>4. CASE UNCHANGED limiterVars
  BY <1>4 DEF limiterVars, BucketOf
<1> QED BY <1>1, <1>2, <1>3, <1>4

\* Only Allow admits, and only time passes time.
LEMMA AdmissionsMove ==
  ASSUME LimiterInv, [LimiterNext]_limiterVars
  PROVE  /\ Tick => now' = now + 1 /\ AdmittedRequests' = AdmittedRequests
         /\ \A r \in Requests : Allow(r) =>
              /\ now' = now /\ r \notin AdmittedRequests
              /\ AdmittedRequests' = AdmittedRequests \cup {r}
         /\ (\/ Cleanup \/ UNCHANGED limiterVars
             \/ \E r \in Requests : GetLimiter(r) \/ Refuse(r))
              => now' = now /\ AdmittedRequests' = AdmittedRequests
<1> USE DEF AdmittedRequests, LimiterInv, LimiterTypeOK
<1>1. Tick => now' = now + 1 /\ AdmittedRequests' = AdmittedRequests
  BY DEF Tick
<1>2. ASSUME NEW r \in Requests, Allow(r)
      PROVE  /\ now' = now /\ r \notin AdmittedRequests
             /\ AdmittedRequests' = AdmittedRequests \cup {r}
  BY <1>2 DEF Allow
<1>3. ASSUME NEW r \in Requests, GetLimiter(r) \/ Refuse(r)
      PROVE  now' = now /\ AdmittedRequests' = AdmittedRequests
  BY <1>3 DEF GetLimiter, Refuse
<1>4. Cleanup \/ UNCHANGED limiterVars => now' = now /\ AdmittedRequests' = AdmittedRequests
  BY DEF Cleanup, limiterVars
<1> QED BY <1>1, <1>2, <1>3, <1>4

\* A step of the limiter is a unit of time, an admission by a token of the client's
\* bucket, or is not seen.
LEMMA StepIsBucketStep ==
  LimiterInv /\ [LimiterNext]_limiterVars => [Buckets!BucketsNext]_(Buckets!bucketVars)
<1> SUFFICES ASSUME LimiterInv, [LimiterNext]_limiterVars
             PROVE  \/ UNCHANGED Buckets!bucketVars \/ Buckets!Pass
                    \/ \E r \in Requests : Buckets!Admit(r)
  BY DEF Buckets!BucketsNext
<1>1. CASE Tick
  BY <1>1, TickRefills, RefilledBuckets, AdmissionsMove
<1>2. ASSUME NEW r \in Requests, Allow(r)
      PROVE  Buckets!Admit(r)
  BY <1>2, AllowTakes, TokenTaken, AdmissionsMove
<1>3. CASE \/ Cleanup \/ UNCHANGED limiterVars
           \/ \E r \in Requests : GetLimiter(r) \/ Refuse(r)
  BY <1>3, OthersKeepBuckets, SameBuckets, AdmissionsMove
<1> QED BY <1>1, <1>2, <1>3 DEF LimiterNext

\* The limiter implements the buckets.
LEMMA LimiterIsBuckets == LimiterSpec => IsClientBuckets
<1>1. LimiterInit => Buckets!BucketsInit
  <2> SUFFICES ASSUME LimiterInit PROVE Buckets!BucketsInit
    OBVIOUS
  <2>1. {r \in Requests : request[r].at = "admitted"} = {}
    BY DEF LimiterInit
  <2>2. [c \in Clients |-> IF limiters[c] = NoLimiter THEN Burst ELSE tokens[limiters[c]]]
          = [c \in Buckets!Clients |-> Burst]
    BY DEF LimiterInit, Clients, Buckets!Clients
  <2> QED BY <2>1, <2>2 DEF LimiterInit, Buckets!BucketsInit
<1>2. LimiterInv /\ [LimiterNext]_limiterVars => [Buckets!BucketsNext]_(Buckets!bucketVars)
  BY StepIsBucketStep
<1> QED BY <1>1, <1>2, LimiterInvariant, PTL
        DEF LimiterSpec, IsClientBuckets, Buckets!BucketsSpec

-----------------------------------------------------------------------------
(* The endpoints *)

\* The handlers leave the limiter alone.
LEMMA RestIsLimited == RestSpec => LimiterSpec
<1>1. RestInit => LimiterInit
  BY DEF RestInit
<1>2. [RestNext]_restVars => [LimiterNext]_limiterVars
  BY DEF RestNext, HandlerStep, HandlerFails, CreateExample, DeleteExample,
         FindForUpdate, SaveExample, restVars
<1> QED BY <1>1, <1>2, PTL DEF RestSpec, LimiterSpec

\* Type correctness of the limiter.
THEOREM LimiterTypeCorrect == RestSpec => []LimiterTypeOK
<1>1. LimiterInv => LimiterTypeOK
  BY DEF LimiterInv
<1> QED BY <1>1, RestIsLimited, LimiterInvariant, PTL

\* Cleaning up is not noticed: for any clients, burst and times, each admission takes
\* a token of its client's one bucket and only time brings tokens back, if a request
\* asks its limiter within Patience of looking it up.
THEOREM LimiterIsClientBuckets == RestSpec => IsClientBuckets
BY RestIsLimited, LimiterIsBuckets, PTL

-----------------------------------------------------------------------------
(* Updates *)

\* Tables have a row for each id, and a handler that has read a row has read one
\* that was there.
HandlersOK ==
  /\ DOMAIN examples = Ids /\ DOMAIN serial = Ids
  /\ DOMAIN handler = Requests
  /\ \A r \in Requests :
       /\ handler[r] = [at |-> handler[r].at, existing |-> handler[r].existing]
       /\ handler[r].at = "read" => handler[r].existing.exists
       /\ handler[r].at # "middleware" => request[r].at = "admitted"

UpdatesInv == HandlersOK /\ SerialUnlessRaced

LEMMA UpdatesInvInit == RestInit => UpdatesInv
BY RestAssumption DEF RestInit, UpdatesInv, HandlersOK, SerialUnlessRaced

LEMMA UpdatesInvStep == LimiterTypeOK /\ UpdatesInv /\ [RestNext]_restVars => UpdatesInv'
<1> SUFFICES ASSUME LimiterTypeOK, UpdatesInv, [RestNext]_restVars PROVE UpdatesInv'
  OBVIOUS
<1> USE RestAssumption DEF UpdatesInv, HandlersOK, SerialUnlessRaced
<1>1. ASSUME LimiterNext, UNCHANGED <<examples, handler, serial, raced>>
      PROVE  UpdatesInv'
  <2>1. \A r \in Requests : request[r].at = "admitted" => request'[r].at = "admitted"
    BY <1>1 DEF LimiterNext, Tick, Cleanup, GetLimiter, Allow, Refuse, LimiterTypeOK
  <2> QED BY <1>1, <2>1
<1>2. ASSUME NEW r \in Requests, HandlerFails(r) PROVE UpdatesInv'
  BY <1>2 DEF HandlerFails, Admitted, Answer, limiterVars
<1>3. ASSUME NEW r \in Requests, CreateExample(r) PROVE UpdatesInv'
  BY <1>3 DEF CreateExample, Starts, Admitted, Answer, limiterVars
<1>4. ASSUME NEW r \in Requests, DeleteExample(r) PROVE UpdatesInv'
  BY <1>4 DEF DeleteExample, Starts, Admitted, Answer, limiterVars
<1>5. ASSUME NEW r \in Requests, FindForUpdate(r) PROVE UpdatesInv'
  BY <1>5 DEF FindForUpdate, Starts, Admitted, limiterVars
<1>6. ASSUME NEW r \in Requests, SaveExample(r) PROVE UpdatesInv'
  <2> DEFINE id == IdOf[r]
  <2>1. HandlersOK'
    BY <1>6 DEF SaveExample, Answer, limiterVars
  <2>2. \A i \in Ids \ {id} : examples'[i] = examples[i] /\ serial'[i] = serial[i]
    BY <1>6 DEF SaveExample
  <2>3. id \notin raced' => examples'[id] = serial'[id]
    <3> SUFFICES ASSUME id \notin raced' PROVE examples'[id] = serial'[id]
      OBVIOUS
    <3>1. /\ examples[id] = handler[r].existing /\ serial[id] = examples[id]
          /\ handler[r].existing.exists
      BY <1>6 DEF SaveExample
    <3> QED BY <1>6, <3>1 DEF SaveExample, Changed
  <2>4. raced \subseteq raced'
    BY <1>6 DEF SaveExample
  <2> QED BY <2>1, <2>2, <2>3, <2>4
<1>7. CASE UNCHANGED restVars
  BY <1>7 DEF restVars, limiterVars
<1> QED BY <1>1, <1>2, <1>3, <1>4, <1>5, <1>6, <1>7 DEF RestNext, HandlerStep

LEMMA UpdatesInvariant == RestSpec => []UpdatesInv
<1>1. RestInit => UpdatesInv
  BY UpdatesInvInit
<1>2. LimiterTypeOK /\ UpdatesInv /\ [RestNext]_restVars => UpdatesInv'
  BY UpdatesInvStep
<1> QED BY <1>1, <1>2, LimiterTypeCorrect, PTL DEF RestSpec

\* The table is what the writes make one after the other, but for rows written by an
\* update that had read another content.
THEOREM UpdatesAreSerial == RestSpec => []SerialUnlessRaced
<1>1. UpdatesInv => SerialUnlessRaced
  BY DEF UpdatesInv
<1> QED BY <1>1, UpdatesInvariant, PTL

-----------------------------------------------------------------------------
(* The work of a client *)

AdmittedSince(c, t) ==
  {r \in Requests : ClientOf[r] = c /\ request[r].at = "admitted" /\ request[r].since >= t}

\* What a client was given since t and what is in its bucket was there at t, at most
\* a full bucket, or came with time.
TokensSpent ==
  \A c \in Clients, t \in 0..now :
    Cardinality(AdmittedSince(c, t)) + BucketOf(c) <= Burst + (now - t)

LEMMA RequestsCounted ==
  ASSUME NEW S \in SUBSET Requests
  PROVE  IsFiniteSet(S) /\ Cardinality(S) \in Nat
BY RestAssumption, FS_Subset, FS_CardinalityType

LEMMA BucketType == LimiterInv => \A c \in Clients : BucketOf(c) \in 0..Burst
BY LimiterAssumption DEF BucketOf, LimiterInv, LimiterTypeOK

LEMMA TokensSpentInit == LimiterInit => TokensSpent
<1> SUFFICES ASSUME LimiterInit, NEW c \in Clients, NEW t \in 0..now
             PROVE  Cardinality(AdmittedSince(c, t)) + BucketOf(c) <= Burst + (now - t)
  BY DEF TokensSpent
<1>1. AdmittedSince(c, t) = {} /\ BucketOf(c) = Burst /\ now = 0 /\ t = 0
  BY DEF LimiterInit, AdmittedSince, BucketOf
<1>2. Cardinality({}) = 0
  BY FS_EmptySet
<1> QED BY <1>1, <1>2, LimiterAssumption

LEMMA TokensSpentStep ==
  LimiterInv /\ TokensSpent /\ [LimiterNext]_limiterVars => TokensSpent'
<1> SUFFICES ASSUME LimiterInv, TokensSpent, [LimiterNext]_limiterVars,
                    NEW c \in Clients, NEW t \in 0..now'
             PROVE  Cardinality(AdmittedSince(c, t)') + BucketOf(c)' <= Burst + (now' - t)
  BY DEF TokensSpent, Clients
<1>0. /\ BucketOf(c) \in 0..Burst /\ Burst \in Nat /\ now \in Nat
      /\ AdmittedSince(c, t) \in SUBSET Requests
      /\ IsFiniteSet(AdmittedSince(c, t)) /\ Cardinality(AdmittedSince(c, t)) \in Nat
      /\ t \in 0..now =>
           Cardinality(AdmittedSince(c, t)) + BucketOf(c) <= Burst + (now - t)
  BY LimiterAssumption, BucketType, RequestsCounted
     DEF LimiterInv, LimiterTypeOK, AdmittedSince, TokensSpent
<1>1. CASE Tick
  <2>1. AdmittedSince(c, t)' = AdmittedSince(c, t) /\ now' = now + 1
    BY <1>1 DEF Tick, AdmittedSince
  <2>2. BucketOf(c)' <= BucketOf(c) + 1 /\ BucketOf(c)' \in 0..Burst
    BY <1>0, <1>1, TickRefills DEF Buckets!Refilled
  <2>3. CASE t \in 0..now
    BY <1>0, <2>1, <2>2, <2>3
  <2>4. CASE t = now + 1
    <3>1. AdmittedSince(c, t) = {}
      BY <2>4 DEF AdmittedSince, LimiterInv, LimiterTypeOK, Seen
    <3> QED BY <1>0, <2>1, <2>2, <2>4, <3>1, FS_EmptySet
  <2> QED BY <1>0, <2>1, <2>3, <2>4
<1>2. ASSUME NEW r \in Requests, Allow(r)
      PROVE  Cardinality(AdmittedSince(c, t)') + BucketOf(c)' <= Burst + (now' - t)
  <2>1. now' = now /\ t \in 0..now
    BY <1>2 DEF Allow
  <2>2. CASE c = ClientOf[r]
    <3>1. AdmittedSince(c, t)' = AdmittedSince(c, t) \cup {r} /\ r \notin AdmittedSince(c, t)
      <4>1. request[r].at = "holding" /\ request'[r].at = "admitted" /\ request'[r].since >= t
        BY <1>2, <2>1 DEF Allow, LimiterInv, LimiterTypeOK
      <4>2. \A s \in Requests \ {r} : request'[s] = request[s]
        BY <1>2 DEF Allow, LimiterInv, LimiterTypeOK
      <4> QED BY <2>2, <4>1, <4>2 DEF AdmittedSince
    <3>2. Cardinality(AdmittedSince(c, t)') = Cardinality(AdmittedSince(c, t)) + 1
      BY <1>0, <3>1, FS_AddElement
    <3>3. BucketOf(c)' = BucketOf(c) - 1
      BY <1>2, <2>2, AllowTakes
    <3> QED BY <1>0, <2>1, <3>2, <3>3
  <2>3. CASE c # ClientOf[r]
    <3>1. AdmittedSince(c, t)' = AdmittedSince(c, t)
      BY <1>2, <2>3 DEF Allow, AdmittedSince, LimiterInv, LimiterTypeOK
    <3>2. BucketOf(c)' = BucketOf(c)
      BY <1>2, <2>3, AllowTakes
    <3> QED BY <1>0, <2>1, <3>1, <3>2
  <2> QED BY <2>2, <2>3
<1>3. CASE \/ Cleanup \/ UNCHANGED limiterVars
           \/ \E r \in Requests : GetLimiter(r) \/ Refuse(r)
  <2>1. AdmittedSince(c, t)' = AdmittedSince(c, t) /\ now' = now
    <3>1. ASSUME NEW r \in Requests, GetLimiter(r) \/ Refuse(r), NEW s \in Requests
          PROVE  /\ request'[s].at = "admitted" <=> request[s].at = "admitted"
                 /\ request[s].at = "admitted" => request'[s] = request[s]
      BY <3>1 DEF GetLimiter, Refuse, LimiterInv, LimiterTypeOK
    <3>2. CASE Cleanup \/ UNCHANGED limiterVars
      BY <3>2 DEF Cleanup, limiterVars, AdmittedSince
    <3>3. now' = now
      BY <1>3 DEF Cleanup, GetLimiter, Refuse, limiterVars
    <3> QED BY <1>3, <3>1, <3>2, <3>3 DEF AdmittedSince
  <2>2. BucketOf(c)' = BucketOf(c)
    BY <1>3, OthersKeepBuckets
  <2> QED BY <1>0, <2>1, <2>2
<1> QED BY <1>1, <1>2, <1>3 DEF LimiterNext

LEMMA TokensSpentInvariant == LimiterSpec => []TokensSpent
BY TokensSpentInit, TokensSpentStep, LimiterInvariant, PTL DEF LimiterSpec

\* From any time on, no client has more requests in the handlers than a full bucket and
\* the time since have allowed, for any requests, although handlers run long after the
\* limiter and entries come and go.
THEOREM HandlersWithinRate == RestSpec => []HandledWithinRate
<1>1. LimiterInv /\ TokensSpent /\ HandlersOK => HandledWithinRate
  <2> SUFFICES ASSUME LimiterInv, TokensSpent, HandlersOK, NEW c \in Clients,
                      NEW t \in 0..now
               PROVE  Cardinality(HandledSince(c, t)) <= Burst + (now - t)
    BY DEF HandledWithinRate
  <2>1. /\ HandledSince(c, t) \in SUBSET AdmittedSince(c, t)
        /\ AdmittedSince(c, t) \in SUBSET Requests
    BY DEF HandlersOK, HandledSince, AdmittedSince
  <2>2. Cardinality(HandledSince(c, t)) <= Cardinality(AdmittedSince(c, t))
    BY <2>1, RequestsCounted, FS_Subset
  <2>3. Cardinality(HandledSince(c, t)) \in Nat /\ Cardinality(AdmittedSince(c, t)) \in Nat
    BY <2>1, RequestsCounted
  <2>4. BucketOf(c) \in 0..Burst /\ Burst \in Nat /\ now \in Nat
    BY BucketType, LimiterAssumption DEF LimiterInv, LimiterTypeOK
  <2>5. Cardinality(AdmittedSince(c, t)) + BucketOf(c) <= Burst + (now - t)
    BY DEF TokensSpent
  <2> QED BY <2>2, <2>3, <2>4, <2>5
<1>2. UpdatesInv => HandlersOK
  BY DEF UpdatesInv
<1> QED BY <1>1, <1>2, RestIsLimited, LimiterInvariant, TokensSpentInvariant,
           UpdatesInvariant, PTL
=============================================================================

----------------------------- MODULE RateLimiter -----------------------------
(***************************************************************************)
(* RateLimiter (rest/ratelimit.go): the middleware looks up the limiter of *)
(* the client under a mutex and asks it for a token without; a goroutine   *)
(* deletes the entries not seen for cleanupAge, whose limiters a request   *)
(* may still hold.                                                         *)
(*                                                                         *)
(* A limiter (golang.org/x/time/rate) is a bucket of Burst tokens, full    *)
(* when it is new.  The unit of time is what one token takes, 1/rateLimit  *)
(* of a second.  A limiter is named after the request that made it.        *)
(***************************************************************************)
EXTENDS Integers

CONSTANTS Requests,
          ClientOf,    \* ClientIP of each request
          NoLimiter,
          Burst,       \* burstLimit, 20 in the code
          cleanupAge,  \* ten minutes: 60000 units
          Patience,    \* assumed: a request is no longer between lookup and Allow,
                       \* which are adjacent statements in the code
          MaxTime      \* bound

ASSUME LimiterAssumption ==
  /\ NoLimiter \notin Requests
  /\ Burst \in Nat \ {0}
  /\ {cleanupAge, Patience, MaxTime} \subseteq Nat
  /\ Patience + Burst <= cleanupAge

Clients == {ClientOf[r] : r \in Requests}

VARIABLES
  now,
  limiters, \* rl.limiters: the limiter of each client, or none
  lastSeen, \* of the entries
  tokens,   \* in each limiter
  request   \* how far each request is, the limiter it holds, and since when it
            \* holds it, or is admitted

limiterVars == <<now, limiters, lastSeen, tokens, request>>

-----------------------------------------------------------------------------
Places == {"new", "holding", "refused", "admitted"}

LimiterInit ==
  /\ now = 0
  /\ limiters = [c \in Clients |-> NoLimiter]
  /\ lastSeen = [c \in Clients |-> 0]
  /\ tokens = [r \in Requests |-> Burst]
  /\ request = [r \in Requests |-> [at |-> "new", limiter |-> NoLimiter, since |-> 0]]

Refilled(n) == IF n < Burst THEN n + 1 ELSE n

\* A request that holds a limiter goes on to Allow within Patience.
Tick ==
  /\ now < MaxTime
  /\ \A r \in Requests : request[r].at = "holding" => now - request[r].since < Patience
  /\ now' = now + 1
  /\ tokens' = [l \in Requests |-> Refilled(tokens[l])]
  /\ UNCHANGED <<limiters, lastSeen, request>>

Entry(r) == IF limiters[ClientOf[r]] = NoLimiter THEN r ELSE limiters[ClientOf[r]]

\* Mutant: lastSeen is set when the entry is made, and not again.
GetLimiterSeenOnce(r) ==
  /\ request[r].at = "new"
  /\ limiters' = [limiters EXCEPT ![ClientOf[r]] = Entry(r)]
  /\ lastSeen' = IF Entry(r) = r THEN [lastSeen EXCEPT ![ClientOf[r]] = now] ELSE lastSeen
  /\ request' = [request EXCEPT ![r] = [at |-> "holding", limiter |-> Entry(r), since |-> now]]
  /\ UNCHANGED <<now, tokens>>

\* getLimiter
GetLimiter(r) ==
  /\ request[r].at = "new"
  /\ limiters' = [limiters EXCEPT ![ClientOf[r]] = Entry(r)]
  /\ lastSeen' = [lastSeen EXCEPT ![ClientOf[r]] = now]
  /\ request' = [request EXCEPT ![r] = [at |-> "holding", limiter |-> Entry(r), since |-> now]]
  /\ UNCHANGED <<now, tokens>>

\* limiter.Allow, and the two ways on.
Allow(r) ==
  LET l == request[r].limiter IN
  /\ request[r].at = "holding"
  /\ tokens[l] > 0
  /\ tokens' = [tokens EXCEPT ![l] = @ - 1]
  /\ request' = [request EXCEPT ![r] =
       [at |-> "admitted", limiter |-> NoLimiter, since |-> now]]
  /\ UNCHANGED <<now, limiters, lastSeen>>

Refuse(r) ==
  /\ request[r].at = "holding"
  /\ tokens[request[r].limiter] = 0
  /\ request' = [request EXCEPT ![r].at = "refused", ![r].limiter = NoLimiter]
  /\ UNCHANGED <<now, limiters, lastSeen, tokens>>

Stale(c) == limiters[c] # NoLimiter /\ lastSeen[c] < now - cleanupAge

\* A round of cleanupLoop; it may come at any time.
Cleanup ==
  /\ limiters' = [c \in Clients |-> IF Stale(c) THEN NoLimiter ELSE limiters[c]]
  /\ UNCHANGED <<now, lastSeen, tokens, request>>

LimiterNext ==
  \/ Tick \/ Cleanup
  \/ \E r \in Requests : GetLimiter(r) \/ Allow(r) \/ Refuse(r)

LimiterSpec == LimiterInit /\ [][LimiterNext]_limiterVars

-----------------------------------------------------------------------------
(* Properties *)

\* The type invariant.
LimiterTypeOK ==
  /\ now \in Nat
  /\ limiters \in [Clients -> Requests \cup {NoLimiter}]
  /\ lastSeen \in [Clients -> Nat]
  /\ tokens \in [Requests -> 0..Burst]
  /\ request \in [Requests -> [at : Places, limiter : Requests \cup {NoLimiter},
                               since : Nat]]

\* Cleaning up is not noticed: each admission takes a token of the client's one
\* bucket, and only time brings tokens back, although an entry is deleted without
\* regard to who holds its limiter and the next request gets a full one
\* (ratelimit.go 57 to 59, 71 to 75).  A bucket without an entry is full.
Buckets == INSTANCE ClientBuckets WITH
  bucket <- [c \in Clients |-> IF limiters[c] = NoLimiter THEN Burst ELSE tokens[limiters[c]]],
  admitted <- {r \in Requests : request[r].at = "admitted"}
IsClientBuckets == Buckets!BucketsSpec
=============================================================================

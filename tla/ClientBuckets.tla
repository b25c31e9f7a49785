---------------------------- MODULE ClientBuckets ----------------------------
(***************************************************************************)
(* What the rate limiter promises: a client has one bucket of Burst        *)
(* tokens, full at first, that gets a token with each unit of time and in  *)
(* no other way, and a request is admitted only by a token of its client's *)
(* bucket, once.  So a client has at most Burst + w requests admitted in w *)
(* units of time.                                                          *)
(***************************************************************************)
EXTENDS Naturals

CONSTANTS Requests, ClientOf, Burst

VARIABLES now, bucket, admitted

bucketVars == <<now, bucket, admitted>>

Clients == {ClientOf[r] : r \in Requests}

BucketsInit == /\ now = 0
               /\ bucket = [c \in Clients |-> Burst]
               /\ admitted = {}

Refilled(n) == IF n < Burst THEN n + 1 ELSE n

\* Time passes, and brings a token to each bucket that has room.
Pass == /\ now' = now + 1
        /\ bucket' = [c \in Clients |-> Refilled(bucket[c])]
        /\ UNCHANGED admitted

Admit(r) == /\ r \notin admitted
            /\ bucket[ClientOf[r]] > 0
            /\ bucket' = [bucket EXCEPT ![ClientOf[r]] = @ - 1]
            /\ admitted' = admitted \cup {r}
            /\ UNCHANGED now

BucketsNext == Pass \/ \E r \in Requests : Admit(r)

BucketsSpec == BucketsInit /\ [][BucketsNext]_bucketVars
=============================================================================

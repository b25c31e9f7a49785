----------------------- MODULE MCAnalyticsCoordinator -----------------------
(***************************************************************************)
(* AnalyticsCoordinator with two replicas, one of which has two            *)
(* connections, so that it can unlock on the wrong one.                    *)
(***************************************************************************)
EXTENDS AnalyticsCoordinator

CONSTANTS r1, r2, c1, c2, c3

MCPoolOf == [c \in {c1, c2, c3} |-> IF c = c3 THEN r2 ELSE r1]
=============================================================================

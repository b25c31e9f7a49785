-------------------------- MODULE MCEventProcessing --------------------------
(***************************************************************************)
(* EventProcessing on a small instance: two processes, and the test        *)
(* endpoint of one of them.                                                *)
(***************************************************************************)
EXTENDS EventProcessing

CONSTANTS p1, p2, r1, r2, h1

MCPlants == {p1, p2}
MCProcesses == {r1, r2}
MCCallers == {r1, r2, h1}
MCProcessOf == [c \in MCCallers |-> IF c = r2 THEN r2 ELSE r1]
MCPlantOf == <<p1, p1, p1>>
=============================================================================

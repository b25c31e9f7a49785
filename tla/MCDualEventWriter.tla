-------------------------- MODULE MCDualEventWriter --------------------------
(***************************************************************************)
(* DualEventWriter on small instances: events and workers are model        *)
(* values, given in the configurations.  No symmetry, as the same runs     *)
(* check liveness.                                                         *)
(***************************************************************************)
EXTENDS DualEventWriter
=============================================================================

----------------------------- MODULE MCIngestion -----------------------------
(***************************************************************************)
(* Ingestion on small instances.                                           *)
(***************************************************************************)
EXTENDS Ingestion

MCEvents == Offsets \X (1..MaxBuilds)
=============================================================================

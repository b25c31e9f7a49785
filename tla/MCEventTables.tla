---------------------------- MODULE MCEventTables ----------------------------
(***************************************************************************)
(* EventTables on a small instance: the third copy is another time that    *)
(* the message of the first was processed.                                 *)
(***************************************************************************)
EXTENDS EventTables

MCIdOf == <<1, 2, 1, 3>>
MCTypeOf == <<"x", "y", "x", "x">>
MCPlantOf == <<"a", "a", "a", "a">>

\* The pages are read while all four copies are there; after that three copies and the
\* statistics go on, as far as the retention policy.
Bounded == now <= MaxListing \/ (listing.at = "none" /\ created[4] = NotYet)
=============================================================================

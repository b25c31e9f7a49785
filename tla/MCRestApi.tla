------------------------------ MODULE MCRestApi ------------------------------
(***************************************************************************)
(* RestApi on a small instance: two updates and a delete of one row, and a *)
(* request that creates another.                                           *)
(***************************************************************************)
EXTENDS RestApi

MCRequests == {"rename", "describe", "remove", "add"}
MCClientOf == [r \in MCRequests |-> IF r = "add" THEN "B" ELSE "A"]
MCOperation == [rename |-> "update", describe |-> "update", remove |-> "delete",
                add |-> "create"]
MCIdOf == [r \in MCRequests |-> IF r = "add" THEN 2 ELSE 1]
MCNameOf == [r \in MCRequests |-> IF r \in {"rename", "add"} THEN "new" ELSE ""]
MCDescriptionOf == [r \in MCRequests |-> IF r \in {"describe", "add"} THEN "text" ELSE ""]
MCExamplesBefore == <<Row("old", "words"), Absent>>
=============================================================================

------------------------------ MODULE EventSink ------------------------------
(***************************************************************************)
(* What one pipeline of the dual event writer promises to the service that *)
(* hands events to it, without channels, batches or workers.               *)
(*                                                                         *)
(* An event is accepted once.  It stays pending until a whole batch of     *)
(* pending events is settled, either all stored or all lost; it may also   *)
(* be lost at once (no room for it) or stored at once (the synchronous     *)
(* path).  What is settled never changes again.                            *)
(***************************************************************************)
CONSTANTS Events,    \* the events a caller may hand over
          Batches    \* the sets of events that may be settled at once

VARIABLES pending,   \* accepted, not settled yet
          stored,    \* in the table
          lost       \* accepted and given up

sinkVars == <<pending, stored, lost>>

Known == pending \cup stored \cup lost

SinkInit == /\ pending = {}
            /\ stored = {}
            /\ lost = {}

Take(e) == /\ e \notin Known
           /\ pending' = pending \cup {e}
           /\ UNCHANGED <<stored, lost>>

TurnAway(e) == /\ e \notin Known
               /\ lost' = lost \cup {e}
               /\ UNCHANGED <<pending, stored>>

StoreNow(e) == /\ e \notin Known
               /\ stored' = stored \cup {e}
               /\ UNCHANGED <<pending, lost>>

\* A batch is a transaction: it is stored as a whole or lost as a whole.
Settle(B) == /\ B # {}
             /\ B \subseteq pending
             /\ pending' = pending \ B
             /\ \/ stored' = stored \cup B /\ UNCHANGED lost
                \/ lost' = lost \cup B /\ UNCHANGED stored

SinkNext == \/ \E e \in Events : Take(e) \/ TurnAway(e) \/ StoreNow(e)
            \/ \E B \in Batches : Settle(B)

SinkSpec == SinkInit /\ [][SinkNext]_sinkVars

=============================================================================

------------------------------- MODULE RestApi -------------------------------
(***************************************************************************)
(* The examples endpoints behind the rate limiter (rest/router.go,         *)
(* rest/handlers.go, repositories/example_repo.go).  Each request is a     *)
(* goroutine: the middleware, then the handler, whose queries interleave   *)
(* with those of other requests and may each fail, as they do once         *)
(* Shutdown has closed the database under the requests in flight.          *)
(*                                                                         *)
(* A request has an operation, the id of a row and two fields, "" for one  *)
(* that is not given.  The id of a created row is new.                     *)
(***************************************************************************)
EXTENDS RateLimiter, FiniteSets

CONSTANTS Ids, Operation, IdOf, NameOf, DescriptionOf, \* of each request
          examplesBefore  \* the rows at first

Blank == ""
Absent == [name |-> Blank, description |-> Blank, exists |-> FALSE]
Row(name, description) == [name |-> name, description |-> description, exists |-> TRUE]

ASSUME RestAssumption ==
  /\ Operation \in [Requests -> {"create", "update", "delete"}]
  /\ IdOf \in [Requests -> Ids]
  /\ DOMAIN examplesBefore = Ids
  /\ IsFiniteSet(Requests)
  /\ \A r, s \in Requests : Operation[r] = "create" =>
       ~examplesBefore[IdOf[r]].exists /\ (Operation[s] = "create" /\ IdOf[s] = IdOf[r] => s = r)

VARIABLES
  examples, \* the table
  handler,  \* where the handler of each request is, and the row it has read
  serial,   \* history: the table as it were if each update were one step
  raced     \* history: rows written by an update that had read another content

restVars == <<limiterVars, examples, handler, serial, raced>>

-----------------------------------------------------------------------------
RestInit ==
  /\ LimiterInit
  /\ examples = examplesBefore
  /\ handler = [r \in Requests |-> [at |-> "middleware", existing |-> Absent]]
  /\ serial = examplesBefore
  /\ raced = {}

\* Mutant: a refused request goes on to its handler, for want of Abort.
AnyAnswered(r) == request[r].at \in {"refused", "admitted"}

\* The handler runs after c.Next, and not after c.Abort.
Admitted(r) == request[r].at = "admitted"

Starts(r, operation) ==
  Admitted(r) /\ handler[r].at = "middleware" /\ Operation[r] = operation

Answer(r) == handler' = [handler EXCEPT ![r].at = "done"]

\* A body that does not parse, or a query that fails.
HandlerFails(r) ==
  /\ Admitted(r) /\ handler[r].at \in {"middleware", "read"}
  /\ Answer(r)
  /\ UNCHANGED <<limiterVars, examples, serial, raced>>

CreateExample(r) ==
  /\ Starts(r, "create")
  /\ examples' = [examples EXCEPT ![IdOf[r]] = Row(NameOf[r], DescriptionOf[r])]
  /\ serial' = [serial EXCEPT ![IdOf[r]] = Row(NameOf[r], DescriptionOf[r])]
  /\ Answer(r)
  /\ UNCHANGED <<limiterVars, raced>>

\* Delete, of a row that need not be there.
DeleteExample(r) ==
  /\ Starts(r, "delete")
  /\ examples' = [examples EXCEPT ![IdOf[r]] = Absent]
  /\ serial' = [serial EXCEPT ![IdOf[r]] = Absent]
  /\ Answer(r)
  /\ UNCHANGED <<limiterVars, raced>>

\* UpdateExample, first part: FindByID, or not found.
FindForUpdate(r) ==
  /\ Starts(r, "update")
  /\ handler' = [handler EXCEPT
       ![r] = [at |-> IF examples[IdOf[r]].exists THEN "read" ELSE "done",
               existing |-> examples[IdOf[r]]]]
  /\ UNCHANGED <<limiterVars, examples, serial, raced>>

\* Mutant: a field that is not given is cleared.
Overwritten(r, row) == Row(NameOf[r], DescriptionOf[r])

Changed(r, row) ==
  Row(IF NameOf[r] = Blank THEN row.name ELSE NameOf[r],
      IF DescriptionOf[r] = Blank THEN row.description ELSE DescriptionOf[r])

\* Second part: Save updates the whole row, and inserts it when it is gone.
SaveExample(r) ==
  LET id == IdOf[r] IN
  /\ handler[r].at = "read"
  /\ examples' = [examples EXCEPT ![id] = Changed(r, handler[r].existing)]
  /\ raced' = IF examples[id] # handler[r].existing THEN raced \cup {id} ELSE raced
  /\ serial' = [serial EXCEPT ![id] =
       IF ~@.exists THEN @
       ELSE Row(IF NameOf[r] # Blank THEN NameOf[r] ELSE @.name,
                IF DescriptionOf[r] # Blank THEN DescriptionOf[r] ELSE @.description)]
  /\ Answer(r)
  /\ UNCHANGED limiterVars

-----------------------------------------------------------------------------
HandlerStep(r) ==
  \/ HandlerFails(r) \/ CreateExample(r) \/ DeleteExample(r)
  \/ FindForUpdate(r) \/ SaveExample(r)

RestNext ==
  \/ LimiterNext /\ UNCHANGED <<examples, handler, serial, raced>>
  \/ \E r \in Requests : HandlerStep(r)

RestSpec == RestInit /\ [][RestNext]_restVars

-----------------------------------------------------------------------------
(* Properties *)

\* Updates that do not overlap another write of their row are atomic: the table is
\* what they make one after the other.  Only a write between the read and the save
\* of an update can be lost, or a deleted row come back.
SerialUnlessRaced ==
  \A id \in Ids : id \notin raced => examples[id] = serial[id]

\* The requests of c whose handlers have begun, of those that left the limiter since t.
HandledSince(c, t) ==
  {r \in Requests : /\ ClientOf[r] = c
                    /\ handler[r].at # "middleware"
                    /\ request[r].since >= t}

\* The limit holds for the work that is done, not only for the answers, and from any
\* time on: of the requests since then, no more of a client reach the handlers than a
\* full bucket and the time allow, however often its entry was deleted and made anew.
HandledWithinRate ==
  \A c \in Clients, t \in 0..now : Cardinality(HandledSince(c, t)) <= Burst + (now - t)
=============================================================================

----------------------------- MODULE EventTables -----------------------------
(***************************************************************************)
(* The two event tables in time: buildEventEntities stamps created_at, the *)
(* writer stores the row later, in any order and perhaps never; a client   *)
(* reads the operational table page by page (event_operational_repo.go,    *)
(* ports/output/pagination.go); the aggregator counts the hours that had a *)
(* row in the lookback window (analytics_worker_repo.go) and a report      *)
(* counts the rows themselves (event_analytical_repo.go).  The retention   *)
(* policy of the migrations drops old chunks of the analytical table; the  *)
(* statistics stay.                                                        *)
(*                                                                         *)
(* A copy is one time that a message was processed.  Its id is that of the *)
(* message: the operational table holds one row for an id, the analytical  *)
(* one a row for an id and a created_at.                                   *)
(*                                                                         *)
(* The clock is discrete and the same for processes and database.          *)
(***************************************************************************)
EXTENDS Integers, FiniteSets, FiniteSetsExt, SequencesExt

CONSTANTS Copies,
          IdOf, TypeOf, PlantOf, \* of each copy; ids are ordered
          NoType,                \* listing without a filter
          Filters, Limits,       \* what clients ask for; a limit 0 for none
          DefaultPageSize, MaxPageSize,
          Hour, Day,             \* widths of the buckets
          Lookback,              \* LookbackWindow
          MaxDelay,              \* from created_at to the insertion
          MaxGap,                \* between two successful cycles
          Retention,             \* age from which a chunk is dropped
          MaxTime,               \* bound
          MaxListing             \* bound: the last time a client begins to read

NotYet == -1

ASSUME TablesAssumption ==
  /\ NotYet \notin Copies
  /\ IdOf \in [Copies -> Nat]
  /\ Limits \subseteq Int
  /\ {DefaultPageSize, MaxPageSize, Hour, Day} \subseteq Nat \ {0}
  /\ {Lookback, MaxDelay, MaxGap, Retention, MaxTime, MaxListing} \subseteq Nat
  /\ DefaultPageSize <= MaxPageSize
  /\ Day % Hour = 0
  /\ MaxDelay + MaxGap <= Lookback
  /\ Lookback <= Retention

VARIABLES
  now,
  created,  \* created_at of each copy
  opRows,   \* operational.events_std
  anRows,   \* analytical.events_ts
  stats,    \* sample_count of analytical.hourly_plant_stats, 0 without a row
  lastCycle,
  counted,  \* history: the rows a cycle has met
  listing   \* the client's

rowVars == <<created, opRows, anRows>>
statVars == <<stats, lastCycle, counted>>
tableVars == <<now, rowVars, statVars, listing>>

-----------------------------------------------------------------------------
Times == 0..MaxTime
Plants == {PlantOf[c] : c \in Copies}
time_bucket(width, t) == t \div width
Hours == {time_bucket(Hour, t) : t \in Times}
Days == {time_bucket(Day, t) : t \in Times}

\* A chunk of the analytical table is a day, and past when it ends before the time
\* that the retention policy keeps.
PastRetention(d) == d * Day + Day <= now - Retention

Built == {c \in Copies : created[c] # NotYet}
NoListing == [at |-> "none", type |-> NoType, limit |-> 0, last |-> NotYet,
              seen |-> <<>>, present |-> {}]

TablesInit ==
  /\ now = 0
  /\ created = [c \in Copies |-> NotYet]
  /\ opRows = {} /\ anRows = {}
  /\ stats = [k \in Hours \X Plants |-> 0]
  /\ lastCycle = 0 /\ counted = {}
  /\ listing = NoListing

\* Time goes on, until the next cycle is due.
Tick ==
  /\ now < MaxTime
  /\ now - lastCycle < MaxGap
  /\ now' = now + 1
  /\ UNCHANGED <<rowVars, statVars, listing>>

\* buildEventEntities: both rows have the same created_at.
BuildEvent(c) ==
  /\ created[c] = NotYet
  /\ created' = [created EXCEPT ![c] = now]
  /\ UNCHANGED <<now, opRows, anRows, statVars, listing>>

\* A row is stored in time or lost.
InTime(c) == c \in Built /\ now - created[c] <= MaxDelay

\* Mutant: no conflict target, so a second row for the id.
StoreOperationalTwice(c) ==
  /\ InTime(c)
  /\ opRows' = opRows \cup {c}
  /\ UNCHANGED <<now, created, anRows, statVars, listing>>

\* The insert of a batch, with ON CONFLICT (id) DO NOTHING.
StoreOperational(c) ==
  /\ InTime(c)
  /\ \A d \in opRows : IdOf[d] # IdOf[c]
  /\ opRows' = opRows \cup {c}
  /\ UNCHANGED <<now, created, anRows, statVars, listing>>

\* With ON CONFLICT (created_at, id) DO NOTHING.
StoreAnalytical(c) ==
  /\ InTime(c)
  /\ \A d \in anRows : IdOf[d] # IdOf[c] \/ created[d] # created[c]
  /\ anRows' = anRows \cup {c}
  /\ UNCHANGED <<now, created, opRows, statVars, listing>>

\* The retention policy's job drops a chunk with all its rows.
DropChunk(d) ==
  /\ PastRetention(d)
  /\ anRows' = {c \in anRows : time_bucket(Day, created[c]) # d}
  /\ UNCHANGED <<now, created, opRows, statVars, listing>>

-----------------------------------------------------------------------------
(* The aggregator *)

RowsIn(rows, width, b, p) ==
  {c \in rows : time_bucket(width, created[c]) = b /\ PlantOf[c] = p}

\* Mutant: the window of a cycle ends where the one before began.
DirtySinceCycle(c) == created[c] >= lastCycle

InLookback(c) == created[c] >= now - Lookback

CountBucket(b, p) == Cardinality(RowsIn(anRows, Hour, b, p))

\* RecalculateDirtyBuckets, one statement: an hour of a plant with a row in the
\* window is counted as a whole.
RecalculateDirtyBuckets ==
  /\ stats' = [k \in Hours \X Plants |->
       IF \E c \in RowsIn(anRows, Hour, k[1], k[2]) : InLookback(c)
       THEN CountBucket(k[1], k[2]) ELSE stats[k]]
  /\ lastCycle' = now
  /\ counted' = counted \cup anRows
  /\ UNCHANGED <<now, rowVars, listing>>

-----------------------------------------------------------------------------
(* Reports *)

\* Mutant: the end of the range is left out.
BeforeEnd(c, start, end) == start <= created[c] /\ created[c] < end

InRange(c, start, end) == start <= created[c] /\ created[c] <= end

FindByTimeRange(start, end) == {c \in anRows : InRange(c, start, end)}

\* Counts by bucket and type, of the buckets and types there are.
Aggregation(width, p, start, end) ==
  LET rows == {c \in FindByTimeRange(start, end) : PlantOf[c] = p}
      Key(c) == <<time_bucket(width, created[c]), TypeOf[c]>>
  IN {[bucket |-> k[1], type |-> k[2],
       event_count |-> Cardinality({c \in rows : Key(c) = k})] : k \in {Key(c) : c \in rows}}

GetHourlyAggregation(p, start, end) == Aggregation(Hour, p, start, end)
GetDailyAggregation(p, start, end) == Aggregation(Day, p, start, end)

-----------------------------------------------------------------------------
(* Pages of the operational table *)

NormalizePageQuery(limit) ==
  IF limit <= 0 THEN DefaultPageSize ELSE IF limit > MaxPageSize THEN MaxPageSize ELSE limit

Before(c, d) ==
  created[c] < created[d] \/ (created[c] = created[d] /\ IdOf[c] < IdOf[d])

\* Mutant: the cursor is the timestamp alone.
BeforeByTime(c, last) == created[c] < created[last]

AfterCursor(c, last) == Before(c, last)

\* The order of the listing.
Newest(c, d) ==
  created[c] > created[d] \/ (created[c] = created[d] /\ IdOf[c] > IdOf[d])

Matches(type) == {c \in opRows : type \in {NoType, TypeOf[c]}}

Rank(c, rows) == Cardinality({d \in rows : Newest(d, c)})

NewestFirst(rows) == [i \in 1..Cardinality(rows) |-> CHOOSE c \in rows : Rank(c, rows) = i - 1]

Unread(type, last) == {c \in Matches(type) : last = NotYet \/ AfterCursor(c, last)}

\* The rows FindAll and FindByEventType read, newest first: the page and one more.
Selected(type, last, limit) ==
  LET rows == NewestFirst(Unread(type, last))
  IN SubSeq(rows, 1, Min({Len(rows), limit + 1}))

HasMore(models, limit) == Len(models) > limit

\* One page; the cursor stands for its last row, and comes with a page that is not
\* the last.
Page(type, last, asked, seen, present) ==
  LET limit == NormalizePageQuery(asked)
      models == Selected(type, last, limit)
      items == SubSeq(models, 1, Min({Len(models), limit}))
  IN listing' = IF HasMore(models, limit)
                THEN [at |-> "more", type |-> type, limit |-> asked, last |-> Last(items),
                      seen |-> seen \o items, present |-> present]
                ELSE [NoListing EXCEPT !.at = "end", !.seen = seen \o items,
                                       !.present = present]

\* A client asks for the first page,
ListEvents(type, asked) ==
  /\ listing.at = "none" /\ now <= MaxListing
  /\ Page(type, NotYet, asked, <<>>, Matches(type))
  /\ UNCHANGED <<now, rowVars, statVars>>

\* and goes on with the cursor of the page before.
NextPage ==
  /\ listing.at = "more"
  /\ Page(listing.type, listing.last, listing.limit, listing.seen, listing.present)
  /\ UNCHANGED <<now, rowVars, statVars>>

ListAgain ==
  /\ listing.at = "end"
  /\ listing' = NoListing
  /\ UNCHANGED <<now, rowVars, statVars>>

-----------------------------------------------------------------------------
TablesNext ==
  \/ Tick
  \/ \E c \in Copies : \/ BuildEvent(c)
                       \/ StoreOperational(c) \/ StoreAnalytical(c)
  \/ \E d \in Days : DropChunk(d)
  \/ RecalculateDirtyBuckets
  \/ \E type \in Filters, asked \in Limits : ListEvents(type, asked)
  \/ NextPage \/ ListAgain

TablesSpec == TablesInit /\ [][TablesNext]_tableVars

-----------------------------------------------------------------------------
(* Properties *)

\* The type invariant, with the key of the operational table.
TablesTypeOK ==
  /\ now \in Times /\ lastCycle \in 0..now
  /\ created \in [Copies -> Times \cup {NotYet}]
  /\ opRows \subseteq Built /\ anRows \subseteq Built
  /\ IsFiniteSet(opRows) /\ IsFiniteSet(anRows)
  /\ stats \in [Hours \X Plants -> Nat]
  /\ counted \subseteq Built
  /\ listing.at \in {"none", "more", "end"}
  /\ listing.seen \in Seq(Copies) /\ listing.present \subseteq Copies
  /\ \A c, d \in opRows : IdOf[c] = IdOf[d] => c = d

\* No page repeats a row or comes out of order, whatever is inserted between two
\* pages, and a client that has read to the last page has every row that was there
\* when it began: a page boundary in the middle of rows of one instant skips none.
PagesAreOneListing ==
  /\ \A i \in 1..(Len(listing.seen) - 1) : Before(listing.seen[i + 1], listing.seen[i])
  /\ listing.at = "end" => listing.present \subseteq ToSet(listing.seen)

\* The count of the hours with a row in the window is the count of all hours: with
\* MaxDelay + MaxGap within the window, no row that was there in a cycle is missing in
\* the statistics, and no cycle recounts an hour that has lost rows to the retention
\* policy.
NothingMissed ==
  \A b \in Hours, p \in Plants : stats[<<b, p>>] = Cardinality(RowsIn(counted, Hour, b, p))

\* The sum of the values of a function, as the number of its units.
Total(count) == Cardinality(UNION {{k} \X (1..count[k]) : k \in DOMAIN count})

\* What a report has for a bucket.
Reported(report, b) ==
  Total([r \in {r \in report : r.bucket = b} |-> r.event_count])

HoursOf(d) == {b \in Hours : time_bucket(Day, b * Hour) = d}

\* A report over any range has for a bucket that is wholly in it, its last instant
\* included, what the statistics have for it, and for one at the edge of the range
\* never more: so an end on the first instant of a bucket adds nothing to the bucket
\* before.  Two things may differ: a row that has come since the last cycle, and a
\* chunk the retention policy drops, of which the report has nothing at all while the
\* statistics stay.
AsCounted(reported, inStats, whole, past) ==
  /\ reported <= inStats
  /\ whole => reported = inStats \/ (reported = 0 /\ past)

Whole(width, b, start, end) == start <= b * width /\ b * width + width - 1 <= end

ReportAgreesWithStats ==
  \A p \in Plants :
    LET Settled(width, buckets) ==
          {b \in buckets : RowsIn(anRows, width, b, p) \subseteq counted}
        hours == Settled(Hour, Hours)
        days == Settled(Day, Days)
        inStats == [d \in days |-> Total([b \in HoursOf(d) |-> stats[<<b, p>>]])]
    IN \A start \in Times : \A end \in start..MaxTime :
         LET hourly == GetHourlyAggregation(p, start, end)
             daily == GetDailyAggregation(p, start, end)
         IN /\ \A b \in hours :
                 AsCounted(Reported(hourly, b), stats[<<b, p>>],
                           Whole(Hour, b, start, end), PastRetention(time_bucket(Day, b * Hour)))
            /\ \A d \in days :
                 AsCounted(Reported(daily, d), inStats[d],
                           Whole(Day, d, start, end), PastRetention(d))
=============================================================================

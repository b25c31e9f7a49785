----------------------------- MODULE PlantCache -----------------------------
(***************************************************************************)
(* EnergyPlantRepository.Exists (repositories/energy_plant_repo.go): does  *)
(* a plant exist, answered from an LRU cache in front of the table.  Each  *)
(* process has a cache of its own.  In a process the Kafka consumer and    *)
(* the HTTP handlers call Exists at the same time; the cache is locked for *)
(* each Get and Add, not from the Get to the Add.                          *)
(*                                                                         *)
(* Nothing in the code deletes a plant, and the tables refer to it.        *)
(***************************************************************************)
EXTENDS Naturals, Sequences, FiniteSets, SequencesExt

CONSTANTS Plants,
          Processes,
          Callers,    \* goroutines that call Exists
          ProcessOf,  \* the process of each caller
          NoPlant,
          CacheSize,  \* 1000 in the code
          plantsBefore \* the table at first

ASSUME CacheAssumption ==
  /\ ProcessOf \in [Callers -> Processes] /\ IsFiniteSet(Processes)
  /\ CacheSize \in Nat \ {0}
  /\ NoPlant \notin Plants /\ plantsBefore \subseteq Plants

VARIABLES
  plants,       \* the table master.energy_plants
  cache,        \* entries of each process, the one used last first
  lookup,       \* the call of Exists each caller is in
  plantsAtStart \* history: the table when the process started

cacheVars == <<plants, cache, lookup, plantsAtStart>>

-----------------------------------------------------------------------------
NoLookup == [at |-> "idle", plant |-> NoPlant, answer |-> "none"]
Entries == [plant : Plants, exists : BOOLEAN]
Answers == {"none", "yes", "no", "error"}
Yes(exists) == IF exists THEN "yes" ELSE "no"

CacheInit ==
  /\ plants = plantsBefore
  /\ cache = [r \in Processes |-> <<>>]
  /\ lookup = [c \in Callers |-> NoLookup]
  /\ plantsAtStart = [r \in Processes |-> plants]

\* The table gets a row.
CreatePlant(p) ==
  /\ p \notin plants
  /\ plants' = plants \cup {p}
  /\ UNCHANGED <<cache, lookup, plantsAtStart>>

EntryOf(entries, p) == {i \in DOMAIN entries : entries[i].plant = p}

\* Get and Add make the entry the newest; Add evicts the oldest.
Others(entries, p) ==
  IF EntryOf(entries, p) = {} THEN entries
  ELSE RemoveAt(entries, CHOOSE i \in EntryOf(entries, p) : TRUE)

\* Mutant: nothing is evicted.
AddedAlways(entries, entry) == <<entry>> \o Others(entries, entry.plant)

Added(entries, entry) ==
  LET all == <<entry>> \o Others(entries, entry.plant)
  IN IF Len(all) > CacheSize THEN SubSeq(all, 1, CacheSize) ELSE all

CachedEntries(c, p) == {e \in {cache[ProcessOf[c]][i] : i \in DOMAIN cache[ProcessOf[c]]} :
                          e.plant = p}

\* Exists, first part: the cache answers, or the table has to.
GetFromCache(c, p) ==
  LET r == ProcessOf[c] IN
  /\ lookup[c].at = "idle"
  /\ \/ \E e \in CachedEntries(c, p) :
          /\ cache' = [cache EXCEPT ![r] = Added(@, e)]
          /\ lookup' = [lookup EXCEPT
               ![c] = [at |-> "answered", plant |-> p, answer |-> Yes(e.exists)]]
     \/ /\ CachedEntries(c, p) = {}
        /\ lookup' = [lookup EXCEPT ![c] = [at |-> "query", plant |-> p, answer |-> "none"]]
        /\ UNCHANGED cache
  /\ UNCHANGED <<plants, plantsAtStart>>

\* Second part: the table is asked.  An error is returned and not kept.
CountPlants(c) ==
  /\ lookup[c].at = "query"
  /\ lookup' = [lookup EXCEPT
       ![c] = [at |-> "add", plant |-> @.plant, answer |-> Yes(@.plant \in plants)]]
  /\ UNCHANGED <<plants, cache, plantsAtStart>>

\* Mutant: the error is not looked at, and the count is zero.
CountErrorKept(c) ==
  /\ lookup[c].at = "query"
  /\ lookup' = [lookup EXCEPT ![c] = [at |-> "add", plant |-> @.plant, answer |-> "no"]]
  /\ UNCHANGED <<plants, cache, plantsAtStart>>

CountFails(c) ==
  /\ lookup[c].at = "query"
  /\ lookup' = [lookup EXCEPT ![c] = [at |-> "answered", plant |-> @.plant, answer |-> "error"]]
  /\ UNCHANGED <<plants, cache, plantsAtStart>>

\* Third part: the answer is kept, whether the plant exists or not.
AddToCache(c) ==
  LET r == ProcessOf[c] IN
  /\ lookup[c].at = "add"
  /\ cache' = [cache EXCEPT ![r] = Added(@, [plant |-> lookup[c].plant,
                                            exists |-> lookup[c].answer = "yes"])]
  /\ lookup' = [lookup EXCEPT ![c].at = "answered"]
  /\ UNCHANGED <<plants, plantsAtStart>>
=============================================================================

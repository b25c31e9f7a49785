----------------------- MODULE EventProcessingProofs -----------------------
(***************************************************************************)
(* Proofs about EventProcessing and the cache of plants it shares with the *)
(* test endpoint, for any number of processes, plants and messages, any    *)
(* size of the cache and any number of rebalances and restarts.            *)
(*                                                                         *)
(* Four invariants, each on top of the ones before it: the types, with     *)
(* where a lookup and a task can be; what the caches hold (CacheIsTrue);   *)
(* the status of a plant against the committed offset (CommitsInOrder);    *)
(* the hand-overs to the writer (HandOversPaid).                           *)
(***************************************************************************)
EXTENDS EventProcessing, FiniteSetTheorems, SequenceTheorems, TLAPS

-----------------------------------------------------------------------------
(* The LRU list *)

OnePerPlant(entries) ==
  \A i, j \in DOMAIN entries : entries[i].plant = entries[j].plant => i = j

\* Removing position i moves the entries after it one place forward.
LEMMA RemoveAtShifts ==
  ASSUME NEW S, NEW s \in Seq(S), NEW i \in 1..Len(s)
  PROVE  /\ RemoveAt(s, i) \in Seq(S)
         /\ Len(RemoveAt(s, i)) = Len(s) - 1
         /\ \A k \in 1..Len(s) - 1 :
              RemoveAt(s, i)[k] = IF k < i THEN s[k] ELSE s[k + 1]
<1> DEFINE a == SubSeq(s, 1, i - 1)
           b == SubSeq(s, i + 1, Len(s))
<1>1. a \in Seq(S) /\ Len(a) = i - 1 /\ \A k \in 1..i - 1 : a[k] = s[k]
  OBVIOUS
<1>2. b \in Seq(S) /\ Len(b) = Len(s) - i /\ \A k \in 1..Len(s) - i : b[k] = s[i + k]
  OBVIOUS
<1>3. RemoveAt(s, i) = a \o b
  BY DEF RemoveAt
<1> HIDE DEF a, b
<1>4. /\ a \o b \in Seq(S)
      /\ Len(a \o b) = Len(a) + Len(b)
      /\ \A k \in 1..Len(a) + Len(b) :
           (a \o b)[k] = IF k <= Len(a) THEN a[k] ELSE b[k - Len(a)]
  BY <1>1, <1>2, ConcatProperties
<1>5. ASSUME NEW k \in 1..Len(s) - 1
      PROVE  (a \o b)[k] = IF k < i THEN s[k] ELSE s[k + 1]
  <2>1. CASE k < i
    BY <2>1, <1>1, <1>2, <1>4
  <2>2. CASE ~(k < i)
    <3>1. k - (i - 1) \in 1..Len(s) - i
      BY <2>2
    <3>2. b[k - (i - 1)] = s[k + 1]
      BY <3>1, <1>2
    <3>3. k \in 1..Len(a) + Len(b) /\ ~(k <= Len(a)) /\ k - Len(a) = k - (i - 1)
      BY <2>2, <1>1, <1>2
    <3> QED  BY <2>2, <3>2, <3>3, <1>4
  <2> QED  BY <2>1, <2>2
<1> QED  BY <1>1, <1>2, <1>3, <1>4, <1>5

\* What is left after the entry of plant p is taken out: the entries of the
\* other plants, still one for each.
LEMMA OthersAreOthers ==
  ASSUME NEW s \in Seq(Entries), OnePerPlant(s), NEW p
  PROVE  /\ Others(s, p) \in Seq(Entries)
         /\ Len(Others(s, p)) <= Len(s)
         /\ OnePerPlant(Others(s, p))
         /\ \A k \in DOMAIN Others(s, p) :
              /\ Others(s, p)[k].plant # p
              /\ \E j \in DOMAIN s : Others(s, p)[k] = s[j]
<1>1. CASE EntryOf(s, p) = {}
  BY <1>1 DEF Others, EntryOf
<1>2. CASE EntryOf(s, p) # {}
  <2> DEFINE i == CHOOSE x \in EntryOf(s, p) : TRUE
             o == RemoveAt(s, i)
  <2>1. i \in 1..Len(s) /\ s[i].plant = p
    BY <1>2 DEF EntryOf
  <2> HIDE DEF i
  <2>2. /\ o \in Seq(Entries) /\ Len(o) = Len(s) - 1
        /\ \A k \in 1..Len(s) - 1 : o[k] = IF k < i THEN s[k] ELSE s[k + 1]
    BY <2>1, RemoveAtShifts
  <2>3. Others(s, p) = o
    BY <1>2 DEF Others, i
  <2> HIDE DEF o
  <2>4. ASSUME NEW k \in DOMAIN o
        PROVE  \E j \in DOMAIN s : j # i /\ o[k] = s[j] /\ j = IF k < i THEN k ELSE k + 1
    BY <2>1, <2>2
  <2>5. \A k \in DOMAIN o : o[k].plant # p
    BY <2>1, <2>4 DEF OnePerPlant
  <2>6. OnePerPlant(o)
    <3> SUFFICES ASSUME NEW k \in DOMAIN o, NEW l \in DOMAIN o, o[k].plant = o[l].plant
                 PROVE  k = l
      BY DEF OnePerPlant
    <3>1. PICK jk \in DOMAIN s : o[k] = s[jk] /\ jk = IF k < i THEN k ELSE k + 1
      BY <2>4
    <3>2. PICK jl \in DOMAIN s : o[l] = s[jl] /\ jl = IF l < i THEN l ELSE l + 1
      BY <2>4
    <3>3. jk = jl
      BY <3>1, <3>2 DEF OnePerPlant
    <3> QED  BY <3>1, <3>2, <3>3, <2>1, <2>2
  <2> QED  BY <2>2, <2>3, <2>4, <2>5, <2>6
<1> QED  BY <1>1, <1>2

\* Added keeps the list within its size and to one entry for a plant; what it
\* holds is the new entry or one that was there.
LEMMA AddedKeeps ==
  ASSUME NEW s \in Seq(Entries), OnePerPlant(s), NEW e \in Entries
  PROVE  /\ Added(s, e) \in Seq(Entries)
         /\ Len(Added(s, e)) <= CacheSize
         /\ OnePerPlant(Added(s, e))
         /\ \A k \in DOMAIN Added(s, e) :
              \/ Added(s, e)[k] = e
              \/ \E j \in DOMAIN s : Added(s, e)[k] = s[j]
<1> DEFINE o == Others(s, e.plant)
           all == <<e>> \o o
<1>1. /\ o \in Seq(Entries) /\ OnePerPlant(o)
      /\ \A k \in DOMAIN o : o[k].plant # e.plant /\ \E j \in DOMAIN s : o[k] = s[j]
  BY OthersAreOthers
<1> HIDE DEF o
<1>2. /\ all \in Seq(Entries) /\ Len(all) = Len(o) + 1 /\ all[1] = e
      /\ \A k \in 2..Len(o) + 1 : k - 1 \in DOMAIN o /\ all[k] = o[k - 1]
  BY <1>1
<1> HIDE DEF all
<1>3. OnePerPlant(all)
  <2> SUFFICES ASSUME NEW k \in DOMAIN all, NEW l \in DOMAIN all,
                      all[k].plant = all[l].plant
               PROVE  k = l
    BY DEF OnePerPlant
  <2>1. CASE k = 1 /\ l # 1
    BY <2>1, <1>1, <1>2
  <2>2. CASE k # 1 /\ l = 1
    BY <2>2, <1>1, <1>2
  <2>3. CASE k # 1 /\ l # 1
    <3>1. k - 1 \in DOMAIN o /\ l - 1 \in DOMAIN o /\ all[k] = o[k - 1] /\ all[l] = o[l - 1]
      BY <2>3, <1>2
    <3>2. k - 1 = l - 1
      BY <3>1, <1>1 DEF OnePerPlant
    <3> QED  BY <3>2, <1>2
  <2> QED  BY <2>1, <2>2, <2>3
<1>4. \A k \in DOMAIN all : all[k] = e \/ \E j \in DOMAIN s : all[k] = s[j]
  BY <1>1, <1>2
<1>5. CacheSize \in Nat
  BY CacheAssumption
<1>6. Added(s, e) = IF Len(all) > CacheSize THEN SubSeq(all, 1, CacheSize) ELSE all
  BY DEF Added, all, o
<1>7. CASE Len(all) > CacheSize
  <2> DEFINE q == SubSeq(all, 1, CacheSize)
  <2>1. q \in Seq(Entries) /\ Len(q) = CacheSize /\ \A k \in 1..CacheSize : q[k] = all[k]
    BY <1>2, <1>5, <1>7
  <2> HIDE DEF q
  <2>2. \A k \in DOMAIN q : k \in DOMAIN all /\ q[k] = all[k]
    BY <2>1, <1>2, <1>5, <1>7
  <2>3. OnePerPlant(q)
    BY <2>2, <1>3 DEF OnePerPlant
  <2>4. Added(s, e) = q
    BY <1>6, <1>7 DEF q
  <2> QED  BY <2>1, <2>2, <2>3, <2>4, <1>4, <1>5
<1>8. CASE ~(Len(all) > CacheSize)
  BY <1>2, <1>3, <1>4, <1>5, <1>6, <1>8
<1> QED  BY <1>7, <1>8

-----------------------------------------------------------------------------
(* The cache *)

\* Where a lookup is, and what it holds there.
LookupsPlaced ==
  \A c \in Callers :
    /\ lookup[c].at # "idle" => lookup[c].plant \in Plants
    /\ lookup[c].at = "add" => lookup[c].answer \in {"yes", "no"}

Lookups == [at : {"idle", "query", "add", "answered"},
            plant : Plants \cup {NoPlant}, answer : Answers]

CacheTyped ==
  /\ plants \subseteq Plants
  /\ cache \in [Processes -> Seq(Entries)]
  /\ \A r \in Processes : Len(cache[r]) <= CacheSize /\ OnePerPlant(cache[r])
  /\ lookup \in [Callers -> Lookups]
  /\ plantsAtStart \in [Processes -> SUBSET Plants]

\* Plants are never deleted, so each process started with some of them.
StartsWithin == \A r \in Processes : plantsAtStart[r] \subseteq plants

CachesJustified ==
  \A r \in Processes : \A i \in DOMAIN cache[r] :
    Justified(r, cache[r][i].plant, cache[r][i].exists)

LookupJustified(c) ==
  lookup[c].answer \in {"yes", "no"} =>
    Justified(ProcessOf[c], lookup[c].plant, lookup[c].answer = "yes")

CacheIsTrue ==
  /\ CacheTyped /\ LookupsPlaced /\ StartsWithin
  /\ CachesJustified
  /\ \A c \in Callers : LookupJustified(c)

LEMMA CacheIsTrueInit ==
  ASSUME CacheInit
  PROVE  CacheIsTrue
<1> USE CacheAssumption DEF CacheInit
<1>1. CacheTyped
  BY DEF CacheTyped, OnePerPlant, Lookups, NoLookup, Answers
<1>2. LookupsPlaced /\ StartsWithin
  BY DEF LookupsPlaced, StartsWithin, NoLookup
<1>3. CachesJustified /\ \A c \in Callers : LookupJustified(c)
  BY DEF CachesJustified, LookupJustified, NoLookup
<1> QED  BY <1>1, <1>2, <1>3 DEF CacheIsTrue

\* An entry that is justified keeps the cache in order.
LEMMA JustifiedEntry ==
  ASSUME CacheIsTrue, NEW r \in Processes, NEW e \in Entries,
         Justified(r, e.plant, e.exists),
         cache' = [cache EXCEPT ![r] = Added(@, e)],
         plants' = plants, plantsAtStart' = plantsAtStart
  PROVE  /\ cache' \in [Processes -> Seq(Entries)]
         /\ \A q \in Processes : Len(cache'[q]) <= CacheSize /\ OnePerPlant(cache'[q])
         /\ CachesJustified'
<1> DEFINE a == Added(cache[r], e)
<1>1. /\ a \in Seq(Entries) /\ Len(a) <= CacheSize /\ OnePerPlant(a)
      /\ \A k \in DOMAIN a : a[k] = e \/ \E j \in DOMAIN cache[r] : a[k] = cache[r][j]
  BY AddedKeeps DEF CacheIsTrue, CacheTyped
<1> HIDE DEF a
<1>2. \A q \in Processes : cache'[q] = IF q = r THEN a ELSE cache[q]
  BY DEF a, CacheIsTrue, CacheTyped
<1>3. cache' \in [Processes -> Seq(Entries)]
  BY <1>1 DEF a, CacheIsTrue, CacheTyped
<1>4. \A q \in Processes : Len(cache'[q]) <= CacheSize /\ OnePerPlant(cache'[q])
  BY <1>1, <1>2 DEF CacheIsTrue, CacheTyped
<1>5. ASSUME NEW q \in Processes, NEW i \in DOMAIN cache'[q]
      PROVE  Justified(q, cache'[q][i].plant, cache'[q][i].exists)
  <2>1. \A j \in DOMAIN cache[q] : Justified(q, cache[q][j].plant, cache[q][j].exists)
    BY DEF CacheIsTrue, CachesJustified
  <2>2. CASE q = r
    <3>1. cache'[q] = a
      BY <2>2, <1>2
    <3>2. CASE a[i] = e
      BY <2>2, <3>1, <3>2
    <3>3. CASE \E j \in DOMAIN cache[r] : a[i] = cache[r][j]
      BY <2>1, <2>2, <3>1, <3>3
    <3> QED  BY <1>1, <3>1, <3>2, <3>3
  <2>3. CASE q # r
    BY <2>1, <2>3, <1>2
  <2> QED  BY <2>2, <2>3
<1> QED  BY <1>3, <1>4, <1>5 DEF CachesJustified, Justified

\* One lookup changes: the others stay what they were.
LEMMA LookupMoves ==
  ASSUME CacheIsTrue, NEW c \in Callers, NEW l \in Lookups,
         lookup' = [lookup EXCEPT ![c] = l],
         plants' = plants, plantsAtStart' = plantsAtStart,
         l.at # "idle" => l.plant \in Plants,
         l.at = "add" => l.answer \in {"yes", "no"},
         l.answer \in {"yes", "no"} => Justified(ProcessOf[c], l.plant, l.answer = "yes")
  PROVE  /\ lookup' \in [Callers -> Lookups]
         /\ LookupsPlaced'
         /\ \A d \in Callers : LookupJustified(d)'
<1>1. \A d \in Callers : lookup'[d] = IF d = c THEN l ELSE lookup[d]
  BY DEF CacheIsTrue, CacheTyped
<1>2. lookup' \in [Callers -> Lookups]
  BY DEF CacheIsTrue, CacheTyped
<1>3. LookupsPlaced'
  BY <1>1 DEF LookupsPlaced, CacheIsTrue
<1>4. \A d \in Callers : LookupJustified(d)'
  BY <1>1 DEF LookupJustified, Justified, CacheIsTrue
<1> QED  BY <1>2, <1>3, <1>4

LEMMA NoLookupIsTrue ==
  ASSUME CacheIsTrue, NEW c \in Callers,
         lookup' = [lookup EXCEPT ![c] = NoLookup],
         UNCHANGED <<plants, cache, plantsAtStart>>
  PROVE  CacheIsTrue'
<1>1. NoLookup \in Lookups
  BY DEF NoLookup, Lookups, Answers
<1>2. /\ lookup' \in [Callers -> Lookups] /\ LookupsPlaced'
      /\ \A d \in Callers : LookupJustified(d)'
  BY <1>1, LookupMoves DEF NoLookup
<1> QED  BY <1>2 DEF CacheIsTrue, CacheTyped, StartsWithin, CachesJustified, Justified

LEMMA CreatePlantIsTrue ==
  ASSUME CacheIsTrue, NEW p \in Plants, CreatePlant(p)
  PROVE  CacheIsTrue'
<1> USE DEF CreatePlant, CacheIsTrue
<1>1. CacheTyped' /\ LookupsPlaced' /\ StartsWithin'
  BY DEF CacheTyped, LookupsPlaced, StartsWithin
<1>2. CachesJustified'
  BY DEF CachesJustified, Justified
<1>3. \A c \in Callers : LookupJustified(c)'
  BY DEF LookupJustified, Justified
<1> QED  BY <1>1, <1>2, <1>3

LEMMA GetFromCacheIsTrue ==
  ASSUME CacheIsTrue, NEW c \in Callers, NEW p \in Plants, GetFromCache(c, p)
  PROVE  CacheIsTrue'
<1>0. ProcessOf[c] \in Processes
  BY CacheAssumption
<1>1. CASE \E e \in CachedEntries(c, p) :
             /\ cache' = [cache EXCEPT ![ProcessOf[c]] = Added(@, e)]
             /\ lookup' = [lookup EXCEPT
                  ![c] = [at |-> "answered", plant |-> p, answer |-> Yes(e.exists)]]
  <2> DEFINE r == ProcessOf[c]
  <2>1. PICK e \in CachedEntries(c, p) :
             /\ cache' = [cache EXCEPT ![r] = Added(@, e)]
             /\ lookup' = [lookup EXCEPT
                  ![c] = [at |-> "answered", plant |-> p, answer |-> Yes(e.exists)]]
    BY <1>1
  <2>2. PICK i \in DOMAIN cache[r] : e = cache[r][i] /\ e.plant = p
    BY DEF CachedEntries
  <2>3. e \in Entries
    <3>1. cache[r] \in Seq(Entries)
      BY <1>0 DEF CacheIsTrue, CacheTyped
    <3> QED  BY <3>1, <2>2
  <2>4. Justified(r, p, e.exists)
    BY <1>0, <2>2 DEF CacheIsTrue, CachesJustified
  <2>5. plants' = plants /\ plantsAtStart' = plantsAtStart
    BY DEF GetFromCache
  <2>6. /\ cache' \in [Processes -> Seq(Entries)]
        /\ \A q \in Processes : Len(cache'[q]) <= CacheSize /\ OnePerPlant(cache'[q])
        /\ CachesJustified'
    BY <1>0, <2>1, <2>2, <2>3, <2>4, <2>5, JustifiedEntry
  <2> DEFINE l == [at |-> "answered", plant |-> p, answer |-> Yes(e.exists)]
  <2>7. /\ l \in Lookups /\ l.at = "answered" /\ l.plant = p
        /\ (l.answer = "yes") = e.exists
    BY <2>3 DEF Lookups, Answers, Yes, Entries
  <2> HIDE DEF l
  <2>8. /\ lookup' \in [Callers -> Lookups] /\ LookupsPlaced'
        /\ \A d \in Callers : LookupJustified(d)'
    <3>1. Justified(r, l.plant, l.answer = "yes")
      BY <2>4, <2>7
    <3>2. lookup' = [lookup EXCEPT ![c] = l]
      BY <2>1 DEF l
    <3> QED  BY <3>1, <3>2, <2>5, <2>7, LookupMoves
  <2> QED  BY <2>5, <2>6, <2>8 DEF CacheIsTrue, CacheTyped, StartsWithin
<1>2. CASE /\ lookup' = [lookup EXCEPT
                ![c] = [at |-> "query", plant |-> p, answer |-> "none"]]
           /\ UNCHANGED cache
  <2> DEFINE l == [at |-> "query", plant |-> p, answer |-> "none"]
  <2>1. l \in Lookups /\ l.at = "query" /\ l.plant = p /\ l.answer = "none"
    BY DEF Lookups, Answers
  <2> HIDE DEF l
  <2>2. /\ lookup' = [lookup EXCEPT ![c] = l]
        /\ plants' = plants /\ plantsAtStart' = plantsAtStart /\ cache' = cache
    BY <1>2 DEF l, GetFromCache
  <2>3. /\ lookup' \in [Callers -> Lookups] /\ LookupsPlaced'
        /\ \A d \in Callers : LookupJustified(d)'
    BY <2>1, <2>2, LookupMoves
  <2> QED
    BY <2>2, <2>3 DEF CacheIsTrue, CacheTyped, StartsWithin, CachesJustified, Justified
<1> QED  BY <1>1, <1>2 DEF GetFromCache

\* The count is taken in the table as it is; what it says stays justified.
LEMMA CountIsTrue ==
  ASSUME CacheIsTrue, NEW c \in Callers, CountPlants(c) \/ CountFails(c)
  PROVE  CacheIsTrue'
<1>0. lookup[c] \in Lookups /\ lookup[c].plant \in Plants /\ ProcessOf[c] \in Processes
  BY CacheAssumption DEF CountPlants, CountFails, CacheIsTrue, CacheTyped, LookupsPlaced
<1>1. PICK l \in Lookups :
        /\ lookup' = [lookup EXCEPT ![c] = l]
        /\ l.at # "idle" => l.plant \in Plants
        /\ l.at = "add" => l.answer \in {"yes", "no"}
        /\ l.answer \in {"yes", "no"} => Justified(ProcessOf[c], l.plant, l.answer = "yes")
  <2>1. CASE CountPlants(c)
    <3> DEFINE l == [at |-> "add", plant |-> lookup[c].plant,
                     answer |-> Yes(lookup[c].plant \in plants)]
    <3>1. /\ l \in Lookups /\ l.at = "add" /\ l.plant = lookup[c].plant
          /\ l.answer \in {"yes", "no"} /\ (l.answer = "yes" <=> l.plant \in plants)
      BY <1>0 DEF Lookups, Answers, Yes
    <3>2. lookup' = [lookup EXCEPT ![c] = l]
      BY <2>1, <1>0 DEF CountPlants, CacheIsTrue, CacheTyped
    <3> HIDE DEF l
    <3>3. Justified(ProcessOf[c], l.plant, l.answer = "yes")
      <4>1. plantsAtStart[ProcessOf[c]] \subseteq plants
        BY <1>0 DEF CacheIsTrue, StartsWithin
      <4>2. CASE l.plant \in plants
        BY <3>1, <4>2 DEF Justified
      <4>3. CASE l.plant \notin plants
        BY <3>1, <4>1, <4>3 DEF Justified
      <4> QED  BY <4>2, <4>3
    <3> QED  BY <3>1, <3>2, <3>3, <1>0
  <2>2. CASE CountFails(c)
    <3> DEFINE l == [at |-> "answered", plant |-> lookup[c].plant, answer |-> "error"]
    <3>1. /\ l \in Lookups /\ l.at = "answered" /\ l.plant = lookup[c].plant
          /\ l.answer = "error"
      BY <1>0 DEF Lookups, Answers
    <3>2. lookup' = [lookup EXCEPT ![c] = l]
      BY <2>2, <1>0 DEF CountFails, CacheIsTrue, CacheTyped
    <3> HIDE DEF l
    <3> QED  BY <3>1, <3>2, <1>0
  <2> QED  BY <2>1, <2>2
<1>2. UNCHANGED <<plants, cache, plantsAtStart>>
  BY DEF CountPlants, CountFails
<1>3. /\ lookup' \in [Callers -> Lookups] /\ LookupsPlaced'
      /\ \A d \in Callers : LookupJustified(d)'
  BY <1>1, <1>2, LookupMoves
<1> QED
  BY <1>2, <1>3 DEF CacheIsTrue, CacheTyped, StartsWithin, CachesJustified, Justified

LEMMA AddToCacheIsTrue ==
  ASSUME CacheIsTrue, NEW c \in Callers, AddToCache(c)
  PROVE  CacheIsTrue'
<1> DEFINE r == ProcessOf[c]
           e == [plant |-> lookup[c].plant, exists |-> lookup[c].answer = "yes"]
           l == [at |-> "answered", plant |-> lookup[c].plant, answer |-> lookup[c].answer]
<1>1. /\ lookup[c] \in Lookups /\ lookup[c].plant \in Plants /\ r \in Processes
      /\ lookup[c].answer \in {"yes", "no"}
  BY CacheAssumption DEF AddToCache, CacheIsTrue, CacheTyped, LookupsPlaced
<1>2. /\ e \in Entries /\ e.plant = lookup[c].plant
      /\ e.exists = (lookup[c].answer = "yes")
  BY <1>1 DEF Entries
<1>3. Justified(r, lookup[c].plant, lookup[c].answer = "yes")
  BY <1>1 DEF CacheIsTrue, LookupJustified
<1>4. /\ l \in Lookups /\ l.at = "answered"
      /\ l.plant = lookup[c].plant /\ l.answer = lookup[c].answer
  BY <1>1 DEF Lookups, Answers
<1>5. /\ cache' = [cache EXCEPT ![r] = Added(@, e)]
      /\ lookup' = [lookup EXCEPT ![c] = l]
      /\ plants' = plants /\ plantsAtStart' = plantsAtStart
  <2>1. [lookup[c] EXCEPT !.at = "answered"] = l
    BY <1>1 DEF Lookups
  <2>2. lookup' = [lookup EXCEPT ![c] = [@ EXCEPT !.at = "answered"]]
    BY <1>1 DEF AddToCache, Lookups, CacheIsTrue, CacheTyped
  <2> QED  BY <2>1, <2>2 DEF AddToCache
<1> HIDE DEF e, l
<1>6. Justified(r, e.plant, e.exists)
  BY <1>2, <1>3
<1>7. Justified(r, l.plant, l.answer = "yes")
  BY <1>3, <1>4
<1>8. /\ cache' \in [Processes -> Seq(Entries)]
      /\ \A q \in Processes : Len(cache'[q]) <= CacheSize /\ OnePerPlant(cache'[q])
      /\ CachesJustified'
  BY <1>1, <1>2, <1>5, <1>6, JustifiedEntry
<1>9. /\ lookup' \in [Callers -> Lookups] /\ LookupsPlaced'
      /\ \A d \in Callers : LookupJustified(d)'
  BY <1>1, <1>4, <1>5, <1>7, LookupMoves
<1> QED  BY <1>5, <1>8, <1>9 DEF CacheIsTrue, CacheTyped, StartsWithin

\* A restart leaves the process without entries and calls, and starts its history
\* with the table as it is then.
LEMMA RestartIsTrue ==
  ASSUME CacheIsTrue, NEW r \in Processes, RestartProcess(r)
  PROVE  CacheIsTrue'
<1> USE DEF RestartProcess, CacheIsTrue
<1>1. /\ cache' \in [Processes -> Seq(Entries)]
      /\ \A q \in Processes : cache'[q] = IF q = r THEN <<>> ELSE cache[q]
  BY DEF CacheTyped
<1>2. /\ \A c \in Callers : lookup'[c] = IF ProcessOf[c] = r THEN NoLookup ELSE lookup[c]
      /\ lookup' \in [Callers -> Lookups]
  BY DEF CacheTyped, Lookups, NoLookup, Answers
<1>3. /\ \A q \in Processes : plantsAtStart'[q] = IF q = r THEN plants ELSE plantsAtStart[q]
      /\ plantsAtStart' \in [Processes -> SUBSET Plants]
  BY DEF CacheTyped
<1>4. CacheTyped'
  <2>1. Len(<<>>) <= CacheSize /\ OnePerPlant(<<>>)
    BY CacheAssumption DEF OnePerPlant
  <2>2. \A q \in Processes : Len(cache'[q]) <= CacheSize /\ OnePerPlant(cache'[q])
    BY <2>1, <1>1 DEF CacheTyped
  <2> QED  BY <1>1, <1>2, <1>3, <2>2 DEF CacheTyped
<1>5. LookupsPlaced'
  BY <1>2 DEF LookupsPlaced, NoLookup
<1>6. StartsWithin'
  BY <1>3 DEF StartsWithin
<1>7. CachesJustified'
  BY <1>1, <1>3 DEF CachesJustified, Justified
<1>8. ASSUME NEW c \in Callers
      PROVE  LookupJustified(c)'
  BY <1>2, <1>3, CacheAssumption DEF LookupJustified, Justified, NoLookup
<1> QED  BY <1>4, <1>5, <1>6, <1>7, <1>8

LEMMA CacheFramed ==
  ASSUME CacheIsTrue, UNCHANGED cacheVars
  PROVE  CacheIsTrue'
BY DEF CacheIsTrue, cacheVars, CacheTyped, LookupsPlaced, StartsWithin, CachesJustified,
       LookupJustified, Justified

-----------------------------------------------------------------------------
(* The types of the consumers *)

Tasks == [at : TaskPlaces, attempt : 0..maxRetries]

\* A process that is handling a message has read one.
TasksHaveMessage == \A r \in Processes : task[r].at # "idle" => position[r] \in Messages

GroupTyped ==
  /\ owner \in Processes /\ position \in [Processes -> 0..MaxOffset]
  /\ committed \in 0..MaxOffset
  /\ task \in [Processes -> Tasks]
  /\ status \in [Plants -> 0..MaxOffset]
  /\ delivered \in [Messages -> Nat] /\ accepted \in [Messages -> Nat]
  /\ done \subseteq Messages /\ behind \subseteq Plants
  /\ TasksHaveMessage

ProcessingInvariant == CacheIsTrue /\ GroupTyped

LEMMA TypesOfProcessing ==
  ASSUME ProcessingInvariant
  PROVE  ProcessingTypeOK
BY DEF ProcessingInvariant, CacheIsTrue, CacheTyped, GroupTyped, ProcessingTypeOK, OnePerPlant,
       Lookups, Tasks

LEMMA MessageInHand ==
  ASSUME GroupTyped, NEW r \in Processes, task[r].at # "idle"
  PROVE  Message(r) \in Messages /\ Plant(r) \in Plants /\ Message(r) \in 1..MaxOffset
BY ProcessingAssumption DEF GroupTyped, TasksHaveMessage, Message, Plant, Messages

LEMMA GoesTo ==
  ASSUME GroupTyped, NEW r \in Processes, NEW place \in TaskPlaces, Go(r, place)
  PROVE  /\ task' \in [Processes -> Tasks]
         /\ task'[r].at = place
         /\ \A q \in Processes \ {r} : task'[q] = task[q]
BY DEF GroupTyped, Go, Tasks

LEMMA TriesAgainOrFails ==
  ASSUME GroupTyped, NEW r \in Processes, FailTransient(r)
  PROVE  /\ task' \in [Processes -> Tasks]
         /\ task'[r].at \in {"extract", "failed"}
         /\ \A q \in Processes \ {r} : task'[q] = task[q]
<1> DEFINE t == IF task[r].attempt < maxRetries
                THEN [at |-> "extract", attempt |-> task[r].attempt + 1]
                ELSE [task[r] EXCEPT !.at = "failed"]
<1>1. task[r] \in Tasks /\ maxRetries \in Nat
  BY ProcessingAssumption DEF GroupTyped
<1>2. t \in Tasks /\ t.at \in {"extract", "failed"}
  BY <1>1 DEF Tasks, TaskPlaces
<1>3. task' = [task EXCEPT ![r] = t]
  BY DEF FailTransient, GroupTyped
<1> HIDE DEF t
<1> QED  BY <1>2, <1>3 DEF GroupTyped

LEMMA GroupTypedInit ==
  ASSUME ProcessingInit
  PROVE  GroupTyped
BY ProcessingAssumption
   DEF ProcessingInit, GroupTyped, TasksHaveMessage, Tasks, TaskPlaces, NoTask, Messages

\* While a message is handled the process keeps it in hand.
LEMMA HandlingTyped ==
  ASSUME GroupTyped, NEW r \in Processes, task[r].at # "idle",
         task' \in [Processes -> Tasks],
         \A q \in Processes \ {r} : task'[q] = task[q],
         UNCHANGED <<groupVars, delivered, done>>,
         status' \in [Plants -> 0..MaxOffset],
         accepted' \in [Messages -> Nat],
         behind' \subseteq Plants
  PROVE  GroupTyped'
BY DEF GroupTyped, TasksHaveMessage, groupVars

LEMMA GroupTypedStep ==
  ASSUME GroupTyped, [ProcessingNext]_processingVars
  PROVE  GroupTyped'
<1> USE ProcessingAssumption
<1>1. ASSUME NEW r \in Processes, ReadMessage(r)
      PROVE  GroupTyped'
  BY <1>1 DEF ReadMessage, GroupTyped, TasksHaveMessage, Tasks, TaskPlaces, Messages
<1>2. ASSUME NEW r \in Processes, ExtractPlantInfo(r)
      PROVE  GroupTyped'
  <2>1. Go(r, "failed") \/ Go(r, "exists")
    BY <1>2 DEF ExtractPlantInfo
  <2>2. /\ task' \in [Processes -> Tasks]
        /\ \A q \in Processes \ {r} : task'[q] = task[q]
    BY <2>1, GoesTo DEF TaskPlaces
  <2> QED
    BY <1>2, <2>2, HandlingTyped DEF ExtractPlantInfo, groupVars, deliveryHistory, GroupTyped
<1>3. ASSUME NEW r \in Processes, ValidateEvent(r)
      PROVE  GroupTyped'
  <2>1. FailTransient(r) \/ Go(r, "failed") \/ Go(r, "persist")
    BY <1>3 DEF ValidateEvent
  <2>2. /\ task' \in [Processes -> Tasks]
        /\ \A q \in Processes \ {r} : task'[q] = task[q]
    BY <2>1, GoesTo, TriesAgainOrFails DEF TaskPlaces
  <2> QED
    BY <1>3, <2>2, HandlingTyped DEF ValidateEvent, groupVars, deliveryHistory, GroupTyped
<1>4. ASSUME NEW r \in Processes, PersistEvents(r)
      PROVE  GroupTyped'
  <2>1. FailTransient(r) \/ Go(r, "status")
    BY <1>4 DEF PersistEvents
  <2>2. /\ task' \in [Processes -> Tasks]
        /\ \A q \in Processes \ {r} : task'[q] = task[q]
    BY <2>1, GoesTo, TriesAgainOrFails DEF TaskPlaces
  <2>3. Message(r) \in Messages
    BY <1>4, MessageInHand DEF PersistEvents
  <2>4. accepted' \in [Messages -> Nat]
    BY <1>4, <2>3 DEF PersistEvents, GroupTyped
  <2> QED
    BY <1>4, <2>2, <2>4, HandlingTyped DEF PersistEvents, groupVars, GroupTyped
<1>5. ASSUME NEW r \in Processes, UpdatePlantStatus(r) \/ UpdateStatusFails(r)
      PROVE  GroupTyped'
  <2>1. task[r].at # "idle" /\ Go(r, "done")
    BY <1>5 DEF UpdatePlantStatus, UpdateStatusFails
  <2>2. /\ task' \in [Processes -> Tasks]
        /\ \A q \in Processes \ {r} : task'[q] = task[q]
    BY <2>1, GoesTo DEF TaskPlaces
  <2>3. Message(r) \in 1..MaxOffset /\ Plant(r) \in Plants
    BY <2>1, MessageInHand
  <2>4. status' \in [Plants -> 0..MaxOffset] /\ behind' \subseteq Plants
    BY <1>5, <2>3 DEF UpdatePlantStatus, UpdateStatusFails, Upsert, GroupTyped
  <2> QED
    BY <1>5, <2>1, <2>2, <2>4, HandlingTyped
    DEF UpdatePlantStatus, UpdateStatusFails, groupVars, deliveryHistory, GroupTyped
<1>6. ASSUME NEW r \in Processes, CommitMessage(r)
      PROVE  GroupTyped'
  <2>1. Message(r) \in Messages /\ position[r] \in 0..MaxOffset
    BY <1>6, MessageInHand DEF CommitMessage, GroupTyped
  <2> QED
    BY <1>6, <2>1 DEF CommitMessage, GroupTyped, TasksHaveMessage, Tasks, TaskPlaces, NoTask
<1>7. ASSUME NEW r \in Processes, Rebalance(r)
      PROVE  GroupTyped'
  BY <1>7 DEF Rebalance, deliveryHistory, GroupTyped, TasksHaveMessage
<1>8. ASSUME NEW r \in Processes, RestartProcess(r)
      PROVE  GroupTyped'
  BY <1>8 DEF RestartProcess, deliveryHistory, GroupTyped, TasksHaveMessage, Tasks,
              TaskPlaces, NoTask
<1>9. ASSUME UNCHANGED <<groupVars, task, status, deliveryHistory, behind>>
      PROVE  GroupTyped'
  BY <1>9 DEF groupVars, deliveryHistory, GroupTyped, TasksHaveMessage
<1> QED
  BY <1>1, <1>2, <1>3, <1>4, <1>5, <1>6, <1>7, <1>8, <1>9
  DEF ProcessingNext, ProcessStep, TestIntake, TestAnswered, CacheAlone, processingVars

\* What the caches hold stays true in every step.
LEMMA CacheIsTrueStep ==
  ASSUME CacheIsTrue, GroupTyped, [ProcessingNext]_processingVars
  PROVE  CacheIsTrue'
<1> USE ProcessingAssumption
<1>1. ASSUME NEW r \in Processes, ExtractPlantInfo(r)
      PROVE  CacheIsTrue'
  <2>1. Plant(r) \in Plants
    BY <1>1, MessageInHand DEF ExtractPlantInfo
  <2> QED  BY <1>1, <2>1, GetFromCacheIsTrue, CacheFramed DEF ExtractPlantInfo
<1>2. ASSUME NEW r \in Processes, ValidateEvent(r)
      PROVE  CacheIsTrue'
  BY <1>2, NoLookupIsTrue DEF ValidateEvent
<1>3. ASSUME NEW h \in TestHandlers, TestIntake(h)
      PROVE  CacheIsTrue'
  BY <1>3, GetFromCacheIsTrue DEF TestIntake
<1>4. ASSUME NEW h \in TestHandlers, TestAnswered(h)
      PROVE  CacheIsTrue'
  BY <1>4, NoLookupIsTrue DEF TestAnswered
<1>5. CASE CacheAlone
  BY <1>5, CreatePlantIsTrue, CountIsTrue, AddToCacheIsTrue DEF CacheAlone
<1>6. ASSUME NEW r \in Processes, RestartProcess(r)
      PROVE  CacheIsTrue'
  BY <1>6, RestartIsTrue
<1>7. ASSUME UNCHANGED cacheVars
      PROVE  CacheIsTrue'
  BY <1>7, CacheFramed
<1> QED
  BY <1>1, <1>2, <1>3, <1>4, <1>5, <1>6, <1>7
  DEF ProcessingNext, ProcessStep, ReadMessage, PersistEvents, UpdatePlantStatus,
      UpdateStatusFails, CommitMessage, Rebalance, processingVars

-----------------------------------------------------------------------------
(* The committed offset and the status of the plants *)

\* The owner has read no less than is committed, and more while it handles a
\* message; when it has handled it, the plant's status is there, or marked behind.
CommitsInOrder ==
  /\ committed <= position[owner]
  /\ task[owner].at # "idle" => committed < position[owner]
  /\ done \subseteq 1..committed
  /\ task[owner].at = "done" => \/ Plant(owner) \in behind
                                \/ status[Plant(owner)] >= Message(owner)
  /\ StatusNotBehindCommit

LEMMA CommitsInOrderInit ==
  ASSUME ProcessingInit
  PROVE  CommitsInOrder
BY DEF ProcessingInit, CommitsInOrder, StatusNotBehindCommit, NoTask

\* A step of a task that is not the owner's upsert keeps the order.
LEMMA TaskMovesInOrder ==
  ASSUME GroupTyped, CommitsInOrder, NEW r \in Processes, task[r].at # "idle",
         \A q \in Processes \ {r} : task'[q] = task[q],
         task'[r].at # "done",
         UNCHANGED <<groupVars, done, status, behind>>
  PROVE  CommitsInOrder'
BY DEF GroupTyped, CommitsInOrder, StatusNotBehindCommit, groupVars, Message, Plant

LEMMA CommitsInOrderStep ==
  ASSUME GroupTyped, CommitsInOrder, [ProcessingNext]_processingVars
  PROVE  CommitsInOrder'
<1> USE ProcessingAssumption
<1>1. ASSUME NEW r \in Processes, ReadMessage(r)
      PROVE  CommitsInOrder'
  <2>1. /\ owner' = owner /\ r = owner /\ committed' = committed
        /\ position'[owner] = position[owner] + 1
        /\ task'[owner].at = "extract"
        /\ position[owner] \in Nat /\ committed \in Nat
        /\ UNCHANGED <<done, status, behind>>
    BY <1>1 DEF ReadMessage, GroupTyped
  <2> QED  BY <2>1 DEF CommitsInOrder, StatusNotBehindCommit
<1>2. ASSUME NEW r \in Processes, ExtractPlantInfo(r)
      PROVE  CommitsInOrder'
  <2>1. Go(r, "failed") \/ Go(r, "exists")
    BY <1>2 DEF ExtractPlantInfo
  <2>2. /\ task'[r].at # "done" /\ \A q \in Processes \ {r} : task'[q] = task[q]
    BY <2>1, GoesTo DEF TaskPlaces
  <2> QED  BY <1>2, <2>2, TaskMovesInOrder DEF ExtractPlantInfo, deliveryHistory
<1>3. ASSUME NEW r \in Processes, ValidateEvent(r)
      PROVE  CommitsInOrder'
  <2>1. FailTransient(r) \/ Go(r, "failed") \/ Go(r, "persist")
    BY <1>3 DEF ValidateEvent
  <2>2. /\ task'[r].at # "done" /\ \A q \in Processes \ {r} : task'[q] = task[q]
    BY <2>1, GoesTo, TriesAgainOrFails DEF TaskPlaces
  <2> QED  BY <1>3, <2>2, TaskMovesInOrder DEF ValidateEvent, deliveryHistory
<1>4. ASSUME NEW r \in Processes, PersistEvents(r)
      PROVE  CommitsInOrder'
  <2>1. FailTransient(r) \/ Go(r, "status")
    BY <1>4 DEF PersistEvents
  <2>2. /\ task'[r].at # "done" /\ \A q \in Processes \ {r} : task'[q] = task[q]
    BY <2>1, GoesTo, TriesAgainOrFails DEF TaskPlaces
  <2> QED  BY <1>4, <2>2, TaskMovesInOrder DEF PersistEvents
\* The owner's upsert is of a message after the committed ones; another's leaves
\* the plant behind.
<1>5. ASSUME NEW r \in Processes, UpdatePlantStatus(r)
      PROVE  CommitsInOrder'
  <2>1. /\ task[r].at = "status" /\ Go(r, "done")
        /\ Message(r) \in 1..MaxOffset /\ Plant(r) \in Plants
    BY <1>5, MessageInHand DEF UpdatePlantStatus
  <2>2. task'[r].at = "done" /\ \A q \in Processes \ {r} : task'[q] = task[q]
    BY <2>1, GoesTo DEF TaskPlaces
  <2>3. UNCHANGED <<owner, position, committed, done>>
    BY <1>5 DEF UpdatePlantStatus, groupVars, deliveryHistory
  <2>4. \A p \in Plants : status'[p] = IF p = Plant(r) THEN Message(r) ELSE status[p]
    BY <1>5, <2>1 DEF UpdatePlantStatus, Upsert, GroupTyped
  <2>5. CASE r = owner
    <3>1. behind' = behind \ {Plant(r)}
      BY <1>5, <2>5 DEF UpdatePlantStatus
    <3>2. committed < Message(r)
      BY <2>1, <2>5 DEF CommitsInOrder, Message
    <3>3. status'[Plant(owner)] >= Message(owner)
      BY <2>1, <2>4, <2>5
    <3>4. StatusNotBehindCommit'
      <4> SUFFICES ASSUME NEW p \in Plants \ behind', NEW m \in done, PlantOf[m] = p
                   PROVE  status'[p] >= m
        BY <2>3 DEF StatusNotBehindCommit
      <4>1. CASE p = Plant(r)
        <5>1. m \in 1..committed /\ committed \in Nat
          BY DEF CommitsInOrder, GroupTyped
        <5> QED  BY <5>1, <4>1, <2>1, <2>4, <3>2
      <4>2. CASE p # Plant(r)
        BY <4>2, <2>4, <3>1 DEF CommitsInOrder, StatusNotBehindCommit
      <4> QED  BY <4>1, <4>2
    <3> QED  BY <2>1, <2>2, <2>3, <2>5, <3>3, <3>4 DEF CommitsInOrder, Message, Plant
  <2>6. CASE r # owner
    <3>1. behind' = behind \cup {Plant(r)}
      BY <1>5, <2>6 DEF UpdatePlantStatus
    <3>2. task'[owner] = task[owner]
      BY <2>2, <2>6 DEF GroupTyped
    <3>3. StatusNotBehindCommit'
      BY <2>3, <2>4, <3>1 DEF CommitsInOrder, StatusNotBehindCommit
    <3>4. task[owner].at = "done" => \/ Plant(owner) \in behind'
                                     \/ status'[Plant(owner)] >= Message(owner)
      <4>1. task[owner].at = "done" => Plant(owner) \in Plants
        BY MessageInHand DEF GroupTyped
      <4> QED  BY <4>1, <3>1, <2>4 DEF CommitsInOrder
    <3> QED  BY <2>3, <3>2, <3>3, <3>4 DEF CommitsInOrder, Message, Plant
  <2> QED  BY <2>5, <2>6
<1>6. ASSUME NEW r \in Processes, UpdateStatusFails(r)
      PROVE  CommitsInOrder'
  <2>1. task[r].at = "status" /\ Go(r, "done")
    BY <1>6 DEF UpdateStatusFails
  <2>2. task'[r].at = "done" /\ \A q \in Processes \ {r} : task'[q] = task[q]
    BY <2>1, GoesTo DEF TaskPlaces
  <2>3. /\ UNCHANGED <<owner, position, committed, done, status>>
        /\ behind' = behind \cup {Plant(r)}
    BY <1>6 DEF UpdateStatusFails, groupVars, deliveryHistory
  <2>4. StatusNotBehindCommit'
    BY <2>3 DEF CommitsInOrder, StatusNotBehindCommit
  <2> QED  BY <2>1, <2>2, <2>3, <2>4 DEF CommitsInOrder, Message, Plant, GroupTyped
\* What the owner commits it has handled, and nothing after it is done.
<1>7. ASSUME NEW r \in Processes, CommitMessage(r)
      PROVE  CommitsInOrder'
  <2>1. UNCHANGED <<owner, position, status, behind>>
    BY <1>7 DEF CommitMessage
  <2>2. \A q \in Processes : task'[q] = IF q = r THEN NoTask ELSE task[q]
    BY <1>7 DEF CommitMessage, GroupTyped
  <2>3. CASE UNCHANGED <<committed, done>>
    BY <2>1, <2>2, <2>3
    DEF CommitsInOrder, StatusNotBehindCommit, Message, Plant, NoTask, GroupTyped
  <2>4. CASE /\ r = owner
             /\ committed' = position[r]
             /\ done' = IF task[r].at = "done" THEN done \cup {Message(r)} ELSE done
    <3>1. /\ position[r] \in Nat /\ committed \in Nat /\ committed < position[r]
          /\ Message(r) = position[r]
      BY <1>7, <2>4 DEF CommitMessage, CommitsInOrder, GroupTyped, Message
    <3>2. done' \subseteq 1..committed'
      BY <2>4, <3>1 DEF CommitsInOrder
    <3>3. StatusNotBehindCommit'
      <4> SUFFICES ASSUME NEW p \in Plants \ behind, NEW m \in done', PlantOf[m] = p
                   PROVE  status[p] >= m
        BY <2>1 DEF StatusNotBehindCommit
      <4>1. CASE m \in done
        BY <4>1 DEF CommitsInOrder, StatusNotBehindCommit
      <4>2. CASE m = Message(r) /\ task[r].at = "done"
        BY <4>2, <2>4 DEF CommitsInOrder, Plant
      <4> QED  BY <4>1, <4>2, <2>4
    <3> QED
      BY <2>1, <2>2, <2>4, <3>1, <3>2, <3>3 DEF CommitsInOrder, NoTask, GroupTyped
  <2> QED  BY <1>7, <2>3, <2>4 DEF CommitMessage
<1>8. ASSUME NEW r \in Processes, Rebalance(r)
      PROVE  CommitsInOrder'
  <2>1. /\ owner' = r /\ committed' = committed /\ position'[r] = committed
        /\ task[r].at = "idle" /\ committed \in Nat
        /\ UNCHANGED <<task, done, status, behind>>
    BY <1>8 DEF Rebalance, deliveryHistory, GroupTyped
  <2> QED  BY <2>1 DEF CommitsInOrder, StatusNotBehindCommit
<1>9. ASSUME NEW r \in Processes, RestartProcess(r)
      PROVE  CommitsInOrder'
  <2>1. /\ \A q \in Processes : task'[q] = IF q = r THEN NoTask ELSE task[q]
        /\ \A q \in Processes : position'[q] = IF q = r THEN committed ELSE position[q]
        /\ UNCHANGED <<owner, committed, done, status, behind>>
        /\ owner \in Processes /\ committed \in Nat
    BY <1>9 DEF RestartProcess, deliveryHistory, GroupTyped
  <2>2. CASE r = owner
    BY <2>1, <2>2 DEF CommitsInOrder, StatusNotBehindCommit, NoTask
  <2>3. CASE r # owner
    BY <2>1, <2>3 DEF CommitsInOrder, StatusNotBehindCommit, Message, Plant
  <2> QED  BY <2>2, <2>3
<1>10. ASSUME UNCHANGED <<groupVars, task, status, done, behind>>
       PROVE  CommitsInOrder'
  BY <1>10 DEF CommitsInOrder, StatusNotBehindCommit, groupVars, Message, Plant
<1> QED
  BY <1>1, <1>2, <1>3, <1>4, <1>5, <1>6, <1>7, <1>8, <1>9, <1>10
  DEF ProcessingNext, ProcessStep, TestIntake, TestAnswered, CacheAlone, processingVars,
      deliveryHistory

-----------------------------------------------------------------------------
(* The hand-overs to the writer *)

Before == {"extract", "exists", "persist"}

\* The processes on their way to hand message m over to the writer.
OnTheWay(m) == {r \in Processes : position[r] = m /\ task[r].at \in Before}

\* Each reading of a message pays for one hand-over, made or still to come.
HandOversPaid == \A m \in Messages : accepted[m] + Cardinality(OnTheWay(m)) <= delivered[m]

LEMMA GroupsAreFinite ==
  ASSUME NEW S \in SUBSET Processes
  PROVE  IsFiniteSet(S) /\ Cardinality(S) \in Nat
BY CacheAssumption, FS_Subset, FS_CardinalityType

LEMMA HandOversPaidInit ==
  ASSUME ProcessingInit
  PROVE  HandOversPaid
<1> SUFFICES ASSUME NEW m \in Messages
             PROVE  accepted[m] + Cardinality(OnTheWay(m)) <= delivered[m]
  BY DEF HandOversPaid
<1>1. OnTheWay(m) = {}
  BY DEF OnTheWay, Before, ProcessingInit, NoTask
<1> QED  BY <1>1, FS_EmptySet DEF ProcessingInit

\* Nobody sets out and nobody hands over: what is paid stays paid.
LEMMA NobodySetsOut ==
  ASSUME GroupTyped, HandOversPaid, UNCHANGED <<delivered, accepted>>,
         \A r \in Processes : task'[r].at \in Before =>
                                task[r].at \in Before /\ position'[r] = position[r]
  PROVE  HandOversPaid'
<1> SUFFICES ASSUME NEW m \in Messages
             PROVE  accepted[m] + Cardinality(OnTheWay(m)') <= delivered[m]
  BY DEF HandOversPaid
<1>1. OnTheWay(m)' \subseteq OnTheWay(m)
  BY DEF OnTheWay
<1>2. OnTheWay(m) \in SUBSET Processes /\ OnTheWay(m)' \in SUBSET Processes
  BY DEF OnTheWay
<1>3. Cardinality(OnTheWay(m)') <= Cardinality(OnTheWay(m))
  BY <1>1, <1>2, GroupsAreFinite, FS_Subset
<1>4. Cardinality(OnTheWay(m)') \in Nat /\ Cardinality(OnTheWay(m)) \in Nat
  BY <1>2, GroupsAreFinite
<1> QED  BY <1>3, <1>4 DEF HandOversPaid, GroupTyped

LEMMA HandOversPaidStep ==
  ASSUME GroupTyped, HandOversPaid, [ProcessingNext]_processingVars
  PROVE  HandOversPaid'
<1> USE ProcessingAssumption
<1>0. \A m : OnTheWay(m) \in SUBSET Processes /\ OnTheWay(m)' \in SUBSET Processes
  BY DEF OnTheWay
\* One more reading, and one more process on its way.
<1>1. ASSUME NEW r \in Processes, ReadMessage(r)
      PROVE  HandOversPaid'
  <2> SUFFICES ASSUME NEW m \in Messages
               PROVE  accepted'[m] + Cardinality(OnTheWay(m)') <= delivered'[m]
    BY DEF HandOversPaid
  <2>1. /\ task[r].at = "idle" /\ position[r] + 1 \in Messages
        /\ \A q \in Processes : position'[q] = IF q = r THEN position[r] + 1 ELSE position[q]
        /\ \A q \in Processes \ {r} : task'[q] = task[q]
        /\ task'[r].at = "extract"
        /\ accepted' = accepted
        /\ delivered'[m] = IF m = position[r] + 1 THEN delivered[m] + 1 ELSE delivered[m]
    BY <1>1 DEF ReadMessage, GroupTyped, Messages
  <2>2. /\ accepted[m] + Cardinality(OnTheWay(m)) <= delivered[m]
        /\ accepted[m] \in Nat /\ delivered[m] \in Nat
    BY DEF HandOversPaid, GroupTyped
  <2>3. IsFiniteSet(OnTheWay(m)) /\ Cardinality(OnTheWay(m)) \in Nat
    BY <1>0, GroupsAreFinite
  <2>4. CASE m = position[r] + 1
    <3>1. OnTheWay(m)' = OnTheWay(m) \cup {r} /\ r \notin OnTheWay(m)
      BY <2>1, <2>4 DEF OnTheWay, Before
    <3>2. Cardinality(OnTheWay(m)') = Cardinality(OnTheWay(m)) + 1
      BY <3>1, <2>3, FS_AddElement
    <3> QED  BY <2>1, <2>2, <2>3, <2>4, <3>2
  <2>5. CASE m # position[r] + 1
    <3>1. OnTheWay(m)' = OnTheWay(m)
      BY <2>1, <2>5 DEF OnTheWay, Before
    <3> QED  BY <2>1, <2>2, <2>5, <3>1
  <2> QED  BY <2>4, <2>5
\* The hand-over: the process is no longer on its way.
<1>2. ASSUME NEW r \in Processes, task[r].at = "persist", Go(r, "status"),
             accepted' = [accepted EXCEPT ![Message(r)] = @ + 1],
             position' = position, delivered' = delivered
      PROVE  HandOversPaid'
  <2> SUFFICES ASSUME NEW m \in Messages
               PROVE  accepted'[m] + Cardinality(OnTheWay(m)') <= delivered'[m]
    BY DEF HandOversPaid
  <2>1. /\ task'[r].at = "status"
        /\ \A q \in Processes \ {r} : task'[q] = task[q]
    BY <1>2, GoesTo DEF TaskPlaces
  <2>2. /\ accepted[m] + Cardinality(OnTheWay(m)) <= delivered[m]
        /\ accepted[m] \in Nat /\ delivered[m] \in Nat
        /\ accepted'[m] = IF m = position[r] THEN accepted[m] + 1 ELSE accepted[m]
    BY <1>2 DEF HandOversPaid, GroupTyped, Message
  <2>3. IsFiniteSet(OnTheWay(m)) /\ Cardinality(OnTheWay(m)) \in Nat
    BY <1>0, GroupsAreFinite
  <2>4. CASE m = position[r]
    <3>1. OnTheWay(m)' = OnTheWay(m) \ {r} /\ r \in OnTheWay(m)
      BY <1>2, <2>1, <2>4 DEF OnTheWay, Before
    <3>2. Cardinality(OnTheWay(m)') = Cardinality(OnTheWay(m)) - 1
      BY <3>1, <2>3, FS_RemoveElement
    <3> QED  BY <1>2, <2>2, <2>3, <2>4, <3>2
  <2>5. CASE m # position[r]
    <3>1. OnTheWay(m)' = OnTheWay(m)
      BY <1>2, <2>1, <2>5 DEF OnTheWay, Before
    <3> QED  BY <1>2, <2>2, <2>5, <3>1
  <2> QED  BY <2>4, <2>5
\* A transient error is tried again before the hand-over only.
<1>3. ASSUME NEW r \in Processes, task[r].at \in Before,
             FailTransient(r) \/ Go(r, "failed") \/ Go(r, "exists") \/ Go(r, "persist"),
             UNCHANGED <<position, delivered, accepted>>
      PROVE  HandOversPaid'
  <2>1. \A q \in Processes \ {r} : task'[q] = task[q]
    BY <1>3, GoesTo, TriesAgainOrFails DEF TaskPlaces
  <2> QED  BY <1>3, <2>1, NobodySetsOut
<1>4. ASSUME NEW r \in Processes, UpdatePlantStatus(r) \/ UpdateStatusFails(r)
      PROVE  HandOversPaid'
  <2>1. Go(r, "done") /\ UNCHANGED <<position, delivered, accepted>>
    BY <1>4 DEF UpdatePlantStatus, UpdateStatusFails, groupVars, deliveryHistory
  <2>2. task'[r].at = "done" /\ \A q \in Processes \ {r} : task'[q] = task[q]
    BY <2>1, GoesTo DEF TaskPlaces
  <2> QED  BY <2>1, <2>2, NobodySetsOut DEF Before
<1>5. ASSUME NEW r \in Processes, CommitMessage(r)
      PROVE  HandOversPaid'
  BY <1>5, NobodySetsOut DEF CommitMessage, Before, NoTask, GroupTyped
<1>6. ASSUME NEW r \in Processes, Rebalance(r)
      PROVE  HandOversPaid'
  BY <1>6, NobodySetsOut DEF Rebalance, Before, GroupTyped, deliveryHistory
<1>7. ASSUME NEW r \in Processes, RestartProcess(r)
      PROVE  HandOversPaid'
  BY <1>7, NobodySetsOut DEF RestartProcess, Before, NoTask, GroupTyped, deliveryHistory
<1>8. ASSUME UNCHANGED <<position, task, delivered, accepted>>
      PROVE  HandOversPaid'
  BY <1>8, NobodySetsOut
<1>9. ASSUME NEW r \in Processes,
             ExtractPlantInfo(r) \/ ValidateEvent(r) \/ PersistEvents(r)
      PROVE  HandOversPaid'
  BY <1>2, <1>3, <1>9
  DEF ExtractPlantInfo, ValidateEvent, PersistEvents, Before, groupVars, deliveryHistory
<1> QED
  BY <1>1, <1>4, <1>5, <1>6, <1>7, <1>8, <1>9
  DEF ProcessingNext, ProcessStep, TestIntake, TestAnswered, CacheAlone, processingVars,
      groupVars, deliveryHistory

-----------------------------------------------------------------------------
(* The theorems *)

\* The types, the caches, the commits and the hand-overs keep their invariants in
\* every step of the processes.
THEOREM ProcessingHolds ==
  ProcessingSpec => [](ProcessingInvariant /\ CommitsInOrder /\ HandOversPaid)
<1> DEFINE Inv == ProcessingInvariant /\ CommitsInOrder /\ HandOversPaid
<1>1. ProcessingInit => Inv
  BY CacheIsTrueInit, GroupTypedInit, CommitsInOrderInit, HandOversPaidInit
  DEF ProcessingInit, ProcessingInvariant
<1>2. Inv /\ [ProcessingNext]_processingVars => Inv'
  BY CacheIsTrueStep, GroupTypedStep, CommitsInOrderStep, HandOversPaidStep
  DEF ProcessingInvariant
<1> QED  BY <1>1, <1>2, PTL DEF ProcessingSpec

\* Every variable has its type; the caches keep to their size and to one entry for
\* a plant, however the calls of Exists overlap.
THEOREM ProcessingTypeCorrect == ProcessingSpec => []ProcessingTypeOK
BY ProcessingHolds, TypesOfProcessing, PTL

\* What a process holds or says of a plant was true at some time since it started.
THEOREM AnswersAreJustified == ProcessingSpec => []AnswersJustified
<1>1. ProcessingInvariant => AnswersJustified
  BY DEF ProcessingInvariant, CacheIsTrue, CachesJustified, LookupJustified, AnswersJustified
<1> QED  BY <1>1, ProcessingHolds, PTL

\* The status of a plant is not older than the messages the group is done with,
\* except where the last upsert failed or came late from the former owner.
THEOREM StatusKeepsUp == ProcessingSpec => []StatusNotBehindCommit
<1>1. CommitsInOrder => StatusNotBehindCommit
  BY DEF CommitsInOrder
<1> QED  BY <1>1, ProcessingHolds, PTL

\* However often ProcessEvent is tried again, a reading of a message hands its event
\* to the writer once at most.
THEOREM HandedOverOncePerDelivery == ProcessingSpec => []AcceptedOncePerDelivery
<1>1. ProcessingInvariant /\ HandOversPaid => AcceptedOncePerDelivery
  <2> SUFFICES ASSUME ProcessingInvariant, HandOversPaid, NEW m \in Messages
               PROVE  accepted[m] <= delivered[m]
    BY DEF AcceptedOncePerDelivery
  <2>1. Cardinality(OnTheWay(m)) \in Nat
    BY GroupsAreFinite DEF OnTheWay
  <2> QED  BY <2>1 DEF HandOversPaid, ProcessingInvariant, GroupTyped
<1> QED  BY <1>1, ProcessingHolds, PTL
=============================================================================

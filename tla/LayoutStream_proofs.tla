------------------------- MODULE LayoutStream_proofs -------------------------
(***************************************************************************)
(* What the layout view shows of a selection is of that selection, and     *)
(* whole, however many tiles, views, nets and selections there are.        *)
(*                                                                         *)
(* The argument is about the requests a selection's task waits for.  The   *)
(* queue of fetches is shared with the camera's windows, and a frame drops *)
(* from it what its windows no longer want; so the invariant says of every *)
(* awaited tile that its fetch flies or waits with a priority no frame     *)
(* drops, and of every tile the pins are read from that it has come, is    *)
(* awaited, or failed.                                                     *)
(*                                                                         *)
(* Of the two engines' cameras and the model's section: the controls are   *)
(* off exactly while a flight runs, and there is no cut face without a     *)
(* section.                                                                *)
(***************************************************************************)
EXTENDS LayoutStream, ViewCamera, MacroStream, FiniteSetTheorems, WellFoundedInduction, TLAPS

TaskType ==
  [target : Targets, stage : Stages, chunks : SUBSET Chunks,
   awaits : SUBSET Keys, got : SUBSET Keys]

\* What the fetches are made of.
FetchShape ==
  /\ blockRequests \in SUBSET Entries
  /\ flying \in SUBSET Entries
  /\ DOMAIN fetchQueue \in SUBSET Entries
  /\ fetchQueue \in [DOMAIN fetchQueue -> Int]
  /\ \A k \in DOMAIN fetchQueue : fetchQueue[k] >= Urgent
  /\ inFlight \in Nat

Shape ==
  /\ view \in Views
  /\ token \in 0 .. MaxSelections
  /\ selected \in Targets
  /\ tasks \in [1 .. MaxSelections -> TaskType]

\* A tile awaited by a task is on its way, or waits where no frame drops it.
OnItsWay(k) ==
  \/ k \in flying
  \/ (k \in DOMAIN fetchQueue /\ fetchQueue[k] < 0)

AwaitedIsServed ==
  \A t \in 1 .. MaxSelections : \A k \in tasks[t].awaits : OnItsWay(k)

\* Of a task that reads pins, every tile they are read from has come, is
\* awaited, or failed.
PinsAreAccounted ==
  \A t \in 1 .. MaxSelections :
    tasks[t].stage \in {"pins", "labels"} =>
      /\ PinTiles(tasks[t].target) \cap Entries
           \subseteq tasks[t].got \cup tasks[t].awaits \cup failed
      /\ tasks[t].stage = "labels" => tasks[t].awaits = {}

\* The current token's task is of what is selected; later ones have not begun.
TaskIsOfTheSelection ==
  \A t \in 1 .. MaxSelections :
    /\ t = token /\ tasks[t].stage # "done" => tasks[t].target = selected
    /\ t > token => tasks[t].stage = "done"

IInv ==
  /\ Shape
  /\ FetchShape
  /\ PendingIsServed
  /\ AwaitedIsServed
  /\ PinsAreAccounted
  /\ TaskIsOfTheSelection
  /\ DetailsAreOfTheSelection
  /\ PinsAreComplete
  /\ DrawnOnce
-----------------------------------------------------------------------------
(* Numbers, priorities and cardinalities *)

\* A set of numbers that is not empty has a least element.
LEMMA LeastNumber ==
  ASSUME NEW T \in SUBSET Nat, T # {}
  PROVE  \E x \in T : \A y \in T : x <= y
<1> DEFINE R == OpToRel(<, Nat)
<1>1. IsWellFoundedOn(R, Nat)
  BY NatLessThanWellFounded
<1>2. PICK x \in T : \A y \in T : ~(<<y, x>> \in R)
  BY <1>1, WFMin
<1>3. \A y \in T : ~(y < x)
  BY <1>2 DEF OpToRel
<1>4. QED BY <1>3

\* Least is the least of priorities.
LEMMA LeastIsLeast ==
  ASSUME NEW S \in SUBSET Int, S # {}, \A p \in S : p >= Urgent
  PROVE  Least(S) \in S /\ \A q \in S : Least(S) <= q
<1> DEFINE T == {p + 1 : p \in S}
<1>1. T \in SUBSET Nat /\ T # {}
  <2>1. SUFFICES ASSUME NEW p \in S PROVE p + 1 \in Nat
    OBVIOUS
  <2>2. p \in Int /\ p >= -1
    BY DEF Urgent
  <2>3. QED BY <2>2
<1>2. PICK x \in T : \A y \in T : x <= y
  BY <1>1, LeastNumber
<1>3. PICK p \in S : x = p + 1
  BY <1>2
<1>4. \A q \in S : p <= q
  <2>1. SUFFICES ASSUME NEW q \in S PROVE p <= q
    OBVIOUS
  <2>2. q + 1 \in T
    OBVIOUS
  <2>3. p + 1 <= q + 1
    BY <1>2, <1>3, <2>2
  <2>4. p \in Int /\ q \in Int
    OBVIOUS
  <2>5. QED BY <2>3, <2>4
<1>5. QED BY <1>4 DEF Least

\* What the tiles are: numbers, finitely many.
LEMMA EntriesAreFinite ==
  /\ Entries \in SUBSET Int
  /\ \A S \in SUBSET Entries : IsFiniteSet(S) /\ Cardinality(S) \in Nat
<1>1. Entries \in SUBSET (0 .. NX - 1) /\ NX \in Nat
  BY StreamAssumption
<1>2. IsFiniteSet(0 .. NX - 1)
  BY <1>1, FS_Interval
<1>3. IsFiniteSet(Entries)
  BY <1>1, <1>2, FS_Subset
<1>4. \A S \in SUBSET Entries : IsFiniteSet(S) /\ Cardinality(S) \in Nat
  BY <1>3, FS_Subset, FS_CardinalityType
<1>5. QED BY <1>1, <1>4

\* Requests come with a priority.
Prioritised(items) == \A w \in items : w.priority \in Int /\ w.priority >= Urgent

\* A selection's requests have the one no frame drops.
LEMMA SelectionsAreUrgent ==
  ASSUME NEW keys
  PROVE  /\ Prioritised(Urgently(keys))
         /\ \A k \in keys : \E w \in Urgently(keys) : w.key = k
         /\ \A w \in Urgently(keys) : w.priority = Urgent
<1>1. \A w \in Urgently(keys) : w.priority = Urgent
  BY DEF Urgently
<1>2. \A k \in keys : \E w \in Urgently(keys) : w.key = k
  <2>1. SUFFICES ASSUME NEW k \in keys PROVE \E w \in Urgently(keys) : w.key = k
    OBVIOUS
  <2>2. [id |-> <<"selection", k>>, key |-> k, priority |-> Urgent] \in Urgently(keys)
    BY DEF Urgently
  <2>3. QED BY <2>2
<1>3. Urgent \in Int /\ Urgent >= Urgent
  BY DEF Urgent
<1>4. QED BY <1>1, <1>2, <1>3 DEF Prioritised

\* A tile's rank is a distance.
LEMMA RankIsDistance ==
  ASSUME NEW k \in Int, NEW p \in Int
  PROVE  Rank(k, p) \in Nat
<1>1. TileSize \in Nat
  BY StreamAssumption
<1>2. PICK a \in Int : a = 2 * k * TileSize
  BY <1>1
<1>3. PICK b \in Int : b = a + TileSize - 2 * p
  BY <1>1, <1>2
<1>4. Rank(k, p) = IF b < 0 THEN -b ELSE b
  BY <1>2, <1>3 DEF Rank
<1>5. QED BY <1>4

\* A window's tiles have something in them.
LEMMA WindowsAreOfTiles ==
  ASSUME NEW level, NEW p, NEW d
  PROVE  windowOf(level, p, d) \in SUBSET Entries
BY DEF windowOf

\* Its requests come after those of a selection.
LEMMA WindowsAreNotUrgent ==
  ASSUME NEW level \in Levels, NEW keys \in SUBSET Int, NEW p \in Int
  PROVE  \A w \in Tagged(level, keys, p) : w.priority \in Nat
<1> DEFINE extra == CASE level = "cells"  -> 0
                      [] level = "tile"   -> TileSize
                      [] level = "coarse" -> 3 * TileSize
<1>1. extra \in Nat
  BY StreamAssumption DEF Levels
<1> HIDE DEF extra
<1>2. \A k \in keys : Rank(k, p) + extra \in Nat
  <2>1. SUFFICES ASSUME NEW k \in keys PROVE Rank(k, p) + extra \in Nat
    OBVIOUS
  <2>2. Rank(k, p) \in Nat
    BY RankIsDistance
  <2>3. QED BY <1>1, <2>2
<1>3. SUFFICES ASSUME NEW w \in Tagged(level, keys, p) PROVE w.priority \in Nat
  OBVIOUS
<1>4. PICK k \in keys : w = [id |-> <<level, k>>, key |-> k, priority |-> Rank(k, p) + extra]
  BY DEF Tagged, extra
<1>5. QED BY <1>2, <1>4

LEMMA FramesAreNotUrgent ==
  ASSUME view \in Views
  PROVE  \A w \in FrameItems : w.priority \in Nat
<1> DEFINE p == view[1]
           d == view[2]
           full == windowOf("tile", p, d)
           ring == windowOf("coarse", p, d) \ full
           near == windowOf("cells", p, d)
<1>1. p \in Int
  BY StreamAssumption
<1>2. near \in SUBSET Int /\ full \in SUBSET Int /\ ring \in SUBSET Int
  BY WindowsAreOfTiles, EntriesAreFinite
<1>3. wanted = Tagged("cells", near, p) \cup Tagged("tile", full, p) \cup Tagged("coarse", ring, p)
  BY DEF wanted, wantedFrom
<1> HIDE DEF near, full, ring, p
<1>4. "cells" \in Levels /\ "tile" \in Levels /\ "coarse" \in Levels
  BY DEF Levels
<1>5. \A w \in wanted : w.priority \in Nat
  BY <1>1, <1>2, <1>3, <1>4, WindowsAreNotUrgent
<1>6. QED BY <1>5 DEF FrameItems
-----------------------------------------------------------------------------
(* The queue of fetches *)

\* What a round of requests leaves of the queue: its jobs and the fresh ones
\* not started, none with a higher priority than it had or is asked with.
LEMMA QueueAfterRequests ==
  ASSUME FetchShape, NEW items, Prioritised(items), NEW started
  PROVE  LET q == Requeued(items, started)
         IN  /\ DOMAIN q = DOMAIN fetchQueue \cup (Fresh(items) \ started)
             /\ q \in [DOMAIN q -> Int]
             /\ \A k \in DOMAIN q : q[k] >= Urgent
             /\ \A k \in DOMAIN fetchQueue : q[k] <= fetchQueue[k]
             /\ \A w \in items : w.key \in DOMAIN q => q[w.key] <= w.priority
<1> DEFINE D == DOMAIN fetchQueue \cup (Fresh(items) \ started)
           q == Requeued(items, started)
<1>1. q = [k \in D |-> Least(Asked(items, k))]
  BY DEF Requeued
<1>2. \A k \in D : /\ Asked(items, k) \in SUBSET Int
                   /\ Asked(items, k) # {}
                   /\ \A p \in Asked(items, k) : p >= Urgent
  <2>1. SUFFICES ASSUME NEW k \in D
                 PROVE  /\ Asked(items, k) \in SUBSET Int
                        /\ Asked(items, k) # {}
                        /\ \A p \in Asked(items, k) : p >= Urgent
    OBVIOUS
  <2>2. \A p \in Asked(items, k) : p \in Int /\ p >= Urgent
    BY DEF Asked, Prioritised, FetchShape
  <2>3. CASE k \in DOMAIN fetchQueue
    BY <2>2, <2>3 DEF Asked
  <2>4. CASE k \notin DOMAIN fetchQueue
    <3>1. k \in Fresh(items)
      BY <2>4
    <3>2. PICK w \in items : w.key = k
      BY <3>1 DEF Fresh
    <3>3. w.priority \in Asked(items, k)
      BY <3>2 DEF Asked
    <3>4. QED BY <2>2, <3>3
  <2>5. QED BY <2>3, <2>4
<1>3. \A k \in D : /\ q[k] \in Asked(items, k)
                   /\ \A p \in Asked(items, k) : q[k] <= p
  <2>1. SUFFICES ASSUME NEW k \in D
                 PROVE  /\ q[k] \in Asked(items, k)
                        /\ \A p \in Asked(items, k) : q[k] <= p
    OBVIOUS
  <2>2. q[k] = Least(Asked(items, k))
    BY <1>1
  <2>3. QED BY <1>2, <2>2, LeastIsLeast
<1> HIDE DEF q
<1>4. DOMAIN q = D
  BY <1>1
<1>5. \A k \in D : q[k] \in Int /\ q[k] >= Urgent
  BY <1>2, <1>3
<1>6. q \in [D -> Int]
  BY <1>1, <1>5
<1>7. \A k \in DOMAIN fetchQueue : q[k] <= fetchQueue[k]
  BY <1>3 DEF Asked
<1>8. \A w \in items : w.key \in D => q[w.key] <= w.priority
  BY <1>3 DEF Asked
<1>9. QED BY <1>4, <1>5, <1>6, <1>7, <1>8 DEF q

\* The keys in flight and those started are counted together.
LEMMA FlyingAreCounted ==
  ASSUME NEW up \in SUBSET Entries, NEW S \in SUBSET Entries, S \cap up = {}
  PROVE  /\ Cardinality(up) \in Nat /\ Cardinality(S) \in Nat
         /\ Cardinality(up \cup S) = Cardinality(up) + Cardinality(S)
<1>1. IsFiniteSet(up) /\ IsFiniteSet(S)
  BY EntriesAreFinite
<1>2. Cardinality(up) \in Nat /\ Cardinality(S) \in Nat
  BY EntriesAreFinite
<1>3. Cardinality(up \cap S) = 0
  BY FS_EmptySet
<1>4. Cardinality(up \cup S) = Cardinality(up) + Cardinality(S) - Cardinality(up \cap S)
  BY <1>1, FS_Union
<1>5. QED BY <1>2, <1>3, <1>4

\* A part of a finite set that has as many members is the whole.
LEMMA AllOfThem ==
  ASSUME NEW D \in SUBSET Entries, NEW S \in SUBSET D, Cardinality(S) = Cardinality(D)
  PROVE  D \ S = {}
<1>1. IsFiniteSet(D)
  BY EntriesAreFinite
<1>2. D = S
  BY <1>1, FS_Subset
<1>3. QED BY <1>2

\* Every promise asked for has its one job, the free fetches are used, and
\* no awaited tile is lost.
LEMMA RequestsAreServed ==
  ASSUME FetchShape, PendingIsServed, NEW items, Prioritised(items),
         NEW started \in StartsNow(items)
  PROVE  LET q == Requeued(items, started)
             up == flying \cup started
             n == inFlight + Cardinality(started)
         IN  /\ blockRequests \cup Fresh(items) \in SUBSET Entries
             /\ up \in SUBSET Entries /\ DOMAIN q \in SUBSET Entries
             /\ blockRequests \cup Fresh(items) = DOMAIN q \cup up
             /\ DOMAIN q \cap up = {}
             /\ n \in Nat /\ n = Cardinality(up) /\ n <= FETCHES
             /\ DOMAIN q # {} => n = FETCHES
<1> DEFINE q == Requeued(items, started)
           up == flying \cup started
           n == inFlight + Cardinality(started)
           fresh == Fresh(items)
<1>1. /\ started \in SUBSET fresh
      /\ Cardinality(started) = Lower(FETCHES - inFlight, Cardinality(fresh))
  BY DEF StartsNow
<1>2. fresh \in SUBSET Entries /\ fresh \cap blockRequests = {}
  BY DEF Fresh
<1>3. DOMAIN q = DOMAIN fetchQueue \cup (fresh \ started)
  BY QueueAfterRequests
<1>4. /\ blockRequests \in SUBSET Entries /\ flying \in SUBSET Entries
      /\ DOMAIN fetchQueue \in SUBSET Entries
      /\ blockRequests = DOMAIN fetchQueue \cup flying
      /\ DOMAIN fetchQueue \cap flying = {}
      /\ inFlight \in Nat /\ inFlight = Cardinality(flying) /\ inFlight <= FETCHES
      /\ DOMAIN fetchQueue # {} => inFlight = FETCHES
  BY DEF FetchShape, PendingIsServed
<1> HIDE DEF q, fresh
<1>5. /\ blockRequests \cup fresh \in SUBSET Entries
      /\ up \in SUBSET Entries /\ DOMAIN q \in SUBSET Entries
      /\ blockRequests \cup fresh = DOMAIN q \cup up
      /\ DOMAIN q \cap up = {}
  BY <1>1, <1>2, <1>3, <1>4
<1>6. FETCHES \in Nat
  BY StreamAssumption
<1>7. started \in SUBSET Entries /\ started \cap flying = {}
  BY <1>1, <1>2, <1>4
<1>8. Cardinality(started) \in Nat /\ Cardinality(fresh) \in Nat
  BY <1>2, <1>7, EntriesAreFinite
<1>9. n \in Nat /\ n = Cardinality(up)
  <2>1. Cardinality(up) = Cardinality(flying) + Cardinality(started)
    BY <1>4, <1>7, FlyingAreCounted
  <2>2. QED BY <1>4, <1>8, <2>1
<1>10. n <= FETCHES
  BY <1>1, <1>4, <1>6, <1>8 DEF Lower
<1>11. ASSUME DOMAIN q # {} PROVE n = FETCHES
  <2>1. CASE DOMAIN fetchQueue # {}
    <3>1. inFlight = FETCHES
      BY <1>4, <2>1
    <3>2. QED BY <1>4, <1>6, <1>8, <1>10, <3>1
  <2>2. CASE DOMAIN fetchQueue = {}
    <3>1. fresh \ started # {}
      BY <1>3, <1>11, <2>2
    <3>2. Cardinality(started) # Cardinality(fresh)
      BY <1>1, <1>2, <3>1, AllOfThem
    <3>3. Cardinality(started) = FETCHES - inFlight
      BY <1>1, <3>2 DEF Lower
    <3>4. QED BY <1>4, <1>6, <1>8, <3>3
  <2>3. QED BY <2>1, <2>2
<1>12. QED BY <1>5, <1>9, <1>10, <1>11 DEF q, fresh

\* A round of requests keeps what is served.
LEMMA RequestsKeepServed ==
  ASSUME FetchShape, PendingIsServed, NEW items, Prioritised(items), requestBlocks(items)
  PROVE  /\ FetchShape' /\ PendingIsServed'
         /\ \A k : OnItsWay(k) => OnItsWay(k)'
         /\ \A w \in items : w.key \in Entries \ Cached /\ w.priority < 0 => OnItsWay(w.key)'
<1>1. PICK started \in StartsNow(items) :
        /\ fetchQueue' = Requeued(items, started)
        /\ flying' = flying \cup started
        /\ inFlight' = inFlight + Cardinality(started)
  BY DEF requestBlocks
<1>2. blockRequests' = blockRequests \cup Fresh(items)
  BY DEF requestBlocks
<1>3. /\ DOMAIN fetchQueue' = DOMAIN fetchQueue \cup (Fresh(items) \ started)
      /\ fetchQueue' \in [DOMAIN fetchQueue' -> Int]
      /\ \A k \in DOMAIN fetchQueue' : fetchQueue'[k] >= Urgent
      /\ \A k \in DOMAIN fetchQueue : fetchQueue'[k] <= fetchQueue[k]
      /\ \A w \in items : w.key \in DOMAIN fetchQueue' => fetchQueue'[w.key] <= w.priority
  BY <1>1, QueueAfterRequests
<1>4. /\ blockRequests' \in SUBSET Entries
      /\ flying' \in SUBSET Entries /\ DOMAIN fetchQueue' \in SUBSET Entries
      /\ blockRequests' = DOMAIN fetchQueue' \cup flying'
      /\ DOMAIN fetchQueue' \cap flying' = {}
      /\ inFlight' \in Nat /\ inFlight' = Cardinality(flying') /\ inFlight' <= FETCHES
      /\ DOMAIN fetchQueue' # {} => inFlight' = FETCHES
  BY <1>1, <1>2, RequestsAreServed
<1>5. FetchShape'
  BY <1>3, <1>4 DEF FetchShape
<1>6. PendingIsServed'
  BY <1>4 DEF PendingIsServed
<1>7. \A k \in DOMAIN fetchQueue : fetchQueue[k] \in Int
  BY DEF FetchShape
<1>8. \A k \in DOMAIN fetchQueue' : fetchQueue'[k] \in Int
  BY <1>3
<1>9. \A k : OnItsWay(k) => OnItsWay(k)'
  <2>1. SUFFICES ASSUME NEW k, OnItsWay(k) PROVE OnItsWay(k)'
    OBVIOUS
  <2>2. CASE k \in flying
    BY <1>1, <2>2 DEF OnItsWay
  <2>3. CASE k \in DOMAIN fetchQueue /\ fetchQueue[k] < 0
    <3>1. k \in DOMAIN fetchQueue' /\ fetchQueue'[k] <= fetchQueue[k]
      BY <1>3, <2>3
    <3>2. fetchQueue'[k] < 0
      BY <1>7, <1>8, <2>3, <3>1
    <3>3. QED BY <3>1, <3>2 DEF OnItsWay
  <2>4. QED BY <2>1, <2>2, <2>3 DEF OnItsWay
<1>10. \A w \in items : w.key \in Entries \ Cached /\ w.priority < 0 => OnItsWay(w.key)'
  <2>1. SUFFICES ASSUME NEW w \in items, w.key \in Entries \ Cached, w.priority < 0
                 PROVE  OnItsWay(w.key)'
    OBVIOUS
  <2>2. w.key \in blockRequests'
    BY <1>2, <2>1 DEF Fresh
  <2>3. CASE w.key \in flying'
    BY <2>3 DEF OnItsWay
  <2>4. CASE w.key \in DOMAIN fetchQueue'
    <3>1. fetchQueue'[w.key] <= w.priority /\ fetchQueue'[w.key] \in Int
      BY <1>3, <1>8, <2>4
    <3>2. w.priority \in Int
      BY DEF Prioritised
    <3>3. fetchQueue'[w.key] < 0
      BY <2>1, <3>1, <3>2
    <3>4. QED BY <2>4, <3>3 DEF OnItsWay
  <2>5. QED BY <1>4, <2>2, <2>3, <2>4
<1>11. QED BY <1>5, <1>6, <1>9, <1>10

\* Starting the jobs that may start keeps what is served.
LEMMA PumpKeepsServed ==
  ASSUME FetchShape, PendingIsServed, NEW k \in flying,
         blockRequests' = blockRequests \ {k}, pumpFetches(fetchQueue, flying \ {k})
  PROVE  /\ FetchShape' /\ PendingIsServed'
         /\ \A a : OnItsWay(a) /\ a # k => OnItsWay(a)'
<1> DEFINE D == DOMAIN fetchQueue
           up == flying \ {k}
<1>1. PICK S \in Startable(fetchQueue, Lower(FETCHES - Cardinality(up), Cardinality(D))) :
        /\ fetchQueue' = Without(fetchQueue, S)
        /\ flying' = up \cup S
        /\ inFlight' = Cardinality(up) + Cardinality(S)
  BY DEF pumpFetches
<1>2. /\ S \in SUBSET D
      /\ Cardinality(S) = Lower(FETCHES - Cardinality(up), Cardinality(D))
  BY DEF Startable
<1>3. /\ blockRequests \in SUBSET Entries /\ flying \in SUBSET Entries
      /\ D \in SUBSET Entries
      /\ blockRequests = D \cup flying
      /\ D \cap flying = {}
      /\ inFlight \in Nat /\ inFlight = Cardinality(flying) /\ inFlight <= FETCHES
  BY DEF FetchShape, PendingIsServed
<1>4. fetchQueue' = [a \in D \ S |-> fetchQueue[a]]
  BY <1>1 DEF Without
<1>5. DOMAIN fetchQueue' = D \ S
  BY <1>4
<1>6. /\ blockRequests' \in SUBSET Entries
      /\ flying' \in SUBSET Entries /\ D \ S \in SUBSET Entries
      /\ blockRequests' = (D \ S) \cup flying'
      /\ (D \ S) \cap flying' = {}
  BY <1>1, <1>2, <1>3
<1>7. FETCHES \in Nat
  BY StreamAssumption
<1>8. /\ Cardinality(up) \in Nat /\ Cardinality(S) \in Nat /\ Cardinality(D) \in Nat
      /\ Cardinality(up \cup S) = Cardinality(up) + Cardinality(S)
  <2>1. up \in SUBSET Entries /\ S \in SUBSET Entries /\ S \cap up = {}
    BY <1>2, <1>3
  <2>2. QED BY <1>3, <2>1, FlyingAreCounted, EntriesAreFinite
<1>9. Cardinality(up) <= FETCHES
  <2>1. IsFiniteSet(flying)
    BY <1>3, EntriesAreFinite
  <2>2. Cardinality(up) <= Cardinality(flying)
    BY <2>1, FS_Subset
  <2>3. QED BY <1>3, <1>7, <1>8, <2>2
<1>10. inFlight' \in Nat /\ inFlight' = Cardinality(flying')
  BY <1>1, <1>8
<1>11. inFlight' <= FETCHES
  BY <1>1, <1>2, <1>7, <1>8, <1>9 DEF Lower
<1>12. ASSUME D \ S # {} PROVE inFlight' = FETCHES
  <2>1. Cardinality(S) # Cardinality(D)
    BY <1>2, <1>3, <1>12, AllOfThem
  <2>2. Cardinality(S) = FETCHES - Cardinality(up)
    BY <1>2, <2>1 DEF Lower
  <2>3. QED BY <1>1, <1>7, <1>8, <2>2
<1>13. PendingIsServed'
  BY <1>5, <1>6, <1>10, <1>11, <1>12 DEF PendingIsServed
<1>14. \A a \in D : fetchQueue[a] \in Int /\ fetchQueue[a] >= Urgent
  BY DEF FetchShape
<1>15. FetchShape'
  BY <1>4, <1>5, <1>6, <1>10, <1>14 DEF FetchShape
<1>16. \A a : OnItsWay(a) /\ a # k => OnItsWay(a)'
  <2>1. SUFFICES ASSUME NEW a, OnItsWay(a), a # k PROVE OnItsWay(a)'
    OBVIOUS
  <2>2. CASE a \in flying \/ a \in S
    BY <1>1, <2>1, <2>2 DEF OnItsWay
  <2>3. CASE a \notin flying /\ a \notin S
    BY <1>4, <1>5, <2>1, <2>3 DEF OnItsWay
  <2>4. QED BY <2>2, <2>3
<1>17. QED BY <1>13, <1>15, <1>16

\* A frame keeps what is served: what it drops is no selection's.
LEMMA FrameKeepsServed ==
  ASSUME FetchShape, PendingIsServed, view \in Views, stream
  PROVE  /\ FetchShape' /\ PendingIsServed'
         /\ \A k : OnItsWay(k) => OnItsWay(k)'
         /\ \E stale :
              /\ \A k : OnItsWay(k) => k \notin stale
              /\ tasks' = [t \in DOMAIN tasks |-> Answered(tasks[t], stale, FALSE)]
<1> DEFINE items == FrameItems
<1>1. PICK started \in StartsNow(items) :
        LET queue == Requeued(items, started)
            stale == Stale(queue)
        IN  /\ blockRequests' = (blockRequests \cup Fresh(items)) \ stale
            /\ fetchQueue' = Without(queue, stale)
            /\ flying' = flying \cup started
            /\ inFlight' = inFlight + Cardinality(started)
            /\ tasks' = [t \in DOMAIN tasks |-> Answered(tasks[t], stale, FALSE)]
  BY DEF stream
<1> DEFINE queue == Requeued(items, started)
           stale == Stale(queue)
           up == flying \cup started
           asked == blockRequests \cup Fresh(items)
<1>2. Prioritised(items)
  BY FramesAreNotUrgent DEF Prioritised, Urgent
<1>3. /\ DOMAIN queue = DOMAIN fetchQueue \cup (Fresh(items) \ started)
      /\ queue \in [DOMAIN queue -> Int]
      /\ \A k \in DOMAIN queue : queue[k] >= Urgent
      /\ \A k \in DOMAIN fetchQueue : queue[k] <= fetchQueue[k]
  BY <1>2, QueueAfterRequests
<1>4. /\ asked \in SUBSET Entries
      /\ up \in SUBSET Entries /\ DOMAIN queue \in SUBSET Entries
      /\ asked = DOMAIN queue \cup up
      /\ DOMAIN queue \cap up = {}
      /\ inFlight' \in Nat /\ inFlight' = Cardinality(up) /\ inFlight' <= FETCHES
      /\ DOMAIN queue # {} => inFlight' = FETCHES
  BY <1>1, <1>2, RequestsAreServed
<1>5. stale \in SUBSET (DOMAIN queue) /\ \A k \in stale : queue[k] >= 0
  BY DEF Stale
<1>6. /\ blockRequests' = asked \ stale
      /\ fetchQueue' = Without(queue, stale)
      /\ flying' = up
      /\ tasks' = [t \in DOMAIN tasks |-> Answered(tasks[t], stale, FALSE)]
  BY <1>1
<1> HIDE DEF queue, stale, up, asked
<1>7. fetchQueue' = [k \in DOMAIN queue \ stale |-> queue[k]]
  BY <1>6 DEF Without
<1>8. DOMAIN fetchQueue' = DOMAIN queue \ stale
  BY <1>7
<1>9. PendingIsServed'
  BY <1>4, <1>5, <1>6, <1>8 DEF PendingIsServed
<1>10. FetchShape'
  BY <1>3, <1>4, <1>5, <1>6, <1>7, <1>8 DEF FetchShape
<1>11. \A k : OnItsWay(k) => k \notin stale
  <2>1. SUFFICES ASSUME NEW k \in stale, OnItsWay(k) PROVE FALSE
    OBVIOUS
  <2>2. k \in DOMAIN queue /\ queue[k] >= 0 /\ queue[k] \in Int
    BY <1>3, <1>5
  <2>3. k \notin flying
    BY <1>4, <2>2 DEF up
  <2>4. k \in DOMAIN fetchQueue /\ fetchQueue[k] < 0
    BY <2>1, <2>3 DEF OnItsWay
  <2>5. queue[k] <= fetchQueue[k] /\ fetchQueue[k] \in Int
    BY <1>3, <2>4 DEF FetchShape
  <2>6. QED BY <2>2, <2>4, <2>5
<1>12. \A k : OnItsWay(k) => OnItsWay(k)'
  <2>1. SUFFICES ASSUME NEW k, OnItsWay(k) PROVE OnItsWay(k)'
    OBVIOUS
  <2>2. CASE k \in flying
    BY <1>6, <2>2 DEF OnItsWay, up
  <2>3. CASE k \in DOMAIN fetchQueue /\ fetchQueue[k] < 0
    <3>1. k \in DOMAIN fetchQueue' /\ fetchQueue'[k] = queue[k]
      BY <1>3, <1>7, <1>8, <1>11, <2>1, <2>3
    <3>2. queue[k] <= fetchQueue[k] /\ fetchQueue[k] \in Int /\ queue[k] \in Int
      BY <1>3, <2>3 DEF FetchShape
    <3>3. fetchQueue'[k] < 0
      BY <2>3, <3>1, <3>2
    <3>4. QED BY <3>1, <3>3 DEF OnItsWay
  <2>4. QED BY <2>1, <2>2, <2>3 DEF OnItsWay
<1>13. QED BY <1>6, <1>9, <1>10, <1>11, <1>12
-----------------------------------------------------------------------------
(* The tasks of the selections *)

\* What a settled promise changes of a task.
LEMMA AnsweredTask ==
  ASSUME NEW task \in TaskType, NEW keys, NEW came \in BOOLEAN
  PROVE  /\ Answered(task, keys, came) \in TaskType
         /\ Answered(task, keys, came).target = task.target
         /\ Answered(task, keys, came).stage = task.stage
         /\ Answered(task, keys, came).awaits = task.awaits \ keys
         /\ Answered(task, keys, came).got =
              task.got \cup (IF came THEN task.awaits \cap keys ELSE {})
<1> DEFINE left == task.awaits \ keys
           hand == task.got \cup (IF came THEN task.awaits \cap keys ELSE {})
<1>1. Answered(task, keys, came) = [task EXCEPT !.awaits = left, !.got = hand]
  BY DEF Answered, TaskType
<1>2. left \in SUBSET Keys /\ hand \in SUBSET Keys
  BY DEF TaskType
<1> HIDE DEF left, hand
<1>3. /\ Answered(task, keys, came) \in TaskType
      /\ Answered(task, keys, came).target = task.target
      /\ Answered(task, keys, came).stage = task.stage
      /\ Answered(task, keys, came).awaits = left
      /\ Answered(task, keys, came).got = hand
  BY <1>1, <1>2 DEF TaskType
<1>4. QED BY <1>3 DEF left, hand

\* What a task that asks for tiles becomes.
LEMMA AwaitingTask ==
  ASSUME NEW task \in TaskType, NEW step \in Stages, NEW keys \in SUBSET Keys
  PROVE  /\ Awaiting(task, step, keys) \in TaskType
         /\ Awaiting(task, step, keys).target = task.target
         /\ Awaiting(task, step, keys).stage = step
         /\ Awaiting(task, step, keys).awaits = (keys \cap Entries) \ Cached
         /\ Awaiting(task, step, keys).got = keys \cap Cached
<1> DEFINE left == (keys \cap Entries) \ Cached
           hand == keys \cap Cached
<1>1. Awaiting(task, step, keys) =
        [task EXCEPT !.stage = step, !.chunks = {}, !.awaits = left, !.got = hand]
  BY DEF Awaiting
<1>2. left \in SUBSET Keys /\ hand \in SUBSET Keys
  OBVIOUS
<1> HIDE DEF left, hand
<1>3. /\ Awaiting(task, step, keys) \in TaskType
      /\ Awaiting(task, step, keys).target = task.target
      /\ Awaiting(task, step, keys).stage = step
      /\ Awaiting(task, step, keys).awaits = left
      /\ Awaiting(task, step, keys).got = hand
  BY <1>1, <1>2 DEF TaskType
<1>4. QED BY <1>3 DEF left, hand

\* What the invariant says of one task.
Accounted(task, lost) ==
  task.stage \in {"pins", "labels"} =>
    /\ PinTiles(task.target) \cap Entries \subseteq task.got \cup task.awaits \cup lost
    /\ task.stage = "labels" => task.awaits = {}

\* A step of one task that has not ended keeps what holds of the tasks, when
\* it does of that one.
LEMMA OneTaskSteps ==
  ASSUME Shape, AwaitedIsServed, PinsAreAccounted, TaskIsOfTheSelection,
         UNCHANGED <<view, token, selected, failed>>,
         NEW t \in 1 .. MaxSelections, NEW r \in TaskType,
         tasks' = [tasks EXCEPT ![t] = r],
         tasks[t].stage # "done", r.target = tasks[t].target,
         \A k : OnItsWay(k) => OnItsWay(k)',
         \A k \in r.awaits : OnItsWay(k)',
         Accounted(r, failed)
  PROVE  Shape' /\ AwaitedIsServed' /\ PinsAreAccounted' /\ TaskIsOfTheSelection'
<1>1. tasks \in [1 .. MaxSelections -> TaskType]
  BY DEF Shape
<1>2. /\ tasks' \in [1 .. MaxSelections -> TaskType]
      /\ tasks'[t] = r
      /\ \A u \in 1 .. MaxSelections : u # t => tasks'[u] = tasks[u]
  BY <1>1
<1>3. Shape'
  BY <1>2 DEF Shape
<1>4. AwaitedIsServed'
  <2>1. SUFFICES ASSUME NEW u \in 1 .. MaxSelections, NEW k \in tasks'[u].awaits
                 PROVE  OnItsWay(k)'
    BY DEF AwaitedIsServed
  <2>2. CASE u = t
    BY <1>2, <2>2
  <2>3. CASE u # t
    BY <1>2, <2>3 DEF AwaitedIsServed
  <2>4. QED BY <2>2, <2>3
<1>5. PinsAreAccounted'
  <2>1. \A u \in 1 .. MaxSelections : Accounted(tasks'[u], failed)
    BY <1>2 DEF PinsAreAccounted, Accounted
  <2>2. QED BY <2>1 DEF PinsAreAccounted, Accounted
<1>6. TaskIsOfTheSelection'
  BY <1>2 DEF TaskIsOfTheSelection
<1>7. QED BY <1>3, <1>4, <1>5, <1>6

\* Settled or dropped promises keep what holds of the tasks, when what they
\* no longer wait for came, failed, or was none of theirs.
LEMMA AllTasksAnswered ==
  ASSUME Shape, AwaitedIsServed, PinsAreAccounted, TaskIsOfTheSelection,
         UNCHANGED <<view, token, selected>>, failed \subseteq failed',
         NEW keys, NEW came \in BOOLEAN,
         tasks' = [t \in DOMAIN tasks |-> Answered(tasks[t], keys, came)],
         \A k : OnItsWay(k) /\ k \notin keys => OnItsWay(k)',
         \A k \in keys : came \/ k \in failed' \/ ~OnItsWay(k)
  PROVE  Shape' /\ AwaitedIsServed' /\ PinsAreAccounted' /\ TaskIsOfTheSelection'
<1>1. tasks \in [1 .. MaxSelections -> TaskType]
  BY DEF Shape
<1>2. \A t \in 1 .. MaxSelections :
        /\ tasks'[t] \in TaskType
        /\ tasks'[t].target = tasks[t].target
        /\ tasks'[t].stage = tasks[t].stage
        /\ tasks'[t].awaits = tasks[t].awaits \ keys
        /\ tasks'[t].got = tasks[t].got \cup (IF came THEN tasks[t].awaits \cap keys ELSE {})
  BY <1>1, AnsweredTask
<1>3. Shape'
  <2>1. tasks' \in [1 .. MaxSelections -> TaskType]
    BY <1>1, <1>2
  <2>2. QED BY <2>1 DEF Shape
<1>4. AwaitedIsServed'
  BY <1>2 DEF AwaitedIsServed
<1>5. PinsAreAccounted'
  <2>1. SUFFICES ASSUME NEW t \in 1 .. MaxSelections, tasks[t].stage \in {"pins", "labels"}
                 PROVE  /\ PinTiles(tasks[t].target) \cap Entries
                             \subseteq tasks'[t].got \cup tasks'[t].awaits \cup failed'
                        /\ tasks[t].stage = "labels" => tasks'[t].awaits = {}
    BY <1>2 DEF PinsAreAccounted
  <2>2. /\ PinTiles(tasks[t].target) \cap Entries
             \subseteq tasks[t].got \cup tasks[t].awaits \cup failed
        /\ tasks[t].stage = "labels" => tasks[t].awaits = {}
    BY <2>1 DEF PinsAreAccounted
  <2>3. \A k \in tasks[t].awaits : k \in tasks'[t].got \cup tasks'[t].awaits \cup failed'
    BY <1>2 DEF AwaitedIsServed
  <2>4. tasks[t].got \subseteq tasks'[t].got
    BY <1>2
  <2>5. PinTiles(tasks[t].target) \cap Entries
           \subseteq tasks'[t].got \cup tasks'[t].awaits \cup failed'
    BY <2>2, <2>3, <2>4
  <2>6. QED BY <1>2, <2>2, <2>5
<1>6. TaskIsOfTheSelection'
  BY <1>2 DEF TaskIsOfTheSelection
<1>7. QED BY <1>3, <1>4, <1>5, <1>6

\* What the selection and the page say of each other.
Agreement == DetailsAreOfTheSelection /\ PinsAreComplete

\* The tiles pins are read from are tiles of the strip, and so are a net's.
LEMMA PinTilesAreKeys ==
  /\ \A x : PinTiles(x) \in SUBSET Keys
  /\ \A n \in Nets : Span(n) \in SUBSET Keys
<1>1. \A x : PinTiles(x) \in SUBSET Keys
  BY DEF PinTiles
<1>2. ASSUME NEW n \in Nets PROVE Span(n) \in SUBSET Keys
  <2>1. NetTiles[n] \in (0 .. NX - 1) \X (0 .. NX - 1) /\ NX \in Nat
    BY StreamAssumption
  <2>2. PICK a \in 0 .. NX - 1, b \in 0 .. NX - 1 : NetTiles[n] = <<a, b>>
    BY <2>1
  <2>3. Span(n) = a .. b
    BY <2>2 DEF Span
  <2>4. QED BY <2>1, <2>3 DEF Keys
<1>3. QED BY <1>1, <1>2

\* A task that asks for tiles waits for those that are not at hand.
LEMMA AskingKeeps ==
  ASSUME Shape, FetchShape, PendingIsServed,
         AwaitedIsServed, PinsAreAccounted, TaskIsOfTheSelection,
         UNCHANGED <<view, token, selected, failed>>,
         NEW t \in 1 .. MaxSelections, NEW step \in Stages, NEW keys \in SUBSET Keys,
         tasks' = [tasks EXCEPT ![t] = Awaiting(tasks[t], step, keys)],
         requestBlocks(Urgently(keys)),
         tasks[t].stage # "done",
         step # "labels", step = "pins" => keys = PinTiles(tasks[t].target)
  PROVE  /\ Shape' /\ FetchShape' /\ PendingIsServed'
         /\ AwaitedIsServed' /\ PinsAreAccounted' /\ TaskIsOfTheSelection'
<1> DEFINE r == Awaiting(tasks[t], step, keys)
<1>1. tasks[t] \in TaskType
  BY DEF Shape
<1>2. /\ r \in TaskType
      /\ r.target = tasks[t].target
      /\ r.stage = step
      /\ r.awaits = (keys \cap Entries) \ Cached
      /\ r.got = keys \cap Cached
  BY <1>1, AwaitingTask
<1> HIDE DEF r
<1>3. /\ FetchShape' /\ PendingIsServed'
      /\ \A k : OnItsWay(k) => OnItsWay(k)'
      /\ \A w \in Urgently(keys) : w.key \in Entries \ Cached /\ w.priority < 0 => OnItsWay(w.key)'
  BY SelectionsAreUrgent, RequestsKeepServed
<1>4. \A k \in r.awaits : OnItsWay(k)'
  <2>1. SUFFICES ASSUME NEW k \in r.awaits PROVE OnItsWay(k)'
    OBVIOUS
  <2>2. k \in keys /\ k \in Entries \ Cached
    BY <1>2
  <2>3. PICK w \in Urgently(keys) : w.key = k /\ w.priority = Urgent
    BY <2>2, SelectionsAreUrgent
  <2>4. w.priority < 0
    BY <2>3 DEF Urgent
  <2>5. QED BY <1>3, <2>2, <2>3, <2>4
<1>5. Accounted(r, failed)
  BY <1>2 DEF Accounted
<1>6. tasks' = [tasks EXCEPT ![t] = r]
  BY DEF r
<1>7. Shape' /\ AwaitedIsServed' /\ PinsAreAccounted' /\ TaskIsOfTheSelection'
  BY <1>2, <1>3, <1>4, <1>5, <1>6, OneTaskSteps
<1>8. QED BY <1>3, <1>7
-----------------------------------------------------------------------------
(* The steps *)

\* What the invariant says of fetches and tasks, and of the page and scene.
Served == FetchShape /\ PendingIsServed

Tasks == Shape /\ AwaitedIsServed /\ PinsAreAccounted /\ TaskIsOfTheSelection

LEMMA IInvParts == IInv <=> Served /\ Tasks /\ Agreement /\ DrawnOnce
BY DEF IInv, Served, Tasks, Agreement

LEMMA IInvPartsNext ==
  ASSUME Served', Tasks', Agreement', DrawnOnce'
  PROVE  IInv'
BY DEF IInv, Served, Tasks, Agreement

\* A step that leaves the page and the selection alone keeps them in agreement.
LEMMA AgreementStays ==
  ASSUME Agreement, UNCHANGED <<selected, page>>, failed \subseteq failed'
  PROVE  Agreement'
BY DEF Agreement, DetailsAreOfTheSelection, PinsAreComplete

LEMMA DrawingStays ==
  ASSUME DrawnOnce, UNCHANGED scene
  PROVE  DrawnOnce'
BY DEF DrawnOnce, scene

LEMMA ServedStays ==
  ASSUME Served, UNCHANGED fetches
  PROVE  Served' /\ \A k : OnItsWay(k) => OnItsWay(k)'
BY DEF Served, FetchShape, PendingIsServed, OnItsWay, fetches

\* The user moves.
LEMMA MoveKeeps ==
  ASSUME IInv, Move
  PROVE  IInv'
<1>1. Served /\ Tasks /\ Agreement /\ DrawnOnce
  BY IInvParts
<1>2. /\ view' \in Views
      /\ UNCHANGED <<blocks, fetches, scene, selected, token, tasks, chunk, page, failed>>
  BY DEF Move, details
<1>3. Served' /\ \A k : OnItsWay(k) => OnItsWay(k)'
  BY <1>1, <1>2, ServedStays
<1>4. Tasks'
  <2>1. Shape'
    BY <1>1, <1>2 DEF Tasks, Shape
  <2>2. AwaitedIsServed'
    BY <1>1, <1>2, <1>3 DEF Tasks, AwaitedIsServed
  <2>3. PinsAreAccounted' /\ TaskIsOfTheSelection'
    BY <1>1, <1>2 DEF Tasks, PinsAreAccounted, TaskIsOfTheSelection
  <2>4. QED BY <2>1, <2>2, <2>3 DEF Tasks
<1>5. Agreement' /\ DrawnOnce'
  BY <1>1, <1>2, AgreementStays, DrawingStays
<1>6. QED BY <1>3, <1>4, <1>5, IInvPartsNext

\* A frame builds and evicts: what stays coarse stands down under its tile.
LEMMA FrameDrawsOnce ==
  ASSUME BuildAndEvict
  PROVE  DrawnOnce'
<1>1. PICK built, old, tileOn :
        /\ resident' = built \ old
        /\ tileShown' = tileOn
        /\ standDown' = StandDown(tileOn, built, old)
  BY DEF BuildAndEvict
<1>2. standDown' = {k \in Keys : tileOn /\ <<"coarse", k>> \in built \ old /\ <<"tile", k>> \in built}
  BY <1>1 DEF StandDown
<1>3. QED BY <1>1, <1>2 DEF DrawnOnce

LEMMA StreamKeeps ==
  ASSUME IInv, stream
  PROVE  IInv'
<1>1. Served /\ Tasks /\ Agreement /\ DrawnOnce
  BY IInvParts
<1>2. /\ FetchShape' /\ PendingIsServed'
      /\ \A k : OnItsWay(k) => OnItsWay(k)'
      /\ \E stale :
           /\ \A k : OnItsWay(k) => k \notin stale
           /\ tasks' = [t \in DOMAIN tasks |-> Answered(tasks[t], stale, FALSE)]
  BY <1>1, FrameKeepsServed DEF Served, Tasks, Shape
<1>3. PICK stale :
        /\ \A k : OnItsWay(k) => k \notin stale
        /\ tasks' = [t \in DOMAIN tasks |-> Answered(tasks[t], stale, FALSE)]
  BY <1>2
<1>4. UNCHANGED <<view, token, selected, page, failed>>
  BY DEF stream, viewVars
<1>5. Tasks'
  <2>1. \A k \in stale : FALSE \/ k \in failed' \/ ~OnItsWay(k)
    BY <1>3
  <2>2. FALSE \in BOOLEAN /\ failed \subseteq failed'
    BY <1>4
  <2>3. Shape' /\ AwaitedIsServed' /\ PinsAreAccounted' /\ TaskIsOfTheSelection'
    BY <1>1, <1>2, <1>3, <1>4, <2>1, <2>2, AllTasksAnswered DEF Tasks
  <2>4. QED BY <2>3 DEF Tasks
<1>6. Agreement'
  BY <1>1, <1>4, AgreementStays
<1>7. DrawnOnce'
  BY FrameDrawsOnce DEF stream
<1>8. Served'
  BY <1>2 DEF Served
<1>9. QED BY <1>5, <1>6, <1>7, <1>8, IInvPartsNext

\* A fetch settles: what came is in hand, what did not has failed.
LEMMA SettleKeeps ==
  ASSUME IInv, NEW k \in Keys, NEW came \in BOOLEAN, Settle(k, came)
  PROVE  IInv'
<1>1. Served /\ Tasks /\ Agreement /\ DrawnOnce
  BY IInvParts
<1>2. /\ k \in flying
      /\ failed' = IF came THEN failed ELSE failed \cup {k}
      /\ tasks' = [t \in DOMAIN tasks |-> Answered(tasks[t], {k}, came)]
      /\ blockRequests' = blockRequests \ {k}
      /\ pumpFetches(fetchQueue, flying \ {k})
      /\ UNCHANGED <<view, scene, selected, token, page>>
  BY DEF Settle, viewVars
<1>3. /\ FetchShape' /\ PendingIsServed'
      /\ \A a : OnItsWay(a) /\ a # k => OnItsWay(a)'
  BY <1>1, <1>2, PumpKeepsServed DEF Served
<1>4. failed \subseteq failed' /\ (came \/ k \in failed')
  BY <1>2
<1>5. Tasks'
  <2>1. \A a \in {k} : came \/ a \in failed' \/ ~OnItsWay(a)
    BY <1>4
  <2>2. \A a : OnItsWay(a) /\ a \notin {k} => OnItsWay(a)'
    BY <1>3
  <2>3. Shape' /\ AwaitedIsServed' /\ PinsAreAccounted' /\ TaskIsOfTheSelection'
    BY <1>1, <1>2, <1>4, <2>1, <2>2, AllTasksAnswered DEF Tasks
  <2>4. QED BY <2>3 DEF Tasks
<1>6. Agreement' /\ DrawnOnce'
  BY <1>1, <1>2, <1>4, AgreementStays, DrawingStays
<1>7. Served'
  BY <1>3 DEF Served
<1>8. QED BY <1>5, <1>6, <1>7, IInvPartsNext

\* A new selection: its description at once, and a task of its own.
LEMMA SelectKeeps ==
  ASSUME IInv, NEW target \in Targets, NEW names \in SUBSET Chunks,
         selectTarget(target, names)
  PROVE  IInv'
<1>1. Served /\ Tasks /\ Agreement /\ DrawnOnce
  BY IInvParts
<1>2. /\ token < MaxSelections
      /\ selected' = target /\ token' = token + 1
      /\ page' = IF target = "none" THEN Nothing ELSE Tell(target, "described", {})
      /\ UNCHANGED <<view, fetches, scene, failed>>
  BY DEF selectTarget, viewVars
<1>3. Served' /\ \A k : OnItsWay(k) => OnItsWay(k)'
  BY <1>1, <1>2, ServedStays
<1>4. /\ MaxSelections \in Nat /\ token \in 0 .. MaxSelections
      /\ tasks \in [1 .. MaxSelections -> TaskType]
  BY <1>1, StreamAssumption DEF Tasks, Shape
<1> DEFINE begun == [NoTask EXCEPT !.target = target, !.stage = "names", !.chunks = names]
<1>5. /\ begun \in TaskType /\ begun.target = target
      /\ begun.stage = "names" /\ begun.awaits = {}
  BY DEF NoTask, TaskType, Stages
<1>6. tasks' = IF target = "none" THEN tasks ELSE [tasks EXCEPT ![token + 1] = begun]
  BY DEF selectTarget
<1> HIDE DEF begun
<1>7. PICK s \in 1 .. MaxSelections : s = token + 1
  BY <1>2, <1>4
<1>8. /\ tasks' \in [1 .. MaxSelections -> TaskType]
      /\ \A t \in 1 .. MaxSelections :
           tasks'[t] = IF t = s /\ target # "none" THEN begun ELSE tasks[t]
  BY <1>4, <1>5, <1>6, <1>7
<1>9. Shape'
  BY <1>1, <1>2, <1>4, <1>8 DEF Tasks, Shape
<1>10. AwaitedIsServed'
  <2>1. SUFFICES ASSUME NEW t \in 1 .. MaxSelections, NEW k \in tasks'[t].awaits
                 PROVE  OnItsWay(k)'
    BY DEF AwaitedIsServed
  <2>2. k \in tasks[t].awaits
    BY <1>5, <1>8
  <2>3. QED BY <1>1, <1>3, <2>2 DEF Tasks, AwaitedIsServed
<1>11. PinsAreAccounted'
  <2>1. SUFFICES ASSUME NEW t \in 1 .. MaxSelections, tasks'[t].stage \in {"pins", "labels"}
                 PROVE  /\ PinTiles(tasks'[t].target) \cap Entries
                             \subseteq tasks'[t].got \cup tasks'[t].awaits \cup failed'
                        /\ tasks'[t].stage = "labels" => tasks'[t].awaits = {}
    BY DEF PinsAreAccounted
  <2>2. tasks'[t] = tasks[t]
    BY <1>5, <1>8, <2>1
  <2>3. QED BY <1>1, <1>2, <2>1, <2>2 DEF Tasks, PinsAreAccounted
<1>12. TaskIsOfTheSelection'
  <2>1. SUFFICES ASSUME NEW t \in 1 .. MaxSelections
                 PROVE  /\ t = token' /\ tasks'[t].stage # "done" => tasks'[t].target = selected'
                        /\ t > token' => tasks'[t].stage = "done"
    BY DEF TaskIsOfTheSelection
  <2>2. t > token => tasks[t].stage = "done"
    BY <1>1 DEF Tasks, TaskIsOfTheSelection
  <2>3. CASE t = s
    BY <1>2, <1>4, <1>5, <1>7, <1>8, <2>2, <2>3
  <2>4. CASE t # s
    BY <1>2, <1>4, <1>7, <1>8, <2>2, <2>4
  <2>5. QED BY <2>3, <2>4
<1>13. Agreement'
  BY <1>2 DEF Agreement, DetailsAreOfTheSelection, PinsAreComplete, Nothing, Tell
<1>14. DrawnOnce'
  BY <1>1, <1>2, DrawingStays
<1>15. Tasks'
  BY <1>9, <1>10, <1>11, <1>12 DEF Tasks
<1>16. QED BY <1>3, <1>13, <1>14, <1>15, IInvPartsNext

LEMMA UserKeeps ==
  ASSUME IInv, User
  PROVE  IInv'
<1>1. CASE Move
  BY <1>1, MoveKeeps
<1>2. ASSUME NEW n \in Nets, SelectNet(n) PROVE IInv'
  <2>1. n \in Targets /\ {n} \in SUBSET Chunks
    BY DEF Targets, Chunks
  <2>2. QED BY <1>2, <2>1, SelectKeeps DEF SelectNet
<1>3. ASSUME NEW c \in Cells, SelectCell(c) PROVE IInv'
  <2>1. c \in Targets /\ {"insts"} \in SUBSET Chunks
    BY DEF Targets, Chunks
  <2>2. QED BY <1>3, <2>1, SelectKeeps DEF SelectCell
<1>4. CASE clearSelection
  <2>1. "none" \in Targets /\ {} \in SUBSET Chunks
    BY DEF Targets
  <2>2. QED BY <1>4, <2>1, SelectKeeps DEF clearSelection
<1>5. QED BY <1>1, <1>2, <1>3, <1>4 DEF User

\* A file of names settles: the tasks that waited for one that failed end.
LEMMA ChunkKeeps ==
  ASSUME IInv, NEW x \in Chunks, NEW came \in BOOLEAN, ChunkSettles(x, came)
  PROVE  IInv'
<1>1. Served /\ Tasks /\ Agreement /\ DrawnOnce
  BY IInvParts
<1>2. UNCHANGED <<view, fetches, scene, selected, token, page, failed>>
  BY DEF ChunkSettles, viewVars
<1>3. Served' /\ \A k : OnItsWay(k) => OnItsWay(k)'
  BY <1>1, <1>2, ServedStays
<1>4. tasks \in [1 .. MaxSelections -> TaskType]
  BY <1>1 DEF Tasks, Shape
<1>5. \A t \in 1 .. MaxSelections :
        tasks'[t] = IF ~came /\ x \in tasks[t].chunks
                      THEN [tasks[t] EXCEPT !.stage = "done", !.chunks = {}] ELSE tasks[t]
  BY <1>4 DEF ChunkSettles
<1>6. \A t \in 1 .. MaxSelections :
        /\ tasks'[t] \in TaskType
        /\ tasks'[t].target = tasks[t].target
        /\ tasks'[t].awaits = tasks[t].awaits
        /\ tasks'[t].got = tasks[t].got
        /\ tasks'[t].stage \in {tasks[t].stage, "done"}
  <2>1. SUFFICES ASSUME NEW t \in 1 .. MaxSelections
                 PROVE  /\ tasks'[t] \in TaskType
                        /\ tasks'[t].target = tasks[t].target
                        /\ tasks'[t].awaits = tasks[t].awaits
                        /\ tasks'[t].got = tasks[t].got
                        /\ tasks'[t].stage \in {tasks[t].stage, "done"}
    OBVIOUS
  <2>2. tasks[t] \in TaskType
    BY <1>4
  <2>3. QED BY <1>5, <2>2 DEF TaskType, Stages
<1>7. tasks' \in [1 .. MaxSelections -> TaskType]
  <2>1. tasks' = [t \in 1 .. MaxSelections |-> tasks'[t]]
    BY <1>4 DEF ChunkSettles
  <2>2. QED BY <1>6, <2>1
<1>8. Shape'
  BY <1>1, <1>2, <1>7 DEF Tasks, Shape
<1>9. AwaitedIsServed'
  BY <1>1, <1>3, <1>6 DEF Tasks, AwaitedIsServed
<1>10. PinsAreAccounted'
  <2>1. SUFFICES ASSUME NEW t \in 1 .. MaxSelections, tasks'[t].stage \in {"pins", "labels"}
                 PROVE  /\ PinTiles(tasks'[t].target) \cap Entries
                             \subseteq tasks'[t].got \cup tasks'[t].awaits \cup failed'
                        /\ tasks'[t].stage = "labels" => tasks'[t].awaits = {}
    BY DEF PinsAreAccounted
  <2>2. tasks'[t].stage = tasks[t].stage
    BY <1>6, <2>1
  <2>3. QED BY <1>1, <1>2, <1>6, <2>1, <2>2 DEF Tasks, PinsAreAccounted
<1>11. TaskIsOfTheSelection'
  BY <1>1, <1>2, <1>6 DEF Tasks, TaskIsOfTheSelection
<1>12. Agreement' /\ DrawnOnce'
  BY <1>1, <1>2, AgreementStays, DrawingStays
<1>13. Tasks'
  BY <1>8, <1>9, <1>10, <1>11 DEF Tasks
<1>14. QED BY <1>3, <1>12, <1>13, IInvPartsNext

\* What the current selection's task tells the page is of the selection.
LEMMA TellingAgrees ==
  ASSUME Agreement, Tasks, NEW t \in 1 .. MaxSelections, tasks[t].stage # "done",
         UNCHANGED <<selected, failed>>, NEW step, NEW got,
         step = "complete" => (PinTiles(tasks[t].target) \cap Entries) \ got \subseteq failed,
         Update(t, Tell(tasks[t].target, step, got))
  PROVE  Agreement'
<1>1. CASE t # token
  <2>1. page' = page
    BY <1>1 DEF Update
  <2>2. QED BY <2>1, AgreementStays
<1>2. CASE t = token
  <2>1. tasks[t].target = selected
    BY <1>2 DEF Tasks, TaskIsOfTheSelection
  <2>2. page' = [target |-> selected, stage |-> step, got |-> got]
    BY <1>2, <2>1 DEF Update, Tell
  <2>3. page'.target = selected' /\ page'.stage = step /\ page'.got = got
    BY <2>2
  <2>4. QED BY <2>1, <2>3 DEF Agreement, DetailsAreOfTheSelection, PinsAreComplete
<1>3. QED BY <1>1, <1>2

LEMMA NetNamedKeeps ==
  ASSUME IInv, NEW t \in 1 .. MaxSelections, NetNamed(t)
  PROVE  IInv'
<1> DEFINE n == tasks[t].target
<1>1. Served /\ Tasks /\ Agreement /\ DrawnOnce
  BY IInvParts
<1>2. /\ tasks[t].stage = "names" /\ n \in Nets
      /\ Update(t, Tell(n, "named", {}))
      /\ tasks' = [tasks EXCEPT ![t] = Awaiting(tasks[t], "tiles", Span(n))]
      /\ requestBlocks(Urgently(Span(n)))
      /\ UNCHANGED <<view, scene, selected, token, failed>>
  BY DEF NetNamed, viewVars
<1>3. Span(n) \in SUBSET Keys /\ "tiles" \in Stages
  BY <1>2, PinTilesAreKeys DEF Stages
<1>4. /\ Shape' /\ FetchShape' /\ PendingIsServed'
      /\ AwaitedIsServed' /\ PinsAreAccounted' /\ TaskIsOfTheSelection'
  BY <1>1, <1>2, <1>3, AskingKeeps DEF Served, Tasks
<1>5. Agreement'
  BY <1>1, <1>2, TellingAgrees
<1>6. DrawnOnce'
  BY <1>1, <1>2, DrawingStays
<1>7. Served' /\ Tasks'
  BY <1>4 DEF Served, Tasks
<1>8. QED BY <1>5, <1>6, <1>7, IInvPartsNext

\* A task that begins to read pins.
LEMMA ReadPinsKeeps ==
  ASSUME IInv, NEW t \in 1 .. MaxSelections, tasks[t].stage # "done", ReadPins(t),
         UNCHANGED <<view, scene, selected, token, page, failed>>
  PROVE  IInv'
<1> DEFINE keys == PinTiles(tasks[t].target)
<1>1. Served /\ Tasks /\ Agreement /\ DrawnOnce
  BY IInvParts
<1>2. /\ tasks' = [tasks EXCEPT ![t] = Awaiting(tasks[t], "pins", keys)]
      /\ requestBlocks(Urgently(keys))
  BY DEF ReadPins
<1>3. keys \in SUBSET Keys /\ "pins" \in Stages
  BY PinTilesAreKeys DEF Stages
<1>4. /\ Shape' /\ FetchShape' /\ PendingIsServed'
      /\ AwaitedIsServed' /\ PinsAreAccounted' /\ TaskIsOfTheSelection'
  BY <1>1, <1>2, <1>3, AskingKeeps DEF Served, Tasks
<1>5. Agreement' /\ DrawnOnce'
  BY <1>1, AgreementStays, DrawingStays
<1>6. Served' /\ Tasks'
  BY <1>4 DEF Served, Tasks
<1>7. QED BY <1>5, <1>6, IInvPartsNext

\* A step of one task that asks for no tile.
LEMMA QuietTaskKeeps ==
  ASSUME Served, Tasks, NEW t \in 1 .. MaxSelections, NEW r \in TaskType,
         tasks' = [tasks EXCEPT ![t] = r],
         tasks[t].stage # "done",
         r.target = tasks[t].target, r.awaits = tasks[t].awaits, r.got = tasks[t].got,
         \/ r.stage = "done"
         \/ tasks[t].stage = "pins" /\ r.stage = "labels" /\ r.awaits = {},
         UNCHANGED <<view, fetches, selected, token, failed>>
  PROVE  Served' /\ Tasks'
<1>1. Served' /\ \A k : OnItsWay(k) => OnItsWay(k)'
  BY ServedStays
<1>2. \A k \in r.awaits : OnItsWay(k)'
  BY <1>1 DEF Tasks, AwaitedIsServed
<1>3. Accounted(r, failed)
  BY DEF Tasks, PinsAreAccounted, Accounted
<1>4. Shape' /\ AwaitedIsServed' /\ PinsAreAccounted' /\ TaskIsOfTheSelection'
  BY <1>1, <1>2, <1>3, OneTaskSteps DEF Tasks
<1>5. QED BY <1>1, <1>4 DEF Tasks

\* A task that ends, or goes on to the names of its pins.
Restaged(task, step, names) == [task EXCEPT !.stage = step, !.chunks = names]

LEMMA RestagedTask ==
  ASSUME NEW task \in TaskType, NEW step \in Stages, NEW names \in SUBSET Chunks
  PROVE  /\ Restaged(task, step, names) \in TaskType
         /\ Restaged(task, step, names).stage = step
         /\ Restaged(task, step, names).target = task.target
         /\ Restaged(task, step, names).awaits = task.awaits
         /\ Restaged(task, step, names).got = task.got
BY DEF TaskType, Restaged

LEMMA OutlinedKeeps ==
  ASSUME IInv, NEW t \in 1 .. MaxSelections, Outlined(t)
  PROVE  IInv'
<1>1. Served /\ Tasks /\ Agreement /\ DrawnOnce
  BY IInvParts
<1>2. /\ tasks[t].stage = "tiles"
      /\ UNCHANGED <<view, scene, selected, token, page, failed>>
  BY DEF Outlined, viewVars
<1>3. CASE t = token
  BY <1>2, <1>3, ReadPinsKeeps DEF Outlined
<1>4. CASE t # token
  <2> DEFINE r == Restaged(tasks[t], "done", tasks[t].chunks)
  <2>1. tasks \in [1 .. MaxSelections -> TaskType]
    BY <1>1 DEF Tasks, Shape
  <2>2. tasks[t] \in TaskType /\ tasks[t].chunks \in SUBSET Chunks /\ "done" \in Stages
    BY <2>1 DEF TaskType, Stages
  <2>3. r = [tasks[t] EXCEPT !.stage = "done"]
    BY <2>2 DEF TaskType, Restaged
  <2>4. tasks' = [tasks EXCEPT ![t] = r] /\ UNCHANGED fetches
    BY <1>4, <2>3 DEF Outlined
  <2>5. /\ r \in TaskType /\ r.stage = "done"
        /\ r.target = tasks[t].target /\ r.awaits = tasks[t].awaits /\ r.got = tasks[t].got
    BY <2>2, RestagedTask
  <2> HIDE DEF r
  <2>6. Served' /\ Tasks'
    BY <1>1, <1>2, <2>4, <2>5, QuietTaskKeeps
  <2>7. Agreement' /\ DrawnOnce'
    BY <1>1, <1>2, AgreementStays, DrawingStays
  <2>8. QED BY <2>6, <2>7, IInvPartsNext
<1>5. QED BY <1>3, <1>4

LEMMA PinsReadKeeps ==
  ASSUME IInv, NEW t \in 1 .. MaxSelections, PinsRead(t)
  PROVE  IInv'
<1> DEFINE names == LabelChunks(tasks[t].target, tasks[t].got)
           r == Restaged(tasks[t], "labels", names)
<1>1. Served /\ Tasks /\ Agreement /\ DrawnOnce
  BY IInvParts
<1>2. /\ tasks[t].stage = "pins" /\ tasks[t].awaits = {}
      /\ UNCHANGED <<view, fetches, scene, selected, token, page, failed>>
  BY DEF PinsRead, viewVars
<1>3. tasks[t] \in TaskType
  BY <1>1 DEF Tasks, Shape
<1>4. names \in SUBSET Chunks /\ "labels" \in Stages
  BY DEF LabelChunks, Chunks, Stages
<1>5. tasks' = [tasks EXCEPT ![t] = r]
  BY DEF PinsRead, Restaged
<1>6. /\ r \in TaskType /\ r.stage = "labels"
      /\ r.target = tasks[t].target /\ r.awaits = tasks[t].awaits /\ r.got = tasks[t].got
  BY <1>3, <1>4, RestagedTask
<1> HIDE DEF r, names
<1>7. Served' /\ Tasks'
  BY <1>1, <1>2, <1>5, <1>6, QuietTaskKeeps
<1>8. Agreement' /\ DrawnOnce'
  BY <1>1, <1>2, AgreementStays, DrawingStays
<1>9. QED BY <1>7, <1>8, IInvPartsNext

LEMMA LabelledKeeps ==
  ASSUME IInv, NEW t \in 1 .. MaxSelections, Labelled(t)
  PROVE  IInv'
<1> DEFINE r == Restaged(tasks[t], "done", {})
<1>1. Served /\ Tasks /\ Agreement /\ DrawnOnce
  BY IInvParts
<1>2. /\ tasks[t].stage = "labels"
      /\ Update(t, Tell(tasks[t].target, "complete", tasks[t].got))
      /\ UNCHANGED <<view, fetches, scene, selected, token, failed>>
  BY DEF Labelled, viewVars
<1>3. tasks[t] \in TaskType
  BY <1>1 DEF Tasks, Shape
<1>4. {} \in SUBSET Chunks /\ "done" \in Stages
  BY DEF Stages
<1>5. tasks' = [tasks EXCEPT ![t] = r]
  BY DEF Labelled, Restaged
<1>6. /\ r \in TaskType /\ r.stage = "done"
      /\ r.target = tasks[t].target /\ r.awaits = tasks[t].awaits /\ r.got = tasks[t].got
  BY <1>3, <1>4, RestagedTask
<1> HIDE DEF r
<1>7. Served' /\ Tasks'
  BY <1>1, <1>2, <1>5, <1>6, QuietTaskKeeps
<1>8. (PinTiles(tasks[t].target) \cap Entries) \ tasks[t].got \subseteq failed
  BY <1>1, <1>2 DEF Tasks, PinsAreAccounted
<1>9. Agreement'
  BY <1>1, <1>2, <1>8, TellingAgrees
<1>10. DrawnOnce'
  BY <1>1, <1>2, DrawingStays
<1>11. QED BY <1>7, <1>9, <1>10, IInvPartsNext

LEMMA TaskKeeps ==
  ASSUME IInv, NEW t \in 1 .. MaxSelections, Task(t)
  PROVE  IInv'
<1>1. CASE NetNamed(t)
  BY <1>1, NetNamedKeeps
<1>2. CASE CellNamed(t)
  BY <1>2, ReadPinsKeeps DEF CellNamed, viewVars
<1>3. CASE Outlined(t)
  BY <1>3, OutlinedKeeps
<1>4. CASE PinsRead(t)
  BY <1>4, PinsReadKeeps
<1>5. CASE Labelled(t)
  BY <1>5, LabelledKeeps
<1>6. QED BY <1>1, <1>2, <1>3, <1>4, <1>5 DEF Task

LEMMA InitSatisfies == Init => IInv
<1> SUFFICES ASSUME Init PROVE IInv
  OBVIOUS
<1>1. /\ view \in Views
      /\ blockRequests = {} /\ fetchQueue = <<>> /\ flying = {} /\ inFlight = 0
      /\ resident = {} /\ selected = "none" /\ token = 0
      /\ tasks = [t \in 1 .. MaxSelections |-> NoTask]
      /\ page = [target |-> "none", stage |-> "done", got |-> {}]
  BY DEF Init, Nothing, Tell
<1>2. NoTask \in TaskType /\ NoTask.stage = "done" /\ NoTask.awaits = {}
  BY DEF NoTask, TaskType, Targets, Stages
<1>3. \A t \in 1 .. MaxSelections : tasks[t] = NoTask
  BY <1>1
<1>4. DOMAIN fetchQueue = {}
  BY <1>1
<1>5. Shape
  BY <1>1, <1>2, StreamAssumption DEF Shape, Targets
<1>6. FetchShape
  BY <1>1, <1>4 DEF FetchShape
<1>7. PendingIsServed
  <2>1. Cardinality({}) = 0
    BY FS_EmptySet
  <2>2. QED BY <1>1, <1>4, <2>1, StreamAssumption DEF PendingIsServed
<1>8. AwaitedIsServed /\ PinsAreAccounted /\ TaskIsOfTheSelection
  BY <1>2, <1>3 DEF AwaitedIsServed, PinsAreAccounted, TaskIsOfTheSelection
<1>9. DetailsAreOfTheSelection /\ PinsAreComplete /\ DrawnOnce
  BY <1>1 DEF DetailsAreOfTheSelection, PinsAreComplete, DrawnOnce
<1>10. QED BY <1>5, <1>6, <1>7, <1>8, <1>9 DEF IInv

LEMMA NextKeeps == IInv /\ [Next]_vars => IInv'
<1> SUFFICES ASSUME IInv, [Next]_vars PROVE IInv'
  OBVIOUS
<1>1. CASE stream
  BY <1>1, StreamKeeps
<1>2. CASE User
  BY <1>2, UserKeeps
<1>3. CASE Network
  BY <1>3, SettleKeeps, ChunkKeeps DEF Network
<1>4. ASSUME NEW t \in 1 .. MaxSelections, Task(t) PROVE IInv'
  BY <1>4, TaskKeeps
<1>5. CASE UNCHANGED vars
  <2>1. UNCHANGED <<viewVars, blocks, fetches, scene, details, failed>>
    BY <1>5 DEF vars
  <2>2. Served /\ Tasks /\ Agreement /\ DrawnOnce
    BY IInvParts
  <2>3. Served' /\ \A k : OnItsWay(k) => OnItsWay(k)'
    BY <2>1, <2>2, ServedStays
  <2>4. UNCHANGED <<view, selected, token, tasks, page, failed>>
    BY <2>1 DEF viewVars, details
  <2>5. Shape' /\ AwaitedIsServed' /\ PinsAreAccounted' /\ TaskIsOfTheSelection'
    BY <2>2, <2>3, <2>4
    DEF Tasks, Shape, AwaitedIsServed, PinsAreAccounted, TaskIsOfTheSelection
  <2>6. Agreement' /\ DrawnOnce'
    BY <2>1, <2>2, <2>4, AgreementStays, DrawingStays
  <2>7. Tasks'
    BY <2>5 DEF Tasks
  <2>8. QED BY <2>3, <2>6, <2>7, IInvPartsNext
<1>6. QED BY <1>1, <1>2, <1>3, <1>4, <1>5 DEF Next
-----------------------------------------------------------------------------
(* The theorems *)

\* Nothing that streams, settles or is selected breaks the invariant.
THEOREM InvariantHolds == Spec => []IInv
<1>1. Spec => Init /\ [][Next]_vars
  BY DEF Spec
<1>2. QED BY <1>1, InitSatisfies, NextKeeps, PTL

\* selectTarget: the page's details are those of what is selected now, and
\* pins shown as complete were read off every tile that could be had.
THEOREM SelectionIsAnsweredAsItself == Spec => []SelectionIsItsOwn
<1>1. IInv => SelectionIsItsOwn
  BY DEF IInv, SelectionIsItsOwn
<1>2. QED BY <1>1, InvariantHolds, PTL

\* requestBlock and pumpFetches: every pending promise has exactly one job,
\* at most FETCHES fly, and none waits while a fetch is free; and stream
\* draws no tile at two levels of detail.
THEOREM RequestsAreServedOnce == Spec => []SceneIsSound
<1>1. IInv => SceneIsSound
  BY DEF IInv, SceneIsSound
<1>2. QED BY <1>1, InvariantHolds, PTL
-----------------------------------------------------------------------------
(* The camera's controls *)

\* A flight under way has frames left; the controls are off just then.
FlightInv ==
  /\ ControlsFollowFlights
  /\ flight = [left |-> flight.left, stop |-> flight.stop, height |-> flight.height]
  /\ flight.left \in Nat
  /\ Flying => flight.left > 0

LEMMA TakesOff == ASSUME CameraAssumption, NEW s, NEW h, flyTo(s, h) PROVE FlightInv'
<1>1. PICK height :
        flight' = [left |-> FlightFrames, stop |-> s, height |-> height] /\ enabled' = FALSE
  BY DEF flyTo
<1>2. flight'.left = FlightFrames /\ flight'.stop = s /\ flight'.height = height
      /\ FlightFrames \in Nat /\ FlightFrames > 0
  BY <1>1 DEF CameraAssumption
<1>3. flight' # NoFlight
  BY <1>2 DEF NoFlight
<1> QED BY <1>1, <1>2, <1>3 DEF FlightInv, ControlsFollowFlights, Flying

LEMMA Lands == ASSUME FlightInv, cancelFlight PROVE FlightInv'
<1>1. flight' = NoFlight /\ enabled' = IF Flying THEN TRUE ELSE enabled
  BY DEF cancelFlight
<1>2. enabled' = TRUE
  BY <1>1 DEF FlightInv, ControlsFollowFlights
<1>3. NoFlight = [left |-> NoFlight.left, stop |-> NoFlight.stop, height |-> NoFlight.height]
      /\ NoFlight.left \in Nat
  BY DEF NoFlight
<1> QED BY <1>1, <1>2, <1>3 DEF FlightInv, ControlsFollowFlights, Flying

LEMMA FlightGoesOn == ASSUME FlightInv, FlightFrame PROVE FlightInv'
<1>1. CASE flight.left = 1
  BY <1>1, Lands DEF FlightFrame
<1>2. CASE flight.left # 1
  <2>1. flight' = [flight EXCEPT !.left = @ - 1] /\ enabled' = enabled /\ Flying
    BY <1>2 DEF FlightFrame
  <2>2. flight.left \in Nat /\ flight.left > 1
    BY <1>2, <2>1 DEF FlightInv
  <2>3. /\ flight' = [left |-> flight.left - 1, stop |-> flight.stop, height |-> flight.height]
        /\ flight'.left = flight.left - 1 /\ flight'.left \in Nat
    BY <2>1, <2>2 DEF FlightInv
  <2>4. flight' # NoFlight
    BY <2>2, <2>3 DEF NoFlight
  <2> QED BY <2>1, <2>2, <2>3, <2>4 DEF FlightInv, ControlsFollowFlights, Flying
<1> QED BY <1>1, <1>2

LEMMA FlightStep ==
  ASSUME CameraAssumption, FlightInv, [CameraNext]_cameraVars
  PROVE  FlightInv'
<1>1. CASE UNCHANGED <<flight, enabled>>
  BY <1>1 DEF FlightInv, ControlsFollowFlights, Flying
<1>2. CASE onWheel \/ onPointerDown \/ onKeyDown
  BY <1>2, Lands DEF onWheel, onPointerDown, onKeyDown
<1>3. CASE onDoubleClick
  <2>1. PICK point \in pointsUnder, s \in Stops :
          flyTo(s, IF engine = "model" /\ sideways /\ ~sectionOn THEN point ELSE None)
    BY <1>3 DEF onDoubleClick
  <2> QED BY <2>1, TakesOff
<1>4. CASE FlyToPreset
  BY <1>4, TakesOff DEF FlyToPreset
<1>5. CASE zoomToSelection
  <2>1. PICK s \in Stops, h \in Heights : flyTo(s, IF engine = "model" /\ sectionOn THEN None ELSE h)
    BY <1>5 DEF zoomToSelection
  <2> QED BY <2>1, TakesOff
<1>6. CASE setSection
  <2>1. CASE sectionOn
    BY <1>1, <1>6, <2>1 DEF setSection
  <2>2. CASE ~sectionOn
    <3>1. flyTo(stop, None)
      BY <1>6, <2>2 DEF setSection
    <3> QED BY <3>1, TakesOff
  <2> QED BY <2>1, <2>2
<1>7. CASE onPanMove \/ onPanEnd \/ Rotate \/ Report \/ FreeFrame \/ UNCHANGED cameraVars
  BY <1>1, <1>7 DEF onPanMove, onPanEnd, Rotate, Report, FreeFrame, motion, cameraVars
<1>8. CASE FlightFrame
  BY <1>8, FlightGoesOn
<1> QED BY <1>2, <1>3, <1>4, <1>5, <1>6, <1>7, <1>8 DEF CameraNext, CameraFrame

\* flyTo, cancelFlight and stepFlight: dragging and rotating work exactly
\* while no flight runs, whichever event started, replaced or cancelled it.
THEOREM ControlsAlwaysFollow == ASSUME CameraAssumption PROVE CameraSpec => []ControlsFollowFlights
<1>1. CameraInit => FlightInv
  <2> SUFFICES ASSUME CameraInit PROVE FlightInv
    OBVIOUS
  <2>1. flight = NoFlight /\ enabled = TRUE
    BY DEF CameraInit
  <2>2. NoFlight = [left |-> NoFlight.left, stop |-> NoFlight.stop, height |-> NoFlight.height]
        /\ NoFlight.left \in Nat
    BY DEF NoFlight
  <2> QED BY <2>1, <2>2 DEF FlightInv, ControlsFollowFlights, Flying
<1>2. FlightInv => ControlsFollowFlights
  BY DEF FlightInv
<1> QED BY <1>1, <1>2, FlightStep, PTL DEF CameraSpec
-----------------------------------------------------------------------------
(* The model's section caps *)

LEMMA CapsComeAndGo == ASSUME NoCapsWithoutACut, UpdateScene PROVE NoCapsWithoutACut'
<1> SUFFICES ASSUME ~cutOn PROVE staticCaps' = Uncut /\ \A c \in DOMAIN ages' : caps'[c] = Uncut
  BY DEF NoCapsWithoutACut, Resident, UpdateScene
<1>1. staticCaps' = Uncut
  BY DEF UpdateScene, UpdateSection, NoCapsWithoutACut
<1>2. PICK made \in Shares(Missing) :
        /\ ages' = Aged(made)
        /\ LET stamp == Stamp(cutOn, cut', capEps')
               before == CapsAfter(made, DOMAIN ages', stamp, {})
               stale == {c \in DOMAIN ages' : before[c] # stamp}
           IN  \E cutNow \in Shares(stale) :
                 /\ cutNow # {} \/ stale = {} \/ made # {}
                 /\ caps' = CapsAfter(made, DOMAIN ages', stamp, cutNow)
  BY DEF UpdateScene, Stream
<1>3. PICK cutNow : caps' = CapsAfter(made, DOMAIN ages', Stamp(cutOn, cut', capEps'), cutNow)
  BY <1>2
<1>4. Stamp(cutOn, cut', capEps') = Uncut
  BY DEF Stamp
<1>5. DOMAIN ages' \subseteq Resident \cup made
  BY <1>2 DEF Aged
<1>6. \A c \in Resident : caps[c] = Uncut
  BY DEF NoCapsWithoutACut
<1>7. ASSUME NEW c \in DOMAIN ages'
      PROVE  caps'[c] = Uncut
  BY <1>3, <1>4, <1>5, <1>6 DEF CapsAfter
<1> QED BY <1>1, <1>7

LEMMA CapsSwitch == ASSUME SetSection PROVE NoCapsWithoutACut'
<1> SUFFICES ASSUME ~cutOn' PROVE staticCaps' = Uncut /\ \A c \in DOMAIN ages' : caps'[c] = Uncut
  BY DEF NoCapsWithoutACut, Resident
<1> QED BY DEF SetSection, Resident

\* updateSection, setSection and stream: without a section neither the package
\* nor any chunk shows a cut face, also those that were built while one was on.
THEOREM CapsNeedACut == MacroSpec => []NoCapsWithoutACut
<1>1. MacroInit => NoCapsWithoutACut
  BY DEF MacroInit, NoCapsWithoutACut, Resident
<1>2. NoCapsWithoutACut /\ [MacroNext]_macroVars => NoCapsWithoutACut'
  <2> SUFFICES ASSUME NoCapsWithoutACut, [MacroNext]_macroVars PROVE NoCapsWithoutACut'
    OBVIOUS
  <2>1. CASE UNCHANGED <<cutOn, staticCaps, ages, caps>>
    BY <2>1 DEF NoCapsWithoutACut, Resident
  <2>2. CASE UpdateScene
    BY <2>2, CapsComeAndGo
  <2>3. CASE SetSection
    BY <2>3, CapsSwitch
  <2>4. CASE Annotate \/ MoveCamera \/ MovePointer \/ SetLabelMode \/ UNCHANGED macroVars
    BY <2>1, <2>4 DEF Annotate, MoveCamera, MovePointer, SetLabelMode, sectionVars, macroVars
  <2> QED BY <2>2, <2>3, <2>4 DEF MacroNext
<1> QED BY <1>1, <1>2, PTL DEF MacroSpec
=============================================================================
